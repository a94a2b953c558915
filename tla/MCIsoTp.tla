------------------------------- MODULE MCIsoTp -------------------------------
(* Two messages of four frames, with a single frame between them.          *)
EXTENDS IsoTp

MCPieces == <<4, 1, 4>>
=============================================================================
