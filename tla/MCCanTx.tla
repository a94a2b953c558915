------------------------------- MODULE MCCanTx -------------------------------
(* Two or three numbered frames; the second one is single-shot.            *)
EXTENDS CanTx

MCSingleShot == {2}
NoSingleShot == {}
=============================================================================
