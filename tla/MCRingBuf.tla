------------------------------ MODULE MCRingBuf ------------------------------
(* A ring under both kinds of producer.                       *)
EXTENDS RingBuf
=============================================================================
