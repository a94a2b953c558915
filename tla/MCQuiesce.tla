------------------------------ MODULE MCQuiesce ------------------------------
(* Two TWAI tasks, two settings, three complete request/release cycles.    *)
EXTENDS Quiesce
=============================================================================
