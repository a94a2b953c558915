-------------------------------- MODULE MCUds --------------------------------
(* A server, its tester and a bus that loses messages.                     *)
EXTENDS Uds
=============================================================================
