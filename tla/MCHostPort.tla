------------------------------ MODULE MCHostPort ------------------------------
(* Frames that differ in every flag, one with a length code above the      *)
(* payload, and a status record.                                           *)
EXTENDS HostPort

Tx(id, ext, rtr, srr, ss, dlc) ==
    [id |-> id, ext |-> ext, rtr |-> rtr, srr |-> srr, ss |-> ss, dlc |-> dlc,
     data |-> [i \in 1..MaxDlc |-> <<id, i>>]]

MCRecords == {Tx(1, FALSE, FALSE, FALSE, TRUE, 1),
              Tx(2, TRUE, FALSE, TRUE, FALSE, 3),
              Tx(3, FALSE, TRUE, TRUE, FALSE, 1),
              [status |-> 1]}
=============================================================================
