------------------------------- MODULE MCUsbTx -------------------------------
(* Frames whose records differ most: a plain one, an extended one and a    *)
(* remote one that asks for more than eight bytes.                         *)
EXTENDS UsbTx

MCShapes == << [ext |-> FALSE, rtr |-> FALSE, dlc |-> 1],
               [ext |-> TRUE, rtr |-> FALSE, dlc |-> 2],
               [ext |-> FALSE, rtr |-> TRUE, dlc |-> 3] >>
=============================================================================
