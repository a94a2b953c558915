----------------------------- MODULE BoundedFifo -----------------------------
(***************************************************************************)
(* What ringbuf.h promises to the two tasks at its ends: a FIFO of at most *)
(* Capacity frames, copied by value.                                       *)
(***************************************************************************)
EXTENDS Naturals, Sequences

CONSTANTS Capacity,   \* slots
          Items       \* what is stored

VARIABLES queue,      \* stored frames, oldest first
          got         \* frames delivered, oldest first

vars == <<queue, got>>

Init == queue = <<>> /\ got = <<>>

Put(f) == /\ Len(queue) < Capacity
          /\ queue' = Append(queue, f)
          /\ UNCHANGED got

Take == /\ queue # <<>>
        /\ got' = Append(got, Head(queue))
        /\ queue' = Tail(queue)

Next == Take \/ \E f \in Items : Put(f)

Spec == Init /\ [][Next]_vars
=============================================================================
