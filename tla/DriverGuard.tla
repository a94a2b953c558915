----------------------------- MODULE DriverGuard -----------------------------
(***************************************************************************)
(* What the quiesce handshake of main.c promises about the TWAI driver:    *)
(* tasks use the driver concurrently, the control task tears it down and   *)
(* rebuilds it alone.  twai_driver_uninstall() frees the queues a blocked  *)
(* twai_transmit()/twai_receive() sleeps on, so an overlap is a            *)
(* use-after-free (main.c, comment of ctrl_quiesce_begin).                 *)
(***************************************************************************)

CONSTANT Tasks              \* twai_rx_task and can_tx_task

VARIABLES users,            \* the tasks inside a twai_hal call
          teardown          \* the control task may touch the installation

vars == <<users, teardown>>

TypeOK == /\ users \subseteq Tasks
          /\ teardown \in BOOLEAN

Init == users = {} /\ teardown = FALSE

Enter(t) == /\ ~teardown
            /\ t \notin users
            /\ users' = users \cup {t}
            /\ UNCHANGED teardown

Leave(t) == /\ t \in users
            /\ users' = users \ {t}
            /\ UNCHANGED teardown

Take == /\ users = {}
        /\ ~teardown
        /\ teardown' = TRUE
        /\ UNCHANGED users

Release == /\ teardown
           /\ teardown' = FALSE
           /\ UNCHANGED users

Next == \/ \E t \in Tasks : Enter(t) \/ Leave(t)
        \/ Take
        \/ Release

Spec == Init /\ [][Next]_vars
=============================================================================
