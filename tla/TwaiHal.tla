------------------------------- MODULE TwaiHal -------------------------------
(***************************************************************************)
(* twai_hal.c over the ESP-IDF TWAI driver, as the bridge uses it to       *)
(* transmit.  The driver and its controller are external: their state and  *)
(* the steps they take by themselves (Drv...) are modelled from what       *)
(* twai_hal.c and main.c say and rely on.  The rest translates twai_hal.c. *)
(*                                                                         *)
(* The driver reports outcomes as alert bits that accumulate until         *)
(* twai_read_alerts() returns and clears them all at once.                 *)
(***************************************************************************)
EXTENDS Naturals, Sequences

CONSTANTS MaxFrame,    \* bound: frames the host writes, numbered in its order
          SingleShot,  \* those the host sent without automatic retransmission
          InstallMayFail, \* twai_driver_install or twai_start may refuse
          TxQueueLen,  \* CFG_TWAI_TX_QUEUE_LEN
          MaxBusOffs,  \* bound: bus-offs in a behaviour
          MaxFails     \* bound: failed single-shot attempts in a behaviour

Frames == 1..MaxFrame

ASSUME TwaiHalAssumption == /\ MaxFrame \in Nat
                            /\ SingleShot \subseteq Frames
                            /\ InstallMayFail \in BOOLEAN
                            /\ TxQueueLen \in Nat \ {0}
                            /\ MaxBusOffs \in Nat
                            /\ MaxFails \in Nat

VARIABLES drv,      \* the driver's state; s_installed is drv # "none"
          mode,     \* s_mode
          txq,      \* frames the driver owns, the one on the bus first
          alerts,   \* unread alerts
          wire,     \* frames that reached the bus, in order
          failed,   \* single-shot frames whose attempt failed on the bus
          offs,     \* bus-offs so far
          fails     \* failed attempts so far

halVars == <<drv, mode, txq, alerts, wire, failed, offs, fails>>
busVars == <<wire, failed, offs, fails>>

DrvStates == {"none", "stopped", "running", "busoff", "recovering"}
Modes     == {"normal", "listen"}
Alerts    == {"success", "failure", "bus_off", "recovered"}

Installed == drv # "none"

HalTypeOK == /\ drv \in DrvStates
             /\ mode \in Modes
             /\ txq \in Seq(Frames)
             /\ alerts \subseteq Alerts
             /\ wire \in Seq(Frames)
             /\ failed \subseteq SingleShot
             /\ offs \in 0..MaxBusOffs
             /\ fails \in 0..MaxFails

\* Before pcan_twai_start has ever been called.
HalInit == /\ drv = "none"
           /\ mode = "listen"
           /\ txq = <<>>
           /\ alerts = {}
           /\ wire = <<>>
           /\ failed = {}
           /\ offs = 0
           /\ fails = 0

-----------------------------------------------------------------------------
(* The controller and the bus                                              *)

Transmitting == drv = "running" /\ txq # <<>>

\* A node acknowledges the frame.
DrvSuccess == /\ Transmitting
              /\ wire' = Append(wire, Head(txq))
              /\ txq' = Tail(txq)
              /\ alerts' = alerts \cup {"success"}
              /\ UNCHANGED <<drv, mode, failed, offs, fails>>

\* Only a single-shot frame is given up; others stay in arbitration.
DrvFailure == /\ Transmitting
              /\ Head(txq) \in SingleShot
              /\ fails < MaxFails
              /\ fails' = fails + 1
              /\ failed' = failed \cup {Head(txq)}
              /\ txq' = Tail(txq)
              /\ alerts' = alerts \cup {"failure"}
              /\ UNCHANGED <<drv, mode, wire, offs>>

\* Errors take the controller off the bus, also just after it completed a
\* frame (main.c:635); a frame in its buffer stays there and no transmission
\* alert is raised for it (main.c:630-632).
DrvBusOff == /\ drv = "running"
             /\ mode = "normal"
             /\ offs < MaxBusOffs
             /\ offs' = offs + 1
             /\ drv' = "busoff"
             /\ alerts' = alerts \cup {"bus_off"}
             /\ UNCHANGED <<mode, txq, wire, failed, fails>>

\* The recovery sequence ends with the driver stopped.
DrvRecovered == /\ drv = "recovering"
                /\ drv' = "stopped"
                /\ alerts' = alerts \cup {"recovered"}
                /\ UNCHANGED <<mode, txq, busVars>>

DrvStep == DrvSuccess \/ DrvFailure \/ DrvBusOff \/ DrvRecovered

-----------------------------------------------------------------------------
(* pcan_twai_transmit: its outcomes                                        *)

\* ESP_ERR_NOT_SUPPORTED: listen-only never sources traffic.
HalListenOnly == Installed /\ mode = "listen"

\* ESP_OK: the frame is the driver's from here on.
HalAccepts == /\ drv = "running"
              /\ mode = "normal"
              /\ Len(txq) < TxQueueLen

HalEnqueue(f) == /\ txq' = Append(txq, f)
                 /\ UNCHANGED <<drv, mode, alerts, busVars>>

(* pcan_twai_stop: uninstalling frees the queues and forgets the unread    *)
(* alerts.  The driver refuses while it is recovering; s_installed stays.  *)
CanUninstall == drv # "recovering"

HalStop == IF CanUninstall
           THEN /\ drv' = "none"
                /\ txq' = <<>>
                /\ alerts' = {}
                /\ UNCHANGED <<mode, busVars>>
           ELSE UNCHANGED halVars

(* pcan_twai_start and pcan_twai_reconfigure: stop, install, start.  A     *)
(* refused stop leaves everything; a failed install leaves no driver.      *)
HalStart(m) == IF CanUninstall
               THEN /\ \/ drv' = "running" /\ mode' = m
                       \/ InstallMayFail /\ drv' = "none" /\ UNCHANGED mode
                    /\ txq' = <<>>
                    /\ alerts' = {}
                    /\ UNCHANGED busVars
               ELSE UNCHANGED halVars

\* Mutant: a recovered driver is left stopped.
HalServiceNoRestart ==
    /\ alerts' = IF Installed THEN {} ELSE alerts
    /\ IF "bus_off" \in alerts /\ drv = "busoff"
       THEN drv' = "recovering" /\ txq' = <<>>
       ELSE UNCHANGED <<drv, txq>>
    /\ UNCHANGED <<mode, busVars>>

(* pcan_twai_service_alerts: reads and clears every alert, starts recovery *)
(* from bus-off and restarts a recovered driver.                           *)
HalService ==
    /\ alerts' = IF Installed THEN {} ELSE alerts
    /\ IF "bus_off" \in alerts /\ drv = "busoff"
       THEN drv' = "recovering" /\ txq' = <<>>
       ELSE /\ drv' = IF "recovered" \in alerts /\ drv = "stopped"
                      THEN "running"
                      ELSE drv
            /\ UNCHANGED txq
    /\ UNCHANGED <<mode, busVars>>

\* The TX event it returns: a failure wins over a success read with it.
TxEvent == IF "failure" \in alerts THEN <<"FAIL">>
           ELSE IF "success" \in alerts THEN <<"OK">>
           ELSE <<>>
=============================================================================
