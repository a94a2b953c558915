------------------------------- MODULE Quiesce -------------------------------
(***************************************************************************)
(* The quiesce handshake of main.c: how ctrl_task gets twai_rx_task and    *)
(* can_tx_task out of every twai_hal call before it reconfigures the CAN   *)
(* driver, and how a reconfiguration requested by the host meanwhile is    *)
(* not lost.                                                               *)
(*                                                                         *)
(* s_quiesce_seq is odd while a park is requested and grows by one at each *)
(* request and at each release.  A task samples it once per pass; it may   *)
(* be preempted anywhere between the sample, the decision and the write of *)
(* its ack word, so every one of those is a step of its own.               *)
(*                                                                         *)
(* A request that timed out stays pending and is made again in the next    *)
(* pass of ctrl_task, without limit.                                       *)
(***************************************************************************)
EXTENDS Naturals

CONSTANTS Tasks,      \* twai_rx_task and can_tx_task
          Configs,    \* the settings the host asks for
          Boot,       \* the settings ctrl_task starts the driver with
          WaitPolls,  \* polls ctrl_quiesce_begin makes before it gives up
          MaxSeq      \* bound: where the ids are renumbered (Renumber)

ASSUME QuiesceAssumption == /\ Boot \in Configs
                            /\ WaitPolls \in Nat
                            /\ MaxSeq \in Nat
                            /\ MaxSeq >= 3

VARIABLES seq,      \* s_quiesce_seq
          ack,      \* s_quiesce_rx_ack and s_quiesce_tx_ack
          cycle,    \* each task's local copy of s_quiesce_seq
          pc,       \* where each task is
          ctrl,     \* where ctrl_task is
          left,     \* polls left in ctrl_quiesce_begin
          seen,     \* acks the current pass of its loop found up to date
          due,      \* tasks a release found in the park, not yet back at work
          want,     \* the settings in s_dev_state
          pending,  \* s_dev_state.reconfig_pending
          handed    \* the settings last handed to the driver

vars == <<seq, ack, cycle, pc, ctrl, left, seen, due, want, pending, handed>>

taskVars == <<ack, cycle, pc>>
ctrlVars == <<seq, ctrl, left, seen>>
hostVars == <<want, pending, handed>>

(***************************************************************************)
(* Task locations:                                                         *)
(*   top      about to sample s_quiesce_seq                                *)
(*   run      past the check, not yet inside the driver (rx: nothing; tx:  *)
(*            the wait of pcan_rb_pop, the drain of s_tx_done)             *)
(*   call     inside pcan_twai_receive / pcan_twai_transmit                *)
(*   away     after the call: ring push, back-off, wait for a completion   *)
(*   publish  in quiesce_park, about to write the ack word                 *)
(*   parked   in quiesce_park, in vTaskDelay                               *)
(* Control locations: idle, wait (the loop of ctrl_quiesce_begin), giveup  *)
(* (it returned false), granted (it returned true), cleared (the pending   *)
(* flag is cleared), torn (the driver call is over, the release is due),   *)
(* rest (the remainder of the pass and the delay of CTRL_PERIOD_MS).       *)
(***************************************************************************)
TaskPc == {"top", "run", "call", "away", "publish", "parked"}
CtrlPc == {"idle", "wait", "giveup", "granted", "cleared", "torn",
           "rest"}
InPark == {"publish", "parked"}

Odd(n) == n % 2 = 1

Init == /\ seq = 0
        /\ ack = [t \in Tasks |-> 0]
        /\ cycle = [t \in Tasks |-> 0]
        /\ pc = [t \in Tasks |-> "top"]
        /\ ctrl = "idle"
        /\ left = 0
        /\ seen = {}
        /\ due = {}
        /\ want = Boot
        /\ pending = FALSE
        /\ handed = Boot

-----------------------------------------------------------------------------
(* twai_rx_task and can_tx_task                                            *)

Goto(t, where) == pc' = [pc EXCEPT ![t] = where]

\* Samples the request word at the head of the loop.
Sample(t) == /\ pc[t] = "top"
             /\ cycle' = [cycle EXCEPT ![t] = seq]
             /\ Goto(t, IF Odd(seq) THEN "publish" ELSE "run")
             /\ due' = IF Odd(seq) THEN due ELSE due \ {t}
             /\ UNCHANGED <<ack, ctrlVars, hostVars>>

\* Enters the driver; nothing re-reads the request word before that.
EnterCall(t) == /\ pc[t] = "run"
                /\ Goto(t, "call")
                /\ UNCHANGED <<ack, cycle, due, ctrlVars, hostVars>>

\* A pass that makes no driver call: tx_ring empty, or awaiting a completion.
SkipCall(t) == /\ pc[t] = "run"
               /\ Goto(t, "away")
               /\ UNCHANGED <<ack, cycle, due, ctrlVars, hostVars>>

Return(t) == /\ pc[t] = "call"
             /\ Goto(t, "away")
             /\ UNCHANGED <<ack, cycle, due, ctrlVars, hostVars>>

Loop(t) == /\ pc[t] = "away"
           /\ Goto(t, "top")
           /\ UNCHANGED <<ack, cycle, due, ctrlVars, hostVars>>

\* quiesce_park writes the id it decided on, however old that is by now.
Publish(t) == /\ pc[t] = "publish"
              /\ ack' = [ack EXCEPT ![t] = cycle[t]]
              /\ Goto(t, "parked")
              /\ UNCHANGED <<cycle, due, ctrlVars, hostVars>>

\* The delay is over: re-echo a request still out, leave on a release.
Wake(t) == /\ pc[t] = "parked"
           /\ cycle' = [cycle EXCEPT ![t] = seq]
           /\ Goto(t, IF Odd(seq) THEN "publish" ELSE "top")
           /\ UNCHANGED <<ack, due, ctrlVars, hostVars>>

ParkStep(t) == Sample(t) \/ Publish(t) \/ Wake(t) \/ Loop(t)

TaskStep(t) == ParkStep(t) \/ EnterCall(t) \/ SkipCall(t) \/ Return(t)

-----------------------------------------------------------------------------
(* ctrl_task                                                               *)

\* A pending request opens a new cycle.  ctrl_task alone writes the word, so
\* its read and its write are one step.
Request == /\ ctrl = "idle"
           /\ pending
           /\ seq < MaxSeq
           /\ seq' = seq + 1
           /\ ctrl' = "wait"
           /\ left' = WaitPolls
           /\ seen' = {}
           /\ UNCHANGED <<due, taskVars, hostVars>>

\* Mutant: an ack is a flag that says parked, whatever cycle it was set in.
ReadAckFlag(t) == /\ ctrl = "wait"
                  /\ t \notin seen
                  /\ Odd(ack[t])
                  /\ seen' = seen \cup {t}
                  /\ UNCHANGED <<seq, ctrl, left, due, taskVars, hostVars>>

\* The acks are read one after the other.
ReadAck(t) == /\ ctrl = "wait"
              /\ t \notin seen
              /\ ack[t] = seq
              /\ seen' = seen \cup {t}
              /\ UNCHANGED <<seq, ctrl, left, due, taskVars, hostVars>>

\* An ack that is not for this cycle: poll again, or give up.
Poll(t) == /\ ctrl = "wait"
           /\ t \notin seen
           /\ ack[t] # seq
           /\ left > 0
           /\ left' = left - 1
           /\ seen' = {}
           /\ UNCHANGED <<seq, ctrl, due, taskVars, hostVars>>

\* Mutant: the timeout counts as consent.
GiveUpAndGo(t) == /\ ctrl = "wait"
                  /\ t \notin seen
                  /\ ack[t] # seq
                  /\ left = 0
                  /\ ctrl' = "granted"
                  /\ UNCHANGED <<seq, left, seen, due, taskVars, hostVars>>

GiveUp(t) == /\ ctrl = "wait"
             /\ t \notin seen
             /\ ack[t] # seq
             /\ left = 0
             /\ ctrl' = "giveup"
             /\ UNCHANGED <<seq, left, seen, due, taskVars, hostVars>>

Grant == /\ ctrl = "wait"
         /\ seen = Tasks
         /\ ctrl' = "granted"
         /\ UNCHANGED <<seq, left, seen, due, taskVars, hostVars>>

\* Cleared before the snapshot, so that a command racing in re-sets the flag.
ClearReconfig == /\ ctrl = "granted"
                 /\ pending' = FALSE
                 /\ ctrl' = "cleared"
                 /\ UNCHANGED <<seq, left, seen, due, taskVars, want, handed>>

\* pcan_cmd_snapshot and the reconfigure or stop that uses it.
Apply == /\ ctrl = "cleared"
         /\ handed' = want
         /\ ctrl' = "torn"
         /\ UNCHANGED <<seq, left, seen, due, taskVars, want, pending>>

\* The tasks in quiesce_park; a release takes effect on these.
Parked == {t \in Tasks : pc[t] \in InPark}

\* Mutants: the flag is cleared when the reconfiguration is over; a request
\* that timed out is not withdrawn.
ReleaseAndClear == /\ ctrl \in {"torn", "giveup"}
                   /\ seq' = seq + 1
                   /\ pending' = IF ctrl = "torn" THEN FALSE ELSE pending
                   /\ ctrl' = "rest"
                   /\ seen' = {}
                   /\ due' = Parked
                   /\ UNCHANGED <<left, taskVars, want, handed>>

ReleaseGranted == /\ ctrl = "torn"
                  /\ seq' = seq + 1
                  /\ ctrl' = "rest"
                  /\ seen' = {}
                  /\ due' = Parked
                  /\ UNCHANGED <<left, taskVars, hostVars>>

\* ctrl_quiesce_end, after a teardown and after a timeout.
Release == /\ ctrl \in {"torn", "giveup"}
           /\ seq' = seq + 1
           /\ ctrl' = "rest"
           /\ seen' = {}
           /\ due' = Parked
           /\ UNCHANGED <<left, taskVars, hostVars>>

\* Mutant: the next pass begins without the delay.
NextPassAtOnce == /\ ctrl = "rest"
                  /\ ctrl' = "idle"
                  /\ UNCHANGED <<seq, left, seen, due, taskVars, hostVars>>

(* The delay that ends a pass is over.  CTRL_PERIOD_MS is no shorter than  *)
(* QUIESCE_POLL_MS and begins later, and the two tasks share ctrl_task's   *)
(* core with higher priorities (config.h:55-78): a task that was parked    *)
(* when the request was released has woken, and has gone through the head  *)
(* of its loop, before ctrl_task gets the core again.                      *)
NextPass == /\ ctrl = "rest"
            /\ due = {}
            /\ ctrl' = "idle"
            /\ UNCHANGED <<seq, left, seen, due, taskVars, hostVars>>

(* The bound on the ids.  They are only compared with the current one and  *)
(* tested for parity, so before they exceed MaxSeq all of them are lowered *)
(* by two; one too small for that is older than any id to come and keeps   *)
(* its parity.  No code stands for this, and it limits no behaviour.       *)
Lowered(n) == IF n >= 2 THEN n - 2 ELSE n

Renumber == /\ ctrl = "idle"
            /\ seq >= MaxSeq
            /\ seq' = Lowered(seq)
            /\ ack' = [t \in Tasks |-> Lowered(ack[t])]
            /\ cycle' = [t \in Tasks |-> Lowered(cycle[t])]
            /\ UNCHANGED <<pc, ctrl, left, seen, due, hostVars>>

CtrlStep == \/ Request \/ Grant \/ ClearReconfig \/ Apply \/ Release
            \/ NextPass \/ Renumber
            \/ \E t \in Tasks : ReadAck(t) \/ Poll(t) \/ GiveUp(t)

-----------------------------------------------------------------------------
\* A host command updates the settings and raises the flag under one mutex.
HostCommand == \E c \in Configs :
                  /\ want' = c
                  /\ pending' = TRUE
                  /\ UNCHANGED <<due, taskVars, ctrlVars, handed>>

Next == \/ \E t \in Tasks : TaskStep(t)
        \/ CtrlStep
        \/ HostCommand

Spec == Init /\ [][Next]_vars

(* FreeRTOS runs every ready task; nothing makes a driver call return, so  *)
(* a task may stay in "call" for ever (the wedged driver of main.c:499).   *)
FairSpec == /\ Spec
            /\ \A t \in Tasks : WF_vars(ParkStep(t))
            /\ WF_vars(CtrlStep)

-----------------------------------------------------------------------------
TypeOK == /\ seq \in Nat
          /\ ack \in [Tasks -> Nat]
          /\ cycle \in [Tasks -> Nat]
          /\ pc \in [Tasks -> TaskPc]
          /\ ctrl \in CtrlPc
          /\ left \in 0..WaitPolls
          /\ seen \subseteq Tasks
          /\ due \subseteq Tasks
          /\ want \in Configs
          /\ pending \in BOOLEAN
          /\ handed \in Configs

Exclusive == ctrl \in {"granted", "cleared", "torn"}

(* While ctrl_task touches the driver no task is inside a twai_hal call,   *)
(* or past the check that leads to one: the reason for ctrl_quiesce_begin  *)
(* returning true.                                                         *)
TeardownAlone == Exclusive => \A t \in Tasks : pc[t] \in InPark

(* An ack that names the current request is consent that still holds: its  *)
(* writer is in quiesce_park and will echo nothing older.                  *)
AckIsConsent == Odd(seq) => \A t \in Tasks :
                   ack[t] = seq => /\ pc[t] \in InPark
                                   /\ pc[t] = "publish" => cycle[t] = seq

(* The request word is odd exactly from ctrl_quiesce_begin to              *)
(* ctrl_quiesce_end, and no ack or sample is ahead of it.                  *)
SeqDiscipline == /\ Odd(seq) <=> ctrl \notin {"idle", "rest"}
                 /\ \A t \in Tasks : /\ ack[t] <= seq
                                     /\ cycle[t] <= seq
                                     /\ pc[t] = "publish" => Odd(cycle[t])

(* What ctrl_task read stays true until it ends the cycle.                 *)
SeenHolds == /\ Exclusive => seen = Tasks
             /\ \A t \in seen : ack[t] = seq
             /\ ctrl \in {"idle", "rest"} => seen = {}

(* The inductive invariant.                                                *)
IInv == TypeOK /\ AckIsConsent /\ SeqDiscipline /\ SeenHolds

(* Clear, then snapshot (main.c:678-692): when no request is flagged and   *)
(* none is being applied, the driver has the host's latest settings.       *)
RequestNotLost == ~pending /\ ctrl # "cleared" => handed = want

(* The handshake implements exclusive access to the driver.                *)
Guard == INSTANCE DriverGuard WITH users <- {t \in Tasks : pc[t] = "call"},
                                   teardown <- Exclusive
GuardSpec == Guard!Spec

(* ctrl_quiesce_begin always returns, ctrl_quiesce_end follows on both     *)
(* paths, and ctrl_task comes to its next pass: no request stays out, even *)
(* with a task wedged in the driver.                                       *)
RequestEnds == ctrl # "idle" ~> ctrl = "idle"

(* A parked task gets back to work, also when its peer never parks, so     *)
(* that every request times out and is made again in the next pass, for    *)
(* ever.                                                                   *)
ParkedIsReleased == \A t \in Tasks : pc[t] = "parked" ~> pc[t] = "run"

(* The handshake never wedges the tasks (main.c:675): both of the above.   *)
HandshakeEnds == RequestEnds /\ ParkedIsReleased
=============================================================================
