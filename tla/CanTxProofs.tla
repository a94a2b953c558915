----------------------------- MODULE CanTxProofs -----------------------------
(***************************************************************************)
(* Proofs about the transmit path, for every number of frames, depth of    *)
(* the queues and number of commands, bus-offs and failed attempts.        *)
(***************************************************************************)
EXTENDS CanTx, SequenceTheorems, TLAPS

USE TwaiHalAssumption, CanTxAssumption

-----------------------------------------------------------------------------
(* The inductive invariant                                                 *)

TxAlerts == {"success", "failure"}

\* The driver owns a frame, or has an unread outcome of one.
Unresolved == txq # <<>> \/ alerts \cap TxAlerts # {}

\* What can_tx_task knows at each of its places.
TaskDiscipline ==
    /\ tpc \in {"pop", "drain", "submit", "delay"} => ~inflight
    /\ tpc = "pop" => pending = None
    /\ tpc \in {"drain", "submit", "delay"} \/ inflight => pending # None
    /\ tpc = "await" => inflight
    /\ tpc = "submit" => txDone = <<>>

\* ctrl_task touches the driver only while can_tx_task is parked.
CtrlDiscipline ==
    /\ cpc \in {"flush", "flushPost", "apply", "abort", "release"}
          => quiesce /\ tpc = "park"
    /\ cpc = "quiesce" => quiesce
    /\ post # <<>> => cpc \in {"flushPost", "servicePost"}

\* A driver that is not on the bus owns nothing; a bus-off stays in the alerts
\* until the service that starts the recovery.
DriverAgrees ==
    /\ drv \in {"none", "stopped", "recovering"}
          => txq = <<>> /\ alerts \cap TxAlerts = {}
    /\ "bus_off" \in alerts <=> drv = "busoff"

(* What the driver holds or has just completed is the pending frame, and   *)
(* nothing about it has been said before: it is the next verdict.  Events  *)
(* on their way are about it too, or about a driver that went off the bus. *)
VerdictComesFirst ==
    /\ Unresolved => inflight /\ txDone = <<>> /\ post = <<>> /\ cpc # "abort"
    /\ txq # <<>> => txq = <<pending>> /\ alerts \cap TxAlerts = {}
    /\ post # <<>> => \/ drv \in {"recovering", "stopped"}
                      \/ inflight /\ txDone = <<>> /\ Len(post) = 1

OwnerInv == /\ TypeOK
            /\ TaskDiscipline
            /\ CtrlDiscipline
            /\ DriverAgrees
            /\ VerdictComesFirst

-----------------------------------------------------------------------------
(* Types                                                                   *)

\* Frame numbers are naturals other than None.
LEMMA FrameNumbers == Frames \subseteq Nat /\ None \notin Frames
BY DEF Frames, None

\* The initial state has the right types.
LEMMA TypeInit == Init => TypeOK
<1> SUFFICES ASSUME Init PROVE TypeOK
  OBVIOUS
<1>1. HalTypeOK
  BY DEF Init, HalInit, HalTypeOK, DrvStates, Modes, Alerts
<1>2. want \in Settings
  BY Zenon DEF Init, Settings
<1>3. /\ ring \in Seq(Frames) /\ Len(ring) <= RingDepth
      /\ txDone \in Seq(Events) /\ Len(txDone) <= TxDoneDepth
      /\ post \in Seq(Events)
  BY DEF Init
<1>4. /\ tpc \in TxPc /\ cpc \in CtrlPc /\ next \in Nat /\ commands \in 0..MaxCommands
  BY DEF Init, TxPc, CtrlPc
<1>5. /\ inflight \in BOOLEAN /\ quiesce \in BOOLEAN /\ flag \in BOOLEAN
      /\ pending \in Frames \cup {None} /\ dropped \subseteq Frames
      /\ erased \subseteq Frames \cup {None}
  BY Zenon DEF Init
<1> QED BY <1>1, <1>2, <1>3, <1>4, <1>5, Zenon DEF TypeOK

\* So has every state the driver steps to.
LEMMA DriverKeepsTypes == ASSUME TypeOK, DriverStep PROVE TypeOK'
<1>1. HalTypeOK /\ DrvStep
  BY DEF TypeOK, DriverStep
<1>2. HalTypeOK'
  <2> USE <1>1 DEF HalTypeOK, busVars
  <2>1. drv' \in DrvStates
    BY DEF DrvStep, DrvSuccess, DrvFailure, DrvBusOff, DrvRecovered, DrvStates
  <2>2. alerts' \subseteq Alerts
    BY DEF DrvStep, DrvSuccess, DrvFailure, DrvBusOff, DrvRecovered, Alerts
  <2>3. offs' \in 0..MaxBusOffs
    BY DEF DrvStep, DrvSuccess, DrvFailure, DrvBusOff, DrvRecovered
  <2>4. CASE Transmitting
    <3>1. Head(txq) \in Frames /\ Tail(txq) \in Seq(Frames)
      BY <2>4, HeadTailProperties DEF Transmitting
    <3>2. Append(wire, Head(txq)) \in Seq(Frames)
      BY <3>1, AppendProperties
    <3>3. CASE DrvSuccess
      BY <2>1, <2>2, <3>1, <3>2, <3>3 DEF DrvSuccess
    <3>4. CASE DrvFailure
      BY <2>1, <2>2, <3>1, <3>4 DEF DrvFailure
    <3>5. CASE DrvBusOff \/ DrvRecovered
      BY <2>1, <2>2, <2>3, <3>5 DEF DrvBusOff, DrvRecovered
    <3> QED BY <3>3, <3>4, <3>5 DEF DrvStep
  <2>5. CASE DrvBusOff \/ DrvRecovered
    BY <2>1, <2>2, <2>3, <2>5 DEF DrvBusOff, DrvRecovered
  <2> QED BY <2>4, <2>5 DEF DrvStep, DrvSuccess, DrvFailure
<1> QED BY <1>2 DEF TypeOK, DriverStep, txVars, ctrlVars, hostVars, ringVars

\* can_tx_task keeps the types: what it submits or discards is a frame.
LEMMA TxKeepsTypes == ASSUME TypeOK, TaskDiscipline, TxStep PROVE TypeOK'
<1> USE DEF TypeOK, HalTypeOK, TxPc, TxFrame, TxMove, ctrlVars, hostVars, ringVars, halVars, busVars
<1>1. CASE TxPark \/ TxUnpark \/ TxAwait \/ TxResume \/ TxFetch
  BY <1>1 DEF TxPark, TxUnpark, TxAwait, TxResume, TxFetch
<1>2. CASE TxPopTimeout \/ TxRetain \/ TxDelayOver \/ TxSilence
  BY <1>2 DEF TxPopTimeout, TxRetain, TxDelayOver, TxSilence
<1>3. CASE TxPop
  <2>1. Head(ring) \in Frames /\ Tail(ring) \in Seq(Frames)
        /\ Len(Tail(ring)) <= RingDepth
    BY <1>3, HeadTailProperties DEF TxPop
  <2> QED BY <1>3, <2>1 DEF TxPop
<1>4. CASE TxDrain
  BY <1>4 DEF TxDrain
<1>5. CASE TxAccepted
  <2>1. Append(txq, pending) \in Seq(Frames)
    BY <1>5, AppendProperties DEF TxAccepted, TaskDiscipline
  <2> QED BY <1>5, <2>1 DEF TxAccepted, HalAccepts, HalEnqueue
<1>6. CASE TxListenDrop
  <2>1. pending \in Frames
    BY <1>6 DEF TxListenDrop, TaskDiscipline
  <2> QED BY <1>6, <2>1 DEF TxListenDrop
<1>7. CASE TxVerdict
  <2>1. Tail(txDone) \in Seq(Events) /\ Len(Tail(txDone)) <= TxDoneDepth
    BY <1>7, HeadTailProperties DEF TxVerdict
  <2> QED BY <1>7, <2>1 DEF TxVerdict
<1> QED BY <1>1, <1>2, <1>3, <1>4, <1>5, <1>6, <1>7 DEF TxStep

\* xQueueSend with no wait never overfills s_tx_done.
LEMMA QueueKeepsTypes ==
    ASSUME TypeOK, NEW e \in Events, Queue(e)
    PROVE  txDone' \in Seq(Events) /\ Len(txDone') <= TxDoneDepth
<1>1. /\ Append(txDone, e) \in Seq(Events) /\ Len(Append(txDone, e)) = Len(txDone) + 1
      /\ Len(txDone) \in Nat
  BY AppendProperties, LenProperties DEF TypeOK
<1> QED BY <1>1 DEF Queue, TypeOK

\* Starting or stopping the driver keeps the driver's types.
LEMMA StartKeepsTypes ==
    ASSUME TypeOK, NEW m \in Modes, HalStart(m) \/ HalStop PROVE HalTypeOK'
<1> USE DEF HalStart, HalStop, TypeOK, HalTypeOK, halVars, busVars
<1>1. drv' \in DrvStates
  BY DEF DrvStates
<1>2. alerts' \subseteq Alerts
  OBVIOUS
<1>3. txq' \in Seq(Frames)
  <2>1. txq' = <<>> \/ txq' = txq
    BY Zenon
  <2> QED BY <2>1, EmptySeq
<1>4. mode' \in Modes
  BY Zenon
<1>5. UNCHANGED busVars
  BY Zenon
<1> HIDE DEF HalStart, HalStop
<1> QED BY <1>1, <1>2, <1>3, <1>4, <1>5

\* ctrl_task keeps the types.
LEMMA CtrlKeepsTypes == ASSUME TypeOK, CtrlStep PROVE TypeOK'
<1> USE DEF TypeOK, CtrlPc, CtrlFrame, txVars, ringVars, hostVars
<1>1. CASE CtrlBoot
  BY <1>1, StartKeepsTypes DEF CtrlBoot, Modes
<1>2. CASE CtrlWake \/ CtrlLoop \/ CtrlGiveUp \/ CtrlGranted \/ CtrlPosted \/ CtrlRelease
  BY <1>2 DEF CtrlWake, CtrlLoop, CtrlGiveUp, CtrlGranted, CtrlPosted, CtrlRelease,
              HalTypeOK, halVars
<1>3. CASE CtrlService
  <2>1. HalTypeOK'
    <3>1. drv' \in DrvStates
      BY <1>3 DEF CtrlService, HalService, HalTypeOK, DrvStates
    <3>2. txq' \in Seq(Frames)
      <4>1. txq' = <<>> \/ txq' = txq
        BY <1>3, Zenon DEF CtrlService, HalService
      <4> QED BY <4>1, EmptySeq DEF HalTypeOK
    <3>3. alerts' \subseteq Alerts
      <4>1. alerts' = {} \/ alerts' = alerts
        BY <1>3, Zenon DEF CtrlService, HalService
      <4> QED BY <4>1 DEF HalTypeOK
    <3> QED BY <1>3, <3>1, <3>2, <3>3 DEF CtrlService, HalService, HalTypeOK, busVars
  <2>2. post' \in Seq(Events)
    <3>1. /\ <<"OK">> \in Seq(Events) /\ <<"FAIL">> \in Seq(Events)
          /\ <<"ABORT">> \in Seq(Events) /\ <<>> \in Seq(Events)
      BY DEF Events
    <3>2. TxEvent \in Seq(Events)
      BY <3>1, Zenon DEF TxEvent
    <3>3. \A s, t \in Seq(Events) : s \o t \in Seq(Events)
      OBVIOUS
    <3> QED BY <1>3, <3>1, <3>2, <3>3, Zenon DEF CtrlService
  <2>3. cpc' \in CtrlPc
    BY <1>3 DEF CtrlService
  <2> QED BY <1>3, <2>1, <2>2, <2>3 DEF CtrlService
<1>4. CASE CtrlPost
  <2>1. Head(post) \in Events /\ Tail(post) \in Seq(Events)
    BY <1>4, HeadTailProperties DEF CtrlPost
  <2> QED BY <1>4, <2>1, QueueKeepsTypes DEF CtrlPost, HalTypeOK, halVars
<1>5. CASE CtrlApply
  <2>1. HalTypeOK'
    BY <1>5, StartKeepsTypes DEF CtrlApply, ModeOf, Modes
  <2>2. erased' \subseteq Frames \cup {None}
    BY <1>5 DEF CtrlApply
  <2> QED BY <1>5, <2>1, <2>2 DEF CtrlApply
<1>6. CASE CtrlAbort
  <2>1. "ABORT" \in Events
    BY DEF Events
  <2> QED BY <1>6, <2>1, QueueKeepsTypes DEF CtrlAbort, HalTypeOK, halVars
<1> QED BY <1>1, <1>2, <1>3, <1>4, <1>5, <1>6 DEF CtrlStep

\* The host keeps the types.
LEMMA HostKeepsTypes == ASSUME TypeOK, HostSend \/ HostCommand PROVE TypeOK'
<1>1. CASE HostSend
  <2>1. /\ Append(ring, next + 1) \in Seq(Frames)
        /\ Len(Append(ring, next + 1)) = Len(ring) + 1 /\ Len(ring) \in Nat
    BY <1>1, AppendProperties, LenProperties DEF HostSend, TypeOK
  <2> QED BY <1>1, <2>1 DEF HostSend, TypeOK, HalTypeOK, txVars, ctrlVars, hostVars, halVars
<1>2. CASE HostCommand
  <2>1. want' \in Settings
    BY <1>2, Zenon DEF HostCommand, TypeOK, Settings
  <2>2. commands' \in 0..MaxCommands
    BY <1>2 DEF HostCommand, TypeOK
  <2>3. flag' \in BOOLEAN
    BY <1>2 DEF HostCommand
  <2>4. HalTypeOK'
    <3>1. HalTypeOK /\ UNCHANGED halVars
      BY <1>2, Zenon DEF HostCommand, TypeOK
    <3> QED BY <3>1 DEF HalTypeOK, halVars
  <2>5. UNCHANGED <<txVars, ctrlVars, ringVars, txDone, erased>>
    BY <1>2, Zenon DEF HostCommand
  <2> QED BY <2>1, <2>2, <2>3, <2>4, <2>5 DEF TypeOK, txVars, ctrlVars, ringVars
<1> QED BY <1>1, <1>2

-----------------------------------------------------------------------------
(* The two tasks                                                           *)

\* Every step keeps what can_tx_task knows: ctrl_task leaves its variables alone
\* and does not run between the drain of s_tx_done and the submission.
LEMMA TaskKept == ASSUME TypeOK, TaskDiscipline, Next PROVE TaskDiscipline'
<1> USE DEF TaskDiscipline
<1>1. CASE TxStep
  <2> USE DEF TxFrame, TxMove
  <2>1. CASE TxPark \/ TxUnpark \/ TxAwait \/ TxResume \/ TxFetch
    BY <2>1 DEF TxPark, TxUnpark, TxAwait, TxResume, TxFetch
  <2>2. CASE TxPopTimeout \/ TxRetain \/ TxDelayOver \/ TxSilence
    BY <2>2 DEF TxPopTimeout, TxRetain, TxDelayOver, TxSilence
  <2>3. CASE TxPop
    <3>1. Head(ring) # None
      BY <2>3, FrameNumbers, HeadTailProperties DEF TxPop, TypeOK
    <3> QED BY <2>3, <3>1 DEF TxPop
  <2>4. CASE TxDrain
    BY <2>4 DEF TxDrain
  <2>5. CASE TxAccepted
    BY <2>5 DEF TxAccepted
  <2>6. CASE TxListenDrop
    BY <2>6 DEF TxListenDrop
  <2>7. CASE TxVerdict
    BY <2>7 DEF TxVerdict
  <2> QED BY <1>1, <2>1, <2>2, <2>3, <2>4, <2>5, <2>6, <2>7 DEF TxStep
<1>2. CASE CtrlStep
  <2>1. UNCHANGED <<pending, inflight, tpc>> /\ tpc # "submit"
    BY <1>2 DEF CtrlStep, CtrlMayRun, CtrlFrame, txVars, CtrlBoot, CtrlWake, CtrlLoop,
                CtrlGiveUp, CtrlGranted, CtrlService, CtrlPost, CtrlPosted, CtrlApply,
                CtrlAbort, CtrlRelease
  <2> QED BY <2>1
<1>3. CASE DriverStep \/ HostSend \/ HostCommand
  BY <1>3 DEF DriverStep, HostSend, HostCommand, txVars
<1> QED BY <1>1, <1>2, <1>3 DEF Next

\* A parked can_tx_task stays parked until the request is withdrawn.
LEMMA CtrlKept == ASSUME CtrlDiscipline, Next PROVE CtrlDiscipline'
<1> USE DEF CtrlDiscipline
<1>1. CASE TxStep
  <2>1. UNCHANGED <<cpc, post, quiesce>> /\ (quiesce /\ tpc = "park" => tpc' = "park")
    BY <1>1 DEF TxStep, TxFrame, TxMove, ctrlVars, TxPark, TxUnpark, TxAwait, TxResume,
                TxFetch, TxPop, TxPopTimeout, TxDrain, TxAccepted, TxListenDrop,
                TxRetain, TxDelayOver, TxVerdict, TxSilence
  <2> QED BY <2>1
<1>2. CASE CtrlStep
  <2> USE DEF CtrlFrame, txVars
  <2>1. CASE CtrlBoot \/ CtrlWake \/ CtrlLoop \/ CtrlGiveUp \/ CtrlGranted
    BY <2>1 DEF CtrlBoot, CtrlWake, CtrlLoop, CtrlGiveUp, CtrlGranted
  <2>2. CASE CtrlService
    BY <2>2 DEF CtrlService
  <2>3. CASE CtrlPost
    BY <2>3 DEF CtrlPost
  <2>4. CASE CtrlPosted
    BY <2>4 DEF CtrlPosted
  <2>5. CASE CtrlApply \/ CtrlAbort \/ CtrlRelease
    BY <2>5 DEF CtrlApply, CtrlAbort, CtrlRelease
  <2> QED BY <1>2, <2>1, <2>2, <2>3, <2>4, <2>5 DEF CtrlStep
<1>3. CASE DriverStep \/ HostSend \/ HostCommand
  BY <1>3 DEF DriverStep, HostSend, HostCommand, txVars, ctrlVars
<1> QED BY <1>1, <1>2, <1>3 DEF Next

-----------------------------------------------------------------------------
(* The driver                                                              *)

\* can_tx_task changes the driver by submitting, and in no other way.
LEMMA TxLeavesDriver ==
    ASSUME TxStep
    PROVE  \/ UNCHANGED halVars
           \/ TxAccepted /\ HalAccepts /\ HalEnqueue(pending)
BY DEF TxStep, TxMove, TxPark, TxUnpark, TxAwait, TxResume, TxFetch, TxPop, TxPopTimeout,
       TxDrain, TxAccepted, TxListenDrop, TxRetain, TxDelayOver, TxVerdict, TxSilence

\* ctrl_task changes the driver by a service, a start or a stop.
LEMMA CtrlLeavesDriver ==
    ASSUME CtrlStep
    PROVE  \/ UNCHANGED halVars
           \/ HalService
           \/ \E m \in Modes : HalStart(m)
           \/ HalStop
<1> USE DEF Modes, ModeOf
<1>1. CASE CtrlBoot \/ CtrlApply
  BY <1>1 DEF CtrlBoot, CtrlApply
<1>2. CASE ~CtrlBoot /\ ~CtrlApply
  BY <1>2 DEF CtrlStep, CtrlWake, CtrlLoop, CtrlGiveUp, CtrlGranted, CtrlService,
              CtrlPost, CtrlPosted, CtrlAbort, CtrlRelease
<1> QED BY <1>1, <1>2

\* Every step keeps the driver and its alerts in agreement.
LEMMA DriverKept == ASSUME TypeOK, DriverAgrees, Next PROVE DriverAgrees'
<1> USE DEF DriverAgrees, TxAlerts
<1>1. CASE UNCHANGED halVars
  BY <1>1 DEF halVars
<1>2. CASE HalAccepts /\ HalEnqueue(pending)
  BY <1>2 DEF HalAccepts, HalEnqueue
<1>3. CASE HalService
  BY <1>3 DEF HalService, Installed
<1>4. CASE (\E m \in Modes : HalStart(m)) \/ HalStop
  BY <1>4 DEF HalStart, HalStop, CanUninstall, halVars
<1>5. CASE DrvStep
  BY <1>5 DEF DrvStep, DrvSuccess, DrvFailure, DrvBusOff, DrvRecovered, Transmitting
<1>6. CASE HostSend \/ HostCommand
  BY <1>1, <1>6 DEF HostSend, HostCommand
<1> QED BY <1>1, <1>2, <1>3, <1>4, <1>5, <1>6, TxLeavesDriver, CtrlLeavesDriver
        DEF Next, DriverStep

-----------------------------------------------------------------------------
(* Ownership                                                               *)

\* can_tx_task submits only when no verdict is left over.
LEMMA VerdictKeptTx == ASSUME OwnerInv, TxStep PROVE VerdictComesFirst'
<1> USE DEF OwnerInv, VerdictComesFirst, Unresolved, TxFrame, TxMove, ctrlVars, halVars
<1>1. CASE TxPark \/ TxUnpark \/ TxAwait \/ TxResume \/ TxFetch
  BY <1>1 DEF TxPark, TxUnpark, TxAwait, TxResume, TxFetch
<1>2. CASE TxPopTimeout \/ TxRetain \/ TxDelayOver \/ TxSilence
  BY <1>2 DEF TxPopTimeout, TxRetain, TxDelayOver, TxSilence
<1>3. CASE TxPop
  BY <1>3 DEF TxPop, TaskDiscipline
<1>4. CASE TxDrain
  BY <1>4 DEF TxDrain, TaskDiscipline
<1>5. CASE TxAccepted
  <2>1. /\ ~inflight /\ txDone = <<>> /\ drv = "running" /\ cpc # "abort"
        /\ txq = <<>> /\ alerts \cap TxAlerts = {} /\ post = <<>>
    BY <1>5 DEF TxAccepted, HalAccepts, TaskDiscipline, CtrlDiscipline
  <2>2. txq' = <<pending>> /\ alerts' = alerts /\ inflight' /\ pending' = pending
    BY <1>5, <2>1 DEF TxAccepted, HalEnqueue
  <2>3. UNCHANGED <<txDone, cpc, post>>
    BY <1>5 DEF TxAccepted
  <2> QED BY <2>1, <2>2, <2>3
<1>6. CASE TxListenDrop
  BY <1>6 DEF TxListenDrop, TaskDiscipline
<1>7. CASE TxVerdict
  BY <1>7 DEF TxVerdict, TaskDiscipline
<1> QED BY <1>1, <1>2, <1>3, <1>4, <1>5, <1>6, <1>7 DEF TxStep

\* ctrl_task queues an event only after it has taken the outcome it tells of.
LEMMA VerdictKeptCtrl == ASSUME OwnerInv, CtrlStep PROVE VerdictComesFirst'
<1> USE DEF OwnerInv, VerdictComesFirst, Unresolved, CtrlFrame, txVars
<1>1. CASE CtrlBoot
  BY <1>1 DEF CtrlBoot, HalStart, halVars, CtrlDiscipline
<1>2. CASE CtrlWake \/ CtrlLoop \/ CtrlGiveUp \/ CtrlGranted \/ CtrlPosted \/ CtrlRelease
  BY <1>2 DEF CtrlWake, CtrlLoop, CtrlGiveUp, CtrlGranted, CtrlPosted, CtrlRelease, halVars
<1>3. CASE CtrlService
  <2>1. /\ post = <<>> /\ cpc' # "abort"
        /\ UNCHANGED <<inflight, pending, txDone>>
    BY <1>3 DEF CtrlService, CtrlDiscipline
  <2>2. CASE ~Installed
    BY <1>3, <2>1, <2>2 DEF CtrlService, HalService, Installed, DriverAgrees
  <2>3. CASE Installed /\ "bus_off" \in alerts
    BY <1>3, <2>1, <2>3 DEF CtrlService, HalService, DriverAgrees
  <2>4. CASE Installed /\ "bus_off" \notin alerts
    <3>1. alerts' = {} /\ txq' = txq /\ post' = TxEvent
      <4>1. TxEvent \o <<>> = TxEvent
        BY DEF TxEvent
      <4> QED BY <1>3, <2>4, <4>1, Zenon DEF CtrlService, HalService
    <3>2. CASE alerts \cap TxAlerts = {}
      <4>1. TxEvent = <<>>
        BY <3>2 DEF TxEvent, TxAlerts
      <4> QED BY <2>1, <3>1, <3>2, <4>1
    <3>3. CASE alerts \cap TxAlerts # {}
      <4>1. txq = <<>> /\ inflight /\ txDone = <<>>
        BY <3>3
      <4>2. Len(TxEvent) = 1
        BY <3>3 DEF TxEvent, TxAlerts
      <4> QED BY <2>1, <3>1, <4>1, <4>2
    <3> QED BY <3>2, <3>3
  <2> QED BY <2>2, <2>3, <2>4
<1>4. CASE CtrlPost
  <2>1. /\ ~Unresolved /\ UNCHANGED <<halVars, inflight, cpc, pending>>
        /\ post # <<>> /\ post' = Tail(post)
    BY <1>4 DEF CtrlPost
  <2>2. Len(post) = 1 => post' = <<>>
    BY <2>1, HeadTailProperties, EmptySeq DEF TypeOK
  <2> QED BY <2>1, <2>2 DEF halVars
<1>5. CASE CtrlApply
  <2>1. /\ post' = <<>>
        /\ \/ UNCHANGED <<drv, txq, alerts>> /\ drv = "recovering"
           \/ txq' = <<>> /\ alerts' = {}
    BY <1>5, Zenon DEF CtrlApply, HalStart, HalStop, CanUninstall, halVars, CtrlDiscipline
  <2>2. txq' = <<>> /\ alerts' \cap TxAlerts = {}
    BY <2>1 DEF DriverAgrees
  <2> QED BY <2>1, <2>2
<1>6. CASE CtrlAbort
  BY <1>6 DEF CtrlAbort, CtrlDiscipline, halVars
<1> QED BY <1>1, <1>2, <1>3, <1>4, <1>5, <1>6 DEF CtrlStep

\* An outcome empties the driver.
LEMMA VerdictKeptDriver == ASSUME OwnerInv, DriverStep PROVE VerdictComesFirst'
<1> USE DEF OwnerInv, VerdictComesFirst, Unresolved
<1>1. UNCHANGED <<inflight, txDone, post, cpc, pending>>
  BY DEF DriverStep, txVars, ctrlVars
<1>2. CASE DrvSuccess \/ DrvFailure
  <2>1. /\ txq # <<>> /\ txq' = Tail(txq) /\ UNCHANGED drv
    BY <1>2 DEF DrvSuccess, DrvFailure, Transmitting
  <2>2. txq' = <<>>
    BY <2>1
  <2> QED BY <1>1, <2>1, <2>2
<1>3. CASE DrvBusOff \/ DrvRecovered
  BY <1>1, <1>3 DEF DrvBusOff, DrvRecovered, TxAlerts
<1> QED BY <1>2, <1>3 DEF DriverStep, DrvStep

\* The ownership invariant is inductive.
LEMMA OwnerInvKept == ASSUME OwnerInv, [Next]_vars PROVE OwnerInv'
<1>1. CASE Next
  <2>1. TypeOK' /\ TaskDiscipline' /\ CtrlDiscipline' /\ DriverAgrees'
    BY <1>1, DriverKeepsTypes, TxKeepsTypes, CtrlKeepsTypes, HostKeepsTypes, TaskKept,
       CtrlKept, DriverKept DEF OwnerInv, Next
  <2>2. VerdictComesFirst'
    <3>1. CASE HostSend \/ HostCommand
      BY <3>1 DEF HostSend, HostCommand, OwnerInv, VerdictComesFirst, Unresolved,
                  halVars, txVars, ctrlVars
    <3> QED BY <1>1, <3>1, VerdictKeptTx, VerdictKeptCtrl, VerdictKeptDriver DEF Next
  <2> QED BY <2>1, <2>2 DEF OwnerInv
<1>2. CASE UNCHANGED vars
  BY <1>2 DEF OwnerInv, TypeOK, HalTypeOK, TaskDiscipline, CtrlDiscipline, DriverAgrees,
              VerdictComesFirst, Unresolved, vars, halVars, txVars, ctrlVars, hostVars,
              ringVars
<1> QED BY <1>1, <1>2

\* It holds at the start.
LEMMA OwnerInvInit == Init => OwnerInv
<1> SUFFICES ASSUME Init PROVE OwnerInv
  OBVIOUS
<1>1. TaskDiscipline /\ CtrlDiscipline /\ DriverAgrees /\ VerdictComesFirst
  BY DEF Init, HalInit, TaskDiscipline, CtrlDiscipline, DriverAgrees, VerdictComesFirst,
         Unresolved, TxAlerts
<1> QED BY <1>1, TypeInit DEF OwnerInv

\* It holds always.
LEMMA OwnerInvHolds == Spec => []OwnerInv
<1>1. Init => OwnerInv
  BY OwnerInvInit
<1>2. OwnerInv /\ [Next]_vars => OwnerInv'
  BY OwnerInvKept
<1> QED BY <1>1, <1>2, PTL DEF Spec

-----------------------------------------------------------------------------
(* Elements of sequences                                                   *)

\* The empty sequence has no elements.
LEMMA ElementsEmpty == Elements(<<>>) = {}
BY DEF Elements

\* Append adds one element.
LEMMA ElementsAppend ==
    ASSUME NEW S, NEW s \in Seq(S), NEW e \in S
    PROVE  Elements(Append(s, e)) = Elements(s) \cup {e}
<1>1. /\ Len(Append(s, e)) = Len(s) + 1 /\ Len(s) \in Nat
      /\ \A i \in 1..Len(s) : Append(s, e)[i] = s[i]
      /\ Append(s, e)[Len(s) + 1] = e
      /\ DOMAIN s = 1..Len(s) /\ DOMAIN Append(s, e) = 1..Len(s) + 1
  BY AppendProperties, LenProperties
<1> QED BY <1>1 DEF Elements

\* The head and the tail hold all elements.
LEMMA ElementsHeadTail ==
    ASSUME NEW S, NEW s \in Seq(S), s # <<>>
    PROVE  Elements(s) = {Head(s)} \cup Elements(Tail(s))
<1>1. /\ Len(Tail(s)) = Len(s) - 1 /\ Len(s) \in Nat /\ Len(s) >= 1
      /\ \A i \in 1..Len(s) - 1 : Tail(s)[i] = s[i + 1]
      /\ Head(s) = s[1] /\ Tail(s) \in Seq(S)
      /\ DOMAIN s = 1..Len(s) /\ DOMAIN Tail(s) = 1..Len(s) - 1
  BY HeadTailProperties, LenProperties, EmptySeq
<1>3. ASSUME NEW x \in Elements(s) PROVE x \in {Head(s)} \cup Elements(Tail(s))
  <2>1. PICK i \in 1..Len(s) : x = s[i]
    BY <1>1, <1>3 DEF Elements
  <2>2. CASE i = 1
    BY <1>1, <2>1, <2>2
  <2>3. CASE i # 1
    <3>1. i - 1 \in 1..Len(s) - 1 /\ (i - 1) + 1 = i
      BY <1>1, <2>3
    <3>2. x = Tail(s)[i - 1]
      BY <1>1, <2>1, <3>1
    <3> QED BY <1>1, <3>1, <3>2 DEF Elements
  <2> QED BY <2>2, <2>3
<1>4. ASSUME NEW x \in {Head(s)} \cup Elements(Tail(s)) PROVE x \in Elements(s)
  <2>1. CASE x = Head(s)
    BY <1>1, <2>1 DEF Elements
  <2>2. CASE x \in Elements(Tail(s))
    <3>1. PICK i \in 1..Len(s) - 1 : x = Tail(s)[i]
      BY <1>1, <2>2 DEF Elements
    <3>2. i + 1 \in 1..Len(s) /\ x = s[i + 1]
      BY <1>1, <3>1
    <3> QED BY <1>1, <3>2 DEF Elements
  <2> QED BY <1>4, <2>1, <2>2
<1> QED BY <1>3, <1>4

\* After xQueueSend s_tx_done is not empty, and its head is the old one if there
\* was one, also when the event was dropped.
LEMMA QueueEffect ==
    ASSUME TypeOK, NEW e \in Events, Queue(e)
    PROVE  /\ txDone' # <<>>
           /\ txDone # <<>> => Head(txDone') = Head(txDone)
           /\ txDone = <<>> => Head(txDone') = e
           /\ Elements(txDone') \subseteq Elements(txDone) \cup {e}
<1>1. txDone \in Seq(Events) /\ Len(txDone) \in Nat /\ TxDoneDepth \in Nat \ {0}
  BY LenProperties DEF TypeOK
<1>2. CASE Len(txDone) < TxDoneDepth
  <2>1. txDone' = Append(txDone, e)
    BY <1>2 DEF Queue
  <2>2. Elements(txDone') = Elements(txDone) \cup {e}
    BY <1>1, <2>1, ElementsAppend
  <2>3. /\ txDone' \in Seq(Events) /\ Len(txDone') = Len(txDone) + 1
        /\ \A i \in 1..Len(txDone) : txDone'[i] = txDone[i]
        /\ txDone'[Len(txDone) + 1] = e
    BY <1>1, <2>1, AppendProperties
  <2>4. txDone' # <<>> /\ Head(txDone') = txDone'[1]
    BY <1>1, <2>3, HeadTailProperties, EmptySeq
  <2>5. ASSUME txDone # <<>> PROVE Head(txDone') = Head(txDone)
    BY <1>1, <2>3, <2>4, <2>5, HeadTailProperties, EmptySeq
  <2>6. ASSUME txDone = <<>> PROVE Head(txDone') = e
    BY <2>3, <2>4, <2>6, EmptySeq
  <2> QED BY <2>2, <2>4, <2>5, <2>6
<1>3. CASE ~(Len(txDone) < TxDoneDepth)
  <2>1. txDone' = txDone
    BY <1>3 DEF Queue
  <2>2. txDone # <<>>
    BY <1>1, <1>3, EmptySeq
  <2> QED BY <2>1, <2>2
<1> QED BY <1>2, <1>3

-----------------------------------------------------------------------------
(* can_tx_task is never stranded                                           *)

\* The first call that ctrl_task makes finds no driver.
BootFirst == cpc = "boot" => drv = "none"

\* No other call to the driver comes before the first start.
LEMMA BootKept == ASSUME OwnerInv, BootFirst, [Next]_vars PROVE BootFirst'
<1> USE DEF BootFirst
<1>1. CASE TxStep
  <2>1. cpc' = cpc /\ drv' = drv
    BY <1>1, TxLeavesDriver DEF TxStep, TxFrame, TxMove, ctrlVars, halVars, HalEnqueue,
       TxPark, TxUnpark, TxAwait, TxResume, TxFetch, TxPop, TxPopTimeout, TxDrain,
       TxAccepted, TxListenDrop, TxRetain, TxDelayOver, TxVerdict, TxSilence
  <2> QED BY <2>1
<1>2. CASE CtrlStep
  <2>1. cpc' # "boot"
    BY <1>2 DEF CtrlStep, CtrlBoot, CtrlWake, CtrlLoop, CtrlGiveUp, CtrlGranted,
       CtrlService, CtrlPost, CtrlPosted, CtrlApply, CtrlAbort, CtrlRelease
  <2> QED BY <2>1
<1>3. CASE DriverStep
  BY <1>3 DEF DriverStep, ctrlVars, DrvStep, DrvSuccess, DrvFailure, DrvBusOff,
     DrvRecovered, Transmitting
<1>4. CASE HostSend \/ HostCommand \/ UNCHANGED vars
  BY <1>4 DEF HostSend, HostCommand, vars, ctrlVars, halVars
<1> QED BY <1>1, <1>2, <1>3, <1>4 DEF Next

StrandInv == OwnerInv /\ BootFirst /\ VerdictOnItsWay

\* Every step leaves an outstanding frame a verdict to come.
LEMMA StrandKept == ASSUME StrandInv, [Next]_vars PROVE VerdictOnItsWay'
<1> USE DEF StrandInv, VerdictOnItsWay
<1>1. CASE TxStep
  <2> USE DEF TxFrame, TxMove, ctrlVars, halVars
  <2>1. CASE TxPark \/ TxUnpark \/ TxAwait \/ TxResume \/ TxFetch
    BY <2>1 DEF TxPark, TxUnpark, TxAwait, TxResume, TxFetch
  <2>2. CASE TxPopTimeout \/ TxRetain \/ TxDelayOver \/ TxSilence
    BY <2>2 DEF TxPopTimeout, TxRetain, TxDelayOver, TxSilence
  <2>3. CASE TxPop \/ TxDrain \/ TxListenDrop
    BY <2>3 DEF TxPop, TxDrain, TxListenDrop, OwnerInv, TaskDiscipline
  <2>4. CASE TxAccepted
    <3>1. txq' = Append(txq, pending) /\ txq \in Seq(Frames) /\ pending \in Frames
      BY <2>4 DEF TxAccepted, HalEnqueue, OwnerInv, TypeOK, HalTypeOK, TaskDiscipline
    <3>2. txq' # <<>>
      BY <3>1, AppendProperties, EmptySeq, LenProperties
    <3> QED BY <3>2
  <2>5. CASE TxVerdict
    BY <2>5 DEF TxVerdict
  <2> QED BY <1>1, <2>1, <2>2, <2>3, <2>4, <2>5 DEF TxStep
<1>2. CASE CtrlStep
  <2> USE DEF CtrlFrame, txVars
  <2>1. CASE CtrlBoot
    <3>1. txq = <<>> /\ alerts \cap {"success", "failure"} = {}
      BY <2>1 DEF CtrlBoot, BootFirst, OwnerInv, DriverAgrees, TxAlerts
    <3> QED BY <2>1, <3>1 DEF CtrlBoot
  <2>2. CASE CtrlWake \/ CtrlLoop \/ CtrlGiveUp \/ CtrlGranted \/ CtrlPosted \/ CtrlRelease
    BY <2>2 DEF CtrlWake, CtrlLoop, CtrlGiveUp, CtrlGranted, CtrlPosted, CtrlRelease,
                halVars
  <2>3. CASE CtrlService
    <3>1. cpc # "abort" /\ UNCHANGED <<inflight, txDone>>
      BY <2>3 DEF CtrlService
    <3>2. post = <<>>
      BY <2>3 DEF CtrlService, OwnerInv, CtrlDiscipline
    <3>3. CASE "bus_off" \in alerts
      <4>1. Installed
        BY <3>3 DEF OwnerInv, DriverAgrees, Installed
      <4>2. post' = TxEvent \o <<"ABORT">>
        BY <2>3, <3>3, <4>1, Zenon DEF CtrlService
      <4>3. post' # <<>>
        BY <4>2 DEF TxEvent
      <4> QED BY <4>3
    <3>4. CASE "bus_off" \notin alerts /\ alerts \cap {"success", "failure"} # {}
      <4>1. Installed
        BY <3>4 DEF OwnerInv, DriverAgrees, Installed, TxAlerts
      <4>2. post' = TxEvent \o <<>>
        BY <2>3, <3>4, <4>1, Zenon DEF CtrlService
      <4>3. post' # <<>>
        BY <3>4, <4>2 DEF TxEvent
      <4> QED BY <4>3
    <3>5. CASE "bus_off" \notin alerts /\ alerts \cap {"success", "failure"} = {}
      <4>1. txq' = txq
        BY <2>3, <3>5 DEF CtrlService, HalService
      <4> QED BY <3>1, <3>2, <3>5, <4>1
    <3> QED BY <3>3, <3>4, <3>5
  <2>4. CASE CtrlPost
    <3>1. Head(post) \in Events /\ Queue(Head(post))
      BY <2>4, HeadTailProperties DEF CtrlPost, OwnerInv, TypeOK
    <3> QED BY <3>1, QueueEffect DEF OwnerInv
  <2>5. CASE CtrlApply
    BY <2>5 DEF CtrlApply
  <2>6. CASE CtrlAbort
    <3>1. "ABORT" \in Events /\ Queue("ABORT")
      BY <2>6 DEF CtrlAbort, Events
    <3> QED BY <3>1, QueueEffect DEF OwnerInv
  <2> QED BY <1>2, <2>1, <2>2, <2>3, <2>4, <2>5, <2>6 DEF CtrlStep
<1>3. CASE DriverStep
  BY <1>3 DEF DriverStep, txVars, ctrlVars, DrvStep, DrvSuccess, DrvFailure, DrvBusOff,
     DrvRecovered
<1>4. CASE HostSend \/ HostCommand \/ UNCHANGED vars
  BY <1>4 DEF HostSend, HostCommand, vars, txVars, ctrlVars, halVars
<1> QED BY <1>1, <1>2, <1>3, <1>4 DEF Next

\* It always has one.
LEMMA StrandInvHolds == Spec => []StrandInv
<1>1. Init => StrandInv
  <2>1. Init => BootFirst /\ VerdictOnItsWay
    BY DEF Init, HalInit, BootFirst, VerdictOnItsWay
  <2> QED BY <2>1, OwnerInvInit DEF StrandInv
<1>2. StrandInv /\ [Next]_vars => StrandInv'
  <2> SUFFICES ASSUME StrandInv, [Next]_vars PROVE StrandInv'
    OBVIOUS
  <2> QED BY OwnerInvKept, BootKept, StrandKept DEF StrandInv
<1> QED BY <1>1, <1>2, PTL DEF Spec

-----------------------------------------------------------------------------
(* No frame is lost                                                        *)

(* An OK on its way, or a success not yet read, is about a frame that did  *)
(* reach the bus.                                                          *)
OkIsTrue == inflight /\ \/ "success" \in alerts
                        \/ "OK" \in Elements(post)
                        \/ "OK" \in Elements(txDone)
               => pending \in Elements(wire)

LossInv == OwnerInv /\ OkIsTrue /\ NoFrameLost

\* Only the driver's success puts a frame on the bus, and it is the pending one.
LEMMA WireGrows == ASSUME [Next]_vars PROVE UNCHANGED wire \/ (DriverStep /\ DrvSuccess)
<1>1. CASE TxStep
  BY <1>1, TxLeavesDriver DEF halVars, busVars, HalEnqueue
<1>2. CASE CtrlStep
  BY <1>2, CtrlLeavesDriver, Zenon DEF halVars, busVars, HalService, HalStart, HalStop
<1>3. CASE DriverStep
  BY <1>3 DEF DriverStep, DrvStep, DrvFailure, DrvBusOff, DrvRecovered, busVars
<1>4. CASE HostSend \/ HostCommand \/ UNCHANGED vars
  BY <1>4 DEF HostSend, HostCommand, vars, halVars
<1> QED BY <1>1, <1>2, <1>3, <1>4 DEF Next

\* A success is that of the pending frame, the only one the driver held.
LEMMA SuccessOfPending ==
    ASSUME OwnerInv, DriverStep, DrvSuccess
    PROVE  /\ pending \in Frames /\ inflight /\ txq = <<pending>>
           /\ alerts \cap TxAlerts = {}
           /\ txq' = <<>> /\ alerts' = alerts \cup {"success"}
           /\ wire' = Append(wire, pending)
           /\ Elements(wire') = Elements(wire) \cup {pending}
           /\ UNCHANGED <<txVars, ctrlVars, ringVars, txDone, erased>>
<1>1. /\ txq # <<>> /\ inflight /\ txq = <<pending>> /\ pending \in Frames
      /\ wire \in Seq(Frames) /\ alerts \cap TxAlerts = {}
  BY DEF DrvSuccess, Transmitting, OwnerInv, VerdictComesFirst, Unresolved, TaskDiscipline,
         TypeOK, HalTypeOK
<1>2. Head(txq) = pending /\ Tail(txq) = <<>>
  BY <1>1
<1>3. wire' = Append(wire, pending)
  BY <1>2 DEF DrvSuccess
<1>4. Elements(wire') = Elements(wire) \cup {pending}
  BY <1>1, <1>3, ElementsAppend
<1> QED BY <1>1, <1>2, <1>3, <1>4 DEF DrvSuccess, DriverStep

\* An OK stays true.
LEMMA OkKept == ASSUME LossInv, [Next]_vars PROVE OkIsTrue'
<1> USE DEF LossInv, OkIsTrue
<1>1. CASE DriverStep /\ DrvSuccess
  BY <1>1, SuccessOfPending DEF txVars
<1>2. CASE TxStep
  <2> USE <1>2, WireGrows DEF TxFrame, TxMove, ctrlVars, halVars
  <2>1. UNCHANGED wire
    BY TxLeavesDriver DEF busVars, HalEnqueue
  <2>2. CASE TxPark \/ TxUnpark \/ TxAwait \/ TxResume \/ TxFetch
    BY <2>2 DEF TxPark, TxUnpark, TxAwait, TxResume, TxFetch
  <2>3. CASE TxPopTimeout \/ TxRetain \/ TxDelayOver \/ TxSilence
    BY <2>3 DEF TxPopTimeout, TxRetain, TxDelayOver, TxSilence
  <2>4. CASE TxPop \/ TxDrain \/ TxListenDrop \/ TxVerdict
    BY <2>4 DEF TxPop, TxDrain, TxListenDrop, TxVerdict, OwnerInv, TaskDiscipline
  <2>5. CASE TxAccepted
    <3>1. /\ txDone' = <<>> /\ post' = <<>> /\ alerts' = alerts
          /\ alerts \cap TxAlerts = {}
      BY <2>5 DEF TxAccepted, HalAccepts, HalEnqueue, OwnerInv, TaskDiscipline,
                  VerdictComesFirst, Unresolved
    <3> QED BY <3>1, ElementsEmpty DEF TxAlerts
  <2> QED BY <2>2, <2>3, <2>4, <2>5 DEF TxStep
<1>3. CASE CtrlStep
  <2> USE DEF CtrlFrame, txVars
  <2>1. UNCHANGED <<wire, inflight, pending>>
    BY <1>3, CtrlLeavesDriver, Zenon DEF halVars, busVars, HalService, HalStart, HalStop,
       CtrlStep, CtrlBoot, CtrlWake, CtrlLoop, CtrlGiveUp, CtrlGranted, CtrlService,
       CtrlPost, CtrlPosted, CtrlApply, CtrlAbort, CtrlRelease
  <2>2. CASE CtrlBoot \/ CtrlApply
    <3>1. alerts' \subseteq alerts /\ UNCHANGED <<post, txDone>>
      BY <2>2, Zenon DEF CtrlBoot, CtrlApply, HalStart, HalStop, halVars
    <3> QED BY <2>1, <3>1
  <2>3. CASE CtrlWake \/ CtrlLoop \/ CtrlGiveUp \/ CtrlGranted \/ CtrlPosted \/ CtrlRelease
    BY <2>1, <2>3 DEF CtrlWake, CtrlLoop, CtrlGiveUp, CtrlGranted, CtrlPosted,
                      CtrlRelease, halVars
  <2>4. CASE CtrlService
    <3>1. alerts' \subseteq alerts /\ txDone' = txDone
      BY <2>4, Zenon DEF CtrlService, HalService
    <3>2. "OK" \in Elements(post') => "success" \in alerts
      <4>1. /\ Elements(<<>>) = {} /\ Elements(<<"OK">>) = {"OK"}
            /\ Elements(<<"FAIL">>) = {"FAIL"} /\ Elements(<<"ABORT">>) = {"ABORT"}
            /\ Elements(<<"OK", "ABORT">>) = {"OK", "ABORT"}
            /\ Elements(<<"FAIL", "ABORT">>) = {"FAIL", "ABORT"}
        BY DEF Elements
      <4>2. CASE "success" \notin alerts
        <5>1. TxEvent \in {<<>>, <<"FAIL">>}
          BY <4>2 DEF TxEvent
        <5>2. post' \in {<<>>, <<"FAIL">>, <<"ABORT">>, <<"FAIL", "ABORT">>}
          <6>1. \/ post' = <<>>
                \/ post' = TxEvent \o <<>>
                \/ post' = TxEvent \o <<"ABORT">>
            BY <2>4, Zenon DEF CtrlService
          <6>2. CASE TxEvent = <<>>
            BY <6>1, <6>2
          <6>3. CASE TxEvent = <<"FAIL">>
            BY <6>1, <6>3
          <6> QED BY <5>1, <6>2, <6>3
        <5> QED BY <4>1, <5>2
      <4> QED BY <4>2
    <3> QED BY <2>1, <3>1, <3>2
  <2>5. CASE CtrlPost
    <3>1. /\ Head(post) \in Events /\ Queue(Head(post)) /\ alerts' = alerts
          /\ Elements(post) = {Head(post)} \cup Elements(post')
      BY <2>5, HeadTailProperties, ElementsHeadTail DEF CtrlPost, OwnerInv, TypeOK, halVars
    <3>2. Elements(txDone') \subseteq Elements(txDone) \cup {Head(post)}
      BY <3>1, QueueEffect DEF OwnerInv
    <3> QED BY <2>1, <3>1, <3>2
  <2>6. CASE CtrlAbort
    <3>1. "ABORT" \in Events /\ Queue("ABORT") /\ UNCHANGED <<alerts, post>>
      BY <2>6 DEF CtrlAbort, Events, halVars
    <3>2. Elements(txDone') \subseteq Elements(txDone) \cup {"ABORT"}
      BY <3>1, QueueEffect DEF OwnerInv
    <3> QED BY <2>1, <3>1, <3>2
  <2> QED BY <1>3, <2>2, <2>3, <2>4, <2>5, <2>6 DEF CtrlStep
<1>4. CASE DriverStep /\ ~DrvSuccess
  <2>1. /\ UNCHANGED <<wire, inflight, pending, post, txDone>>
        /\ "success" \in alerts' => "success" \in alerts
    BY <1>4 DEF DriverStep, txVars, ctrlVars, DrvStep, DrvFailure, DrvBusOff,
                DrvRecovered, busVars
  <2> QED BY <2>1
<1>5. CASE HostSend \/ HostCommand \/ UNCHANGED vars
  BY <1>5 DEF HostSend, HostCommand, vars, txVars, ctrlVars, halVars
<1> QED BY <1>1, <1>2, <1>3, <1>4, <1>5 DEF Next

\* What the two tasks and the driver leave of the host's frames.
LEMMA FramesKept ==
    ASSUME [Next]_vars
    PROVE  \/ UNCHANGED <<ring, next, pending, dropped>>
           \/ TxPop
           \/ TxListenDrop
           \/ TxVerdict
           \/ HostSend
<1>1. CASE TxStep
  BY <1>1 DEF TxStep, TxMove, ringVars, TxPark, TxUnpark, TxAwait, TxResume, TxFetch,
     TxPopTimeout, TxDrain, TxAccepted, TxRetain, TxDelayOver, TxSilence
<1>2. CASE CtrlStep
  BY <1>2 DEF CtrlStep, CtrlFrame, txVars, ringVars, CtrlBoot, CtrlWake, CtrlLoop,
     CtrlGiveUp, CtrlGranted, CtrlService, CtrlPost, CtrlPosted, CtrlApply, CtrlAbort,
     CtrlRelease
<1>3. CASE DriverStep \/ HostCommand \/ UNCHANGED vars
  BY <1>3 DEF DriverStep, HostCommand, vars, txVars, ringVars
<1> QED BY <1>1, <1>2, <1>3 DEF Next

\* Every step leaves each frame waiting, sent or dropped on purpose.
LEMMA LossKept == ASSUME LossInv, [Next]_vars PROVE NoFrameLost'
<1> USE DEF LossInv, NoFrameLost, Done
<1>1. Elements(wire) \subseteq Elements(wire')
  BY WireGrows, SuccessOfPending
<1>2. next \in Nat /\ ring \in Seq(Frames) /\ None \notin 1..next
  BY DEF OwnerInv, TypeOK, None
<1>3. CASE UNCHANGED <<ring, next, pending, dropped>>
  BY <1>1, <1>3
<1>4. CASE TxPop
  <2>1. Elements(ring) = {pending'} \cup Elements(ring')
    BY <1>2, <1>4, ElementsHeadTail DEF TxPop
  <2>2. pending = None /\ UNCHANGED <<next, dropped>>
    BY <1>4 DEF TxPop, OwnerInv, TaskDiscipline
  <2> QED BY <1>1, <1>2, <2>1, <2>2
<1>5. CASE TxListenDrop
  BY <1>1, <1>5 DEF TxListenDrop, ringVars
<1>6. CASE TxVerdict
  <2>1. UNCHANGED <<ring, next, dropped>>
    BY <1>6 DEF TxVerdict, ringVars
  <2>2. CASE Head(txDone) = "OK"
    <3>1. inflight /\ txDone # <<>> /\ txDone \in Seq(Events)
      BY <1>6 DEF TxVerdict, OwnerInv, TaskDiscipline, TypeOK
    <3>2. "OK" \in Elements(txDone)
      BY <2>2, <3>1, ElementsHeadTail
    <3>3. pending \in Elements(wire)
      BY <3>1, <3>2 DEF OkIsTrue
    <3> QED BY <1>1, <2>1, <3>3
  <2>3. CASE Head(txDone) # "OK"
    BY <1>1, <1>6, <2>1, <2>3 DEF TxVerdict
  <2> QED BY <2>2, <2>3
<1>7. CASE HostSend
  <2>1. Elements(ring') = Elements(ring) \cup {next + 1}
    BY <1>2, <1>7, ElementsAppend DEF HostSend
  <2>2. next' = next + 1 /\ UNCHANGED <<pending, dropped>>
    BY <1>7 DEF HostSend, txVars
  <2>3. 1..next' \subseteq (1..next) \cup {next + 1}
    BY <1>2, <2>2
  <2> QED BY <1>1, <2>1, <2>2, <2>3
<1> QED BY <1>3, <1>4, <1>5, <1>6, <1>7, FramesKept

\* No frame is ever lost.
LEMMA LossInvHolds == Spec => []LossInv
<1>1. Init => LossInv
  <2> SUFFICES ASSUME Init PROVE LossInv
    OBVIOUS
  <2>1. OkIsTrue
    BY DEF Init, OkIsTrue
  <2>2. NoFrameLost
    BY DEF Init, NoFrameLost, Done
  <2> QED BY <2>1, <2>2, OwnerInvInit DEF LossInv
<1>2. LossInv /\ [Next]_vars => LossInv'
  <2> SUFFICES ASSUME LossInv, [Next]_vars PROVE LossInv'
    OBVIOUS
  <2> QED BY OwnerInvKept, OkKept, LossKept DEF LossInv
<1> QED BY <1>1, <1>2, PTL DEF Spec

-----------------------------------------------------------------------------
(* The order on the bus                                                    *)

(* Frames carry the host's numbers: those in the ring are the last ones,   *)
(* the pending one comes just before them, the bus has seen none later.    *)
Numbered ==
    /\ Len(ring) <= next
    /\ \A i \in 1..Len(ring) : ring[i] = next - Len(ring) + i
    /\ pending # None => pending = next - Len(ring)
    /\ \A i \in 1..Len(wire) : wire[i] <= next - Len(ring)

OrderInv == OwnerInv /\ Numbered /\ BusOrder

\* Every step keeps the numbering: frames enter at the end, leave at the front.
LEMMA NumberedKept == ASSUME OrderInv, [Next]_vars PROVE Numbered'
<1> USE DEF OrderInv, Numbered
<1>1. /\ next \in Nat /\ ring \in Seq(Frames) /\ Len(ring) \in Nat
      /\ wire \in Seq(Frames) /\ Len(wire) \in Nat
      /\ \A i \in 1..Len(wire) : wire[i] \in Nat
  BY LenProperties, ElementOfSeq, FrameNumbers DEF OwnerInv, TypeOK, HalTypeOK
<1>2. CASE DriverStep /\ DrvSuccess
  <2>1. /\ wire' = Append(wire, pending) /\ pending \in Frames
        /\ UNCHANGED <<ring, next, pending>>
    BY <1>2, SuccessOfPending DEF txVars, ringVars
  <2>2. /\ Len(wire') = Len(wire) + 1 /\ wire'[Len(wire) + 1] = pending
        /\ \A i \in 1..Len(wire) : wire'[i] = wire[i]
    BY <1>1, <2>1, AppendProperties
  <2>3. pending = next - Len(ring)
    BY <2>1, FrameNumbers
  <2> QED BY <1>1, <2>1, <2>2, <2>3
<1>3. CASE UNCHANGED wire
  <2>1. CASE UNCHANGED <<ring, next, pending>>
    BY <1>3, <2>1
  <2>2. CASE TxPop
    <3>1. /\ ring # <<>> /\ pending' = Head(ring) /\ ring' = Tail(ring) /\ next' = next
      BY <2>2 DEF TxPop
    <3>2. /\ Len(ring') = Len(ring) - 1 /\ Len(ring) >= 1 /\ pending' = ring[1]
          /\ \A i \in 1..Len(ring') : ring'[i] = ring[i + 1]
      BY <1>1, <3>1, HeadTailProperties, EmptySeq
    <3>3. pending' = next' - Len(ring')
      BY <1>1, <3>1, <3>2
    <3>4. \A i \in 1..Len(ring') : ring'[i] = next' - Len(ring') + i
      BY <1>1, <3>1, <3>2
    <3>5. \A i \in 1..Len(wire') : wire'[i] <= next' - Len(ring')
      BY <1>1, <1>3, <3>1, <3>2
    <3> QED BY <1>1, <3>1, <3>2, <3>3, <3>4, <3>5
  <2>3. CASE TxListenDrop \/ TxVerdict
    <3>1. UNCHANGED <<ring, next>> /\ pending' \in {pending, None}
      BY <2>3 DEF TxListenDrop, TxVerdict, ringVars
    <3> QED BY <1>3, <3>1
  <2>4. CASE HostSend
    <3>1. /\ ring' = Append(ring, next + 1) /\ next' = next + 1 /\ pending' = pending
          /\ next + 1 \in Frames
      BY <2>4 DEF HostSend, txVars
    <3>2. /\ Len(ring') = Len(ring) + 1 /\ ring'[Len(ring) + 1] = next + 1
          /\ \A i \in 1..Len(ring) : ring'[i] = ring[i]
      BY <1>1, <3>1, AppendProperties
    <3>3. next' - Len(ring') = next - Len(ring)
      BY <1>1, <3>1, <3>2
    <3>4. \A i \in 1..Len(ring') : ring'[i] = next' - Len(ring') + i
      <4> SUFFICES ASSUME NEW i \in 1..Len(ring') PROVE ring'[i] = next' - Len(ring') + i
        OBVIOUS
      <4>1. CASE i \in 1..Len(ring)
        BY <3>2, <3>3, <4>1
      <4>2. CASE i = Len(ring) + 1
        BY <1>1, <3>1, <3>2, <3>3, <4>2
      <4> QED BY <1>1, <3>2, <4>1, <4>2
    <3> QED BY <1>1, <1>3, <3>1, <3>2, <3>3, <3>4
  <2> QED BY <2>1, <2>2, <2>3, <2>4, FramesKept
<1> QED BY <1>2, <1>3, WireGrows

\* The frame that reaches the bus is no earlier than those before it.
LEMMA OrderKept == ASSUME OrderInv, [Next]_vars PROVE BusOrder'
<1> USE DEF OrderInv, BusOrder
<1>1. CASE UNCHANGED wire
  BY <1>1
<1>2. CASE DriverStep /\ DrvSuccess
  <2>1. wire' = Append(wire, pending) /\ pending \in Frames /\ wire \in Seq(Frames)
    BY <1>2, SuccessOfPending DEF OwnerInv, TypeOK, HalTypeOK
  <2>2. /\ Len(wire') = Len(wire) + 1 /\ wire'[Len(wire) + 1] = pending
        /\ \A i \in 1..Len(wire) : wire'[i] = wire[i]
        /\ Len(wire) \in Nat /\ DOMAIN wire = 1..Len(wire)
        /\ DOMAIN wire' = 1..Len(wire) + 1
    BY <2>1, AppendProperties, LenProperties
  <2>3. pending \in Nat /\ \A i \in 1..Len(wire) : wire[i] <= pending
    BY <2>1, FrameNumbers DEF Numbered
  <2> SUFFICES ASSUME NEW i \in 1..Len(wire) + 1, NEW j \in 1..Len(wire) + 1, i <= j
               PROVE  wire'[i] <= wire'[j]
    BY <2>2
  <2>4. CASE j \in 1..Len(wire)
    <3>1. i \in 1..Len(wire)
      BY <2>2, <2>4
    <3> QED BY <2>2, <2>4, <3>1
  <2>5. CASE j = Len(wire) + 1 /\ i \in 1..Len(wire)
    BY <2>2, <2>3, <2>5
  <2>6. CASE j = Len(wire) + 1 /\ i = Len(wire) + 1
    BY <2>2, <2>3, <2>6
  <2> QED BY <2>2, <2>4, <2>5, <2>6
<1> QED BY <1>1, <1>2, WireGrows

\* The order invariant is inductive.
LEMMA OrderInvKept == ASSUME OrderInv, [Next]_vars PROVE OrderInv'
BY OwnerInvKept, NumberedKept, OrderKept DEF OrderInv

\* It holds at the start.
LEMMA OrderInvInit == Init => OrderInv
<1> SUFFICES ASSUME Init PROVE OrderInv
  OBVIOUS
<1>1. Numbered /\ BusOrder
  BY DEF Init, HalInit, Numbered, BusOrder, None
<1> QED BY <1>1, OwnerInvInit DEF OrderInv

\* It holds always.
LEMMA OrderInvHolds == Spec => []OrderInv
<1>1. OrderInv /\ [Next]_vars => OrderInv'
  BY OrderInvKept
<1> QED BY <1>1, OrderInvInit, PTL DEF Spec

-----------------------------------------------------------------------------
(* Once on the bus                                                         *)

\* The next verdict can_tx_task gets is OK.
OkComesNext == \/ alerts \cap TxAlerts = {"success"}
               \/ txDone = <<>> /\ post # <<>> /\ Head(post) = "OK"
               \/ txDone # <<>> /\ Head(txDone) = "OK"

(* A pending frame that the bus has seen is not submitted again: the OK    *)
(* for it comes next, unless a teardown erased its completion.             *)
SentIsReported ==
    pending # None /\ pending \in Elements(wire) /\ pending \notin erased
        => inflight /\ txq = <<>> /\ OkComesNext

OnceInv == OrderInv /\ BootFirst /\ SentIsReported /\ OncePerFrame

\* can_tx_task lets go of a sent frame on its OK.
LEMMA SentKeptTx == ASSUME OnceInv, TxStep PROVE SentIsReported'
<1> USE DEF OnceInv, OrderInv, SentIsReported, OkComesNext, TxFrame, TxMove, ctrlVars, halVars
<1>1. CASE TxPark \/ TxUnpark \/ TxAwait \/ TxResume \/ TxFetch
  BY <1>1 DEF TxPark, TxUnpark, TxAwait, TxResume, TxFetch
<1>2. CASE TxPopTimeout \/ TxRetain \/ TxDelayOver \/ TxSilence
  BY <1>2 DEF TxPopTimeout, TxRetain, TxDelayOver, TxSilence
<1>3. CASE TxPop
  <2>1. /\ pending' = ring[1] /\ Len(ring) >= 1 /\ Len(ring) \in Nat /\ next \in Nat
        /\ wire' = wire
    BY <1>3, HeadTailProperties, LenProperties, EmptySeq DEF TxPop, OwnerInv, TypeOK
  <2>2. pending' = next - Len(ring) + 1
    BY <2>1 DEF Numbered
  <2>3. /\ DOMAIN wire = 1..Len(wire)
        /\ \A i \in 1..Len(wire) : wire[i] \in Nat
    BY LenProperties, ElementOfSeq, FrameNumbers DEF OwnerInv, TypeOK, HalTypeOK
  <2>4. pending' \notin Elements(wire')
    BY <2>1, <2>2, <2>3 DEF Elements, Numbered
  <2> QED BY <2>4
<1>4. CASE TxDrain \/ TxAccepted
  <2>1. ~inflight /\ UNCHANGED <<pending, wire, erased>>
    BY <1>4 DEF TxDrain, TxAccepted, HalEnqueue, busVars, OwnerInv, TaskDiscipline
  <2> QED BY <2>1
<1>5. CASE TxListenDrop
  BY <1>5 DEF TxListenDrop
<1>6. CASE TxVerdict
  <2>1. /\ txDone # <<>> /\ UNCHANGED <<wire, erased>>
        /\ pending' = IF Head(txDone) = "OK" THEN None ELSE pending
    BY <1>6 DEF TxVerdict
  <2>2. alerts \cap TxAlerts = {}
    BY <2>1 DEF OwnerInv, VerdictComesFirst, Unresolved
  <2> QED BY <2>1, <2>2
<1> QED BY <1>1, <1>2, <1>3, <1>4, <1>5, <1>6 DEF TxStep

\* ctrl_task forwards the OK, or erases it with the teardown.
LEMMA SentKeptCtrl == ASSUME OnceInv, CtrlStep PROVE SentIsReported'
<1> USE DEF OnceInv, OrderInv, SentIsReported, OkComesNext, CtrlFrame, txVars
<1>1. UNCHANGED <<wire, inflight, pending>>
  BY CtrlLeavesDriver, Zenon DEF halVars, busVars, HalService, HalStart, HalStop,
     CtrlStep, CtrlBoot, CtrlWake, CtrlLoop, CtrlGiveUp, CtrlGranted, CtrlService,
     CtrlPost, CtrlPosted, CtrlApply, CtrlAbort, CtrlRelease
<1>2. CASE CtrlBoot
  <2>1. alerts \cap TxAlerts = {}
    BY <1>2 DEF CtrlBoot, BootFirst, OwnerInv, DriverAgrees
  <2>2. /\ UNCHANGED <<post, txDone, erased>>
        /\ txq' = <<>> \/ txq' = txq
    BY <1>2, Zenon DEF CtrlBoot, HalStart, halVars
  <2> QED BY <1>1, <2>1, <2>2
<1>3. CASE CtrlWake \/ CtrlLoop \/ CtrlGiveUp \/ CtrlGranted \/ CtrlPosted \/ CtrlRelease
  BY <1>1, <1>3 DEF CtrlWake, CtrlLoop, CtrlGiveUp, CtrlGranted, CtrlPosted,
                    CtrlRelease, halVars
<1>4. CASE CtrlService
  <2>1. post = <<>> /\ UNCHANGED <<txDone, erased>>
    BY <1>4 DEF CtrlService, OwnerInv, CtrlDiscipline
  <2>2. txq' = <<>> \/ txq' = txq
    BY <1>4, Zenon DEF CtrlService, HalService
  <2>3. CASE txDone # <<>> /\ Head(txDone) = "OK"
    BY <1>1, <2>1, <2>2, <2>3
  <2>4. CASE alerts \cap TxAlerts = {"success"}
    <3>1. txDone = <<>> /\ Installed
      BY <2>4 DEF OwnerInv, VerdictComesFirst, Unresolved, DriverAgrees, Installed
    <3>2. TxEvent = <<"OK">>
      BY <2>4 DEF TxEvent, TxAlerts
    <3>3. post' = <<"OK">> \o <<>> \/ post' = <<"OK">> \o <<"ABORT">>
      BY <1>4, <3>1, <3>2, Zenon DEF CtrlService
    <3>4. post' # <<>> /\ Head(post') = "OK"
      BY <3>3
    <3> QED BY <1>1, <2>1, <2>2, <3>1, <3>4
  <2>5. CASE ~OkComesNext
    BY <1>1, <2>1, <2>5
  <2> QED BY <2>1, <2>3, <2>4, <2>5
<1>5. CASE CtrlPost
  <2>1. /\ Head(post) \in Events /\ Queue(Head(post)) /\ UNCHANGED <<txq, alerts, erased>>
        /\ post # <<>>
    BY <1>5, HeadTailProperties DEF CtrlPost, OwnerInv, TypeOK, halVars
  <2>2. alerts \cap TxAlerts = {}
    BY <2>1 DEF OwnerInv, VerdictComesFirst, Unresolved
  <2>3. /\ txDone' # <<>>
        /\ txDone # <<>> => Head(txDone') = Head(txDone)
        /\ txDone = <<>> => Head(txDone') = Head(post)
    BY <2>1, QueueEffect DEF OwnerInv
  <2> QED BY <1>1, <2>1, <2>2, <2>3 DEF TxAlerts
<1>6. CASE CtrlApply
  <2>1. UNCHANGED <<post, txDone>>
    BY <1>6 DEF CtrlApply
  <2>2. CASE ~CanUninstall
    <3>1. UNCHANGED halVars /\ erased' = erased
      BY <1>6, <2>2, Zenon DEF CtrlApply, HalStart, HalStop
    <3> QED BY <1>1, <2>1, <3>1 DEF halVars
  <2>3. CASE CanUninstall
    <3>1. /\ txq' = <<>>
          /\ erased' = IF "success" \in alerts THEN erased \cup {pending} ELSE erased
      BY <1>6, <2>3, Zenon DEF CtrlApply, HalStart, HalStop
    <3> QED BY <1>1, <2>1, <3>1
  <2> QED BY <2>2, <2>3
<1>7. CASE CtrlAbort
  <2>1. /\ "ABORT" \in Events /\ Queue("ABORT") /\ UNCHANGED <<txq, alerts, erased>>
        /\ post = <<>>
    BY <1>7 DEF CtrlAbort, Events, halVars, OwnerInv, CtrlDiscipline
  <2>2. alerts \cap TxAlerts = {}
    BY <1>7 DEF CtrlAbort, OwnerInv, VerdictComesFirst, Unresolved
  <2>3. /\ txDone' # <<>>
        /\ txDone # <<>> => Head(txDone') = Head(txDone)
    BY <2>1, QueueEffect DEF OwnerInv
  <2> QED BY <1>1, <2>1, <2>2, <2>3
<1> QED BY <1>2, <1>3, <1>4, <1>5, <1>6, <1>7 DEF CtrlStep

\* Every step keeps a sent frame from being submitted again.
LEMMA SentKept == ASSUME OnceInv, [Next]_vars PROVE SentIsReported'
<1> USE DEF OnceInv, OrderInv, SentIsReported, OkComesNext
<1>1. CASE DriverStep /\ DrvSuccess
  <2>1. alerts' \cap TxAlerts = {"success"}
    BY <1>1, SuccessOfPending DEF TxAlerts
  <2> QED BY <1>1, <2>1, SuccessOfPending DEF txVars
<1>2. CASE DriverStep /\ ~DrvSuccess
  <2>1. UNCHANGED <<wire, inflight, pending, post, txDone, erased>>
    BY <1>2 DEF DriverStep, txVars, ctrlVars, DrvStep, DrvFailure, DrvBusOff,
                DrvRecovered, busVars
  <2>2. CASE DrvFailure
    <3>1. txq # <<>>
      BY <2>2 DEF DrvFailure, Transmitting
    <3> QED BY <2>1, <3>1
  <2>3. CASE DrvBusOff \/ DrvRecovered
    <3>1. txq' = txq /\ alerts' \cap TxAlerts = alerts \cap TxAlerts
      BY <2>3 DEF DrvBusOff, DrvRecovered, TxAlerts
    <3> QED BY <2>1, <3>1
  <2> QED BY <1>2, <2>2, <2>3 DEF DriverStep, DrvStep
<1>3. CASE HostSend \/ HostCommand \/ UNCHANGED vars
  BY <1>3 DEF HostSend, HostCommand, vars, txVars, ctrlVars, halVars
<1> QED BY <1>1, <1>2, <1>3, SentKeptTx, SentKeptCtrl DEF Next

\* A frame that reaches the bus was not there, or is one a teardown erased.
LEMMA OnceKept == ASSUME OnceInv, [Next]_vars PROVE OncePerFrame'
<1> USE DEF OnceInv, OrderInv, OncePerFrame, OnWire
<1>1. erased \subseteq erased'
  <2>1. CASE CtrlStep
    BY <2>1, Zenon DEF CtrlStep, CtrlBoot, CtrlWake, CtrlLoop, CtrlGiveUp, CtrlGranted,
       CtrlService, CtrlPost, CtrlPosted, CtrlApply, CtrlAbort, CtrlRelease
  <2>2. CASE TxStep \/ DriverStep \/ HostSend \/ HostCommand \/ UNCHANGED vars
    <3>1. erased' = erased
      BY <2>2 DEF DriverStep, HostSend, HostCommand, vars, TxStep, TxMove, TxFrame, TxPark,
         TxUnpark, TxAwait, TxResume, TxFetch, TxPop, TxPopTimeout, TxDrain, TxAccepted,
         TxListenDrop, TxRetain, TxDelayOver, TxVerdict, TxSilence
    <3> QED BY <3>1
  <2> QED BY <2>1, <2>2 DEF Next
<1>2. CASE UNCHANGED wire
  BY <1>1, <1>2
<1>3. CASE DriverStep /\ DrvSuccess
  <2>1. /\ wire' = Append(wire, pending) /\ pending \in Frames /\ wire \in Seq(Frames)
        /\ txq # <<>> /\ erased' = erased
    <3>1. wire \in Seq(Frames)
      BY DEF OwnerInv, TypeOK, HalTypeOK
    <3>2. wire' = Append(wire, pending) /\ pending \in Frames /\ erased' = erased
      BY <1>3, SuccessOfPending
    <3>3. txq # <<>>
      BY <1>3 DEF DrvSuccess, Transmitting
    <3> QED BY <3>1, <3>2, <3>3
  <2>2. /\ Len(wire') = Len(wire) + 1 /\ wire'[Len(wire) + 1] = pending
        /\ \A i \in 1..Len(wire) : wire'[i] = wire[i]
        /\ Len(wire) \in Nat /\ DOMAIN wire = 1..Len(wire)
        /\ DOMAIN wire' = 1..Len(wire) + 1
    BY <2>1, AppendProperties, LenProperties
  <2>3. pending \in erased \/ \A i \in 1..Len(wire) : wire[i] # pending
    <3>1. pending \in erased \/ pending \notin Elements(wire)
      BY <2>1, FrameNumbers DEF SentIsReported
    <3> QED BY <2>2, <3>1 DEF Elements
  <2> SUFFICES ASSUME NEW f \in Frames \ erased,
                      NEW i \in 1..Len(wire) + 1, NEW j \in 1..Len(wire) + 1,
                      wire'[i] = f, wire'[j] = f
               PROVE  i = j
    BY <2>1, <2>2
  <2>4. CASE f = pending
    <3>1. i \notin 1..Len(wire) /\ j \notin 1..Len(wire)
      BY <2>2, <2>3, <2>4
    <3> QED BY <2>2, <3>1
  <2>5. CASE f # pending
    <3>1. i \in 1..Len(wire) /\ j \in 1..Len(wire)
      BY <2>2, <2>5
    <3> QED BY <2>2, <3>1
  <2> QED BY <2>4, <2>5
<1> QED BY <1>2, <1>3, WireGrows

\* It holds always.
LEMMA OnceInvHolds == Spec => []OnceInv
<1>1. Init => OnceInv
  <2> SUFFICES ASSUME Init PROVE OnceInv
    OBVIOUS
  <2>1. BootFirst /\ SentIsReported /\ OncePerFrame
    BY DEF Init, HalInit, BootFirst, SentIsReported, OncePerFrame, OnWire, Elements
  <2> QED BY <2>1, OrderInvInit DEF OnceInv
<1>2. OnceInv /\ [Next]_vars => OnceInv'
  <2> SUFFICES ASSUME OnceInv, [Next]_vars PROVE OnceInv'
    OBVIOUS
  <2>1. OwnerInv
    BY DEF OnceInv, OrderInv
  <2> QED BY <2>1, OrderInvKept, BootKept, SentKept, OnceKept DEF OnceInv
<1> QED BY <1>1, <1>2, PTL DEF Spec

-----------------------------------------------------------------------------
(* The theorems                                                            *)

(* Both tasks, the queues between them and the driver keep their types:    *)
(* s_tx_done never exceeds its depth, and can_tx_task never hands the      *)
(* driver anything but a frame of the host (main.c:420-522, 700-760).      *)
THEOREM TypeCorrect == Spec => []TypeOK
<1>1. OwnerInv => TypeOK
  BY DEF OwnerInv
<1> QED BY <1>1, OwnerInvHolds, PTL

(* The ownership rule of main.c:376-389: the driver never holds more than  *)
(* the pending frame, and holds it only before any verdict on it exists.   *)
THEOREM OwnershipHolds == Spec => []Ownership
<1>1. OwnerInv => Ownership
  BY DEF OwnerInv, VerdictComesFirst, Unresolved, Ownership, TxAlerts
<1> QED BY <1>1, OwnerInvHolds, PTL

(* Whatever bus-offs, reconfigurations, failed attempts and full queues    *)
(* occur, a frame can_tx_task lets go of was sent, or dropped on purpose.  *)
THEOREM NothingLost == Spec => []NoFrameLost
<1>1. LossInv => NoFrameLost
  BY DEF LossInv
<1> QED BY <1>1, LossInvHolds, PTL

(* Frames that are submitted again do not overtake or fall behind others.  *)
THEOREM OrderHolds == Spec => []BusOrder
<1>1. OrderInv => BusOrder
  BY DEF OrderInv
<1> QED BY <1>1, OrderInvHolds, PTL

(* Only a teardown that erases an unread completion can make a frame       *)
(* appear on the bus twice.                                                *)
THEOREM SentOnce == Spec => []OncePerFrame
<1>1. OnceInv => OncePerFrame
  BY DEF OnceInv
<1> QED BY <1>1, OnceInvHolds, PTL

(* can_tx_task never waits for a verdict that nobody will send, however    *)
(* short s_tx_done is: xQueueSend drops events, but never the last one     *)
(* that tells of the frame.                                                *)
THEOREM NeverStranded == Spec => []VerdictOnItsWay
<1>1. StrandInv => VerdictOnItsWay
  BY DEF StrandInv
<1> QED BY <1>1, StrandInvHolds, PTL
=============================================================================
