---------------------------- MODULE QuiesceProofs ----------------------------
(***************************************************************************)
(* Proofs about the quiesce handshake, for any set of tasks and settings,  *)
(* any poll budget and any number of request/release cycles.               *)
(***************************************************************************)
EXTENDS Quiesce, TLAPS

(* Parity flips at each increment of s_quiesce_seq: what lets one word     *)
(* carry the request flag and the cycle id.                                *)
LEMMA OddFlips ==
  ASSUME NEW n \in Nat
  PROVE  Odd(n + 1) <=> ~Odd(n)
  BY SMT DEF Odd

(* The initial id is a released one.                                       *)
LEMMA ZeroIsEven == ~Odd(0)
  BY SMT DEF Odd

(* Lowering an id keeps its parity, which a task in quiesce_park tests.    *)
LEMMA LoweredParity ==
  ASSUME NEW n \in Nat
  PROVE  /\ Lowered(n) \in Nat
         /\ Odd(Lowered(n)) <=> Odd(n)
<1>1. CASE n >= 2
  <2>1. n - 2 \in Nat /\ n - 1 \in Nat
    BY <1>1
  <2>2. n - 1 = (n - 2) + 1 /\ n = (n - 1) + 1
    BY <1>1
  <2>3. Odd(n) <=> Odd(n - 2)
    BY <2>1, <2>2, OddFlips
  <2> QED BY <1>1, <2>1, <2>3 DEF Lowered
<1>2. CASE ~(n >= 2)
  BY <1>2 DEF Lowered
<1> QED BY <1>1, <1>2

(* No id overtakes the current one when they are lowered.                  *)
LEMMA LoweredOrder ==
  ASSUME NEW m \in Nat, NEW n \in Nat, m <= n, n >= 3
  PROVE  Lowered(m) <= Lowered(n)
  BY DEF Lowered

(* Every step of the tasks, of ctrl_task and of the host keeps the types.  *)
LEMMA TypeStep == TypeOK /\ [Next]_vars => TypeOK'
<1> SUFFICES ASSUME TypeOK, [Next]_vars PROVE TypeOK'
  OBVIOUS
<1> USE QuiesceAssumption DEF TypeOK, TaskPc, CtrlPc, Parked, InPark
<1>1. ASSUME NEW t \in Tasks, TaskStep(t) PROVE TypeOK'
  <2>1. CASE Sample(t)
    BY <2>1 DEF Sample, Goto, ctrlVars, hostVars
  <2>2. CASE EnterCall(t) \/ SkipCall(t) \/ Return(t) \/ Loop(t)
    BY <2>2 DEF EnterCall, SkipCall, Return, Loop, Goto, ctrlVars, hostVars
  <2>3. CASE Publish(t)
    BY <2>3 DEF Publish, Goto, ctrlVars, hostVars
  <2>4. CASE Wake(t)
    BY <2>4 DEF Wake, Goto, ctrlVars, hostVars
  <2> QED BY <1>1, <2>1, <2>2, <2>3, <2>4 DEF TaskStep, ParkStep
<1>2. ASSUME CtrlStep PROVE TypeOK'
  <2>1. CASE Request
    BY <2>1 DEF Request, taskVars, hostVars
  <2>2. CASE Grant \/ Release
    BY <2>2 DEF Grant, Release, taskVars, hostVars
  <2>3. CASE ClearReconfig \/ Apply
    BY <2>3 DEF ClearReconfig, Apply, taskVars
  <2>4. ASSUME NEW t \in Tasks, ReadAck(t) \/ Poll(t) \/ GiveUp(t)
        PROVE TypeOK'
    BY <2>4 DEF ReadAck, Poll, GiveUp, taskVars, hostVars
  <2>5. CASE NextPass
    BY <2>5 DEF NextPass, taskVars, hostVars
  <2>6. CASE Renumber
    BY <2>6, LoweredParity DEF Renumber, hostVars
  <2> QED BY <1>2, <2>1, <2>2, <2>3, <2>4, <2>5, <2>6 DEF CtrlStep
<1>3. CASE HostCommand
  BY <1>3 DEF HostCommand, taskVars, ctrlVars
<1>4. CASE UNCHANGED vars
  BY <1>4 DEF vars
<1> QED BY <1>1, <1>2, <1>3, <1>4 DEF Next

LEMMA TypeInit == Init => TypeOK
<1> SUFFICES ASSUME Init PROVE TypeOK
  OBVIOUS
<1> USE DEF Init
<1>1. left \in 0..WaitPolls
  BY QuiesceAssumption
<1>2. /\ ack \in [Tasks -> Nat]
      /\ cycle \in [Tasks -> Nat]
      /\ pc \in [Tasks -> TaskPc]
  BY DEF TaskPc
<1>3. /\ want \in Configs
      /\ handed \in Configs
      /\ pending \in BOOLEAN
  BY QuiesceAssumption
<1> QED BY <1>1, <1>2, <1>3 DEF TypeOK, CtrlPc

(* Type correctness of the handshake's state.                              *)
THEOREM TypeCorrect == Spec => []TypeOK
BY TypeInit, TypeStep, PTL DEF Spec

(* A task step keeps the strengthened invariant.  The two steps that       *)
(* matter are the sample of s_quiesce_seq, which decides to park or to go  *)
(* on, and the write of the ack, which may echo an id already superseded.  *)
LEMMA TaskKeepsIInv ==
  ASSUME IInv, NEW t \in Tasks, TaskStep(t)
  PROVE  AckIsConsent' /\ SeqDiscipline' /\ SeenHolds'
<1> USE DEF IInv, TypeOK, AckIsConsent, SeqDiscipline, SeenHolds, Exclusive, InPark
<1>1. CASE Sample(t)
  BY <1>1 DEF Sample, Goto, ctrlVars, hostVars
<1>2. CASE EnterCall(t) \/ SkipCall(t) \/ Return(t) \/ Loop(t)
  BY <1>2 DEF EnterCall, SkipCall, Return, Loop, Goto, ctrlVars, hostVars
<1>3. CASE Publish(t)
  BY <1>3 DEF Publish, Goto, ctrlVars, hostVars
<1>4. CASE Wake(t)
  BY <1>4 DEF Wake, Goto, ctrlVars, hostVars
<1> QED BY <1>1, <1>2, <1>3, <1>4 DEF TaskStep, ParkStep

(* A ctrl_task step keeps it.  A request makes every ack stale, because no *)
(* ack is ahead of the word; a release makes it even, so none counts.      *)
LEMMA CtrlKeepsIInv ==
  ASSUME IInv, CtrlStep
  PROVE  AckIsConsent' /\ SeqDiscipline' /\ SeenHolds'
<1> USE DEF IInv, TypeOK, AckIsConsent, SeqDiscipline, SeenHolds, Exclusive, InPark
<1>1. CASE Request
  <2>1. /\ ~Odd(seq)
        /\ Odd(seq')
    BY <1>1, OddFlips DEF Request
  <2>2. \A t \in Tasks : ack[t] # seq'
    BY <1>1 DEF Request
  <2> QED BY <1>1, <2>1, <2>2 DEF Request, taskVars, hostVars
<1>2. CASE Release
  <2>1. ~Odd(seq')
    BY <1>2, OddFlips DEF Release
  <2> QED BY <1>2, <2>1 DEF Release, taskVars, hostVars
<1>3. CASE Grant
  BY <1>3 DEF Grant, taskVars, hostVars
<1>4. CASE ClearReconfig \/ Apply
  BY <1>4 DEF ClearReconfig, Apply, taskVars
<1>5. ASSUME NEW t \in Tasks, ReadAck(t) \/ Poll(t) \/ GiveUp(t)
      PROVE  AckIsConsent' /\ SeqDiscipline' /\ SeenHolds'
  BY <1>5 DEF ReadAck, Poll, GiveUp, taskVars, hostVars
<1>6. CASE NextPass
  BY <1>6 DEF NextPass, taskVars, hostVars
<1>7. CASE Renumber
  <2>1. seq >= 3
    BY <1>7, QuiesceAssumption DEF Renumber
  <2>2. ~Odd(seq) /\ ~Odd(seq')
    BY <1>7, LoweredParity DEF Renumber
  <2>3. \A t \in Tasks : /\ ack'[t] <= seq'
                        /\ cycle'[t] <= seq'
    BY <1>7, <2>1, LoweredOrder DEF Renumber
  <2>4. \A t \in Tasks : pc'[t] = "publish" => Odd(cycle'[t])
    BY <1>7, LoweredParity DEF Renumber
  <2>5. seen' = {} /\ ctrl' = "idle"
    BY <1>7 DEF Renumber
  <2> QED BY <2>2, <2>3, <2>4, <2>5
<1> QED BY <1>1, <1>2, <1>3, <1>4, <1>5, <1>6, <1>7 DEF CtrlStep

LEMMA IInvInit == Init => IInv
<1> SUFFICES ASSUME Init PROVE IInv
  OBVIOUS
<1>1. TypeOK
  BY TypeInit
<1>2. AckIsConsent /\ SeqDiscipline /\ SeenHolds
  BY ZeroIsEven DEF Init, AckIsConsent, SeqDiscipline, SeenHolds, Exclusive
<1> QED BY <1>1, <1>2 DEF IInv

LEMMA IInvStep == IInv /\ [Next]_vars => IInv'
<1> SUFFICES ASSUME IInv, [Next]_vars PROVE IInv'
  OBVIOUS
<1>1. TypeOK'
  BY TypeStep DEF IInv
<1>2. AckIsConsent' /\ SeqDiscipline' /\ SeenHolds'
  <2>1. CASE HostCommand
    BY <2>1 DEF HostCommand, taskVars, ctrlVars, IInv, AckIsConsent,
       SeqDiscipline, SeenHolds, Exclusive
  <2>2. CASE UNCHANGED vars
    BY <2>2 DEF vars, IInv, AckIsConsent, SeqDiscipline, SeenHolds, Exclusive
  <2> QED BY <2>1, <2>2, TaskKeepsIInv, CtrlKeepsIInv DEF Next
<1> QED BY <1>1, <1>2 DEF IInv

(* The acks, the samples and ctrl_task's reads of the acks agree with the  *)
(* request word in every reachable state: a stale ack is never consent.    *)
THEOREM Consent == Spec => []IInv
BY IInvInit, IInvStep, PTL DEF Spec

(* The consent of all tasks, read in any order over any number of polls,   *)
(* still holds together when the driver is touched.                        *)
LEMMA IInvAlone == IInv => TeardownAlone
<1> SUFFICES ASSUME IInv, Exclusive, NEW t \in Tasks
             PROVE  pc[t] \in InPark
  BY DEF TeardownAlone
<1>1. Odd(seq) /\ ack[t] = seq
  BY DEF IInv, SeqDiscipline, SeenHolds, Exclusive
<1> QED BY <1>1 DEF IInv, AckIsConsent

(* ctrl_task never touches the driver while a task is inside a twai_hal    *)
(* call or on its way into one.                                            *)
THEOREM TeardownSafe == Spec => []TeardownAlone
BY Consent, IInvAlone, PTL

-----------------------------------------------------------------------------
(* Refinement of DriverGuard, with the tasks inside a twai_hal call as the *)
(* users and the exclusive section of ctrl_task as the teardown.           *)

(* No request is lost: with no request flagged and none being applied, the *)
(* driver has been handed the latest settings, because the flag is cleared *)
(* before they are read (main.c:678-692).                                  *)
THEOREM NothingForgotten == Spec => []RequestNotLost
<1>1. Init => RequestNotLost
  BY DEF Init, RequestNotLost
<1>2. RequestNotLost /\ [Next]_vars => RequestNotLost'
  <2> SUFFICES ASSUME RequestNotLost, [Next]_vars PROVE RequestNotLost'
    OBVIOUS
  <2> USE DEF RequestNotLost
  <2>1. CASE \E t \in Tasks : TaskStep(t)
    BY <2>1 DEF TaskStep, ParkStep, Sample, EnterCall, SkipCall, Return, Loop,
                Publish, Wake, ctrlVars, hostVars
  <2>2. CASE Request \/ Grant \/ Release \/ NextPass \/ Renumber
             \/ \E t \in Tasks : ReadAck(t) \/ Poll(t) \/ GiveUp(t)
    BY <2>2 DEF Request, Grant, Release, NextPass, Renumber, ReadAck, Poll,
                GiveUp, hostVars
  <2>3. CASE ClearReconfig \/ Apply
    BY <2>3 DEF ClearReconfig, Apply
  <2>4. CASE HostCommand \/ UNCHANGED vars
    BY <2>4 DEF HostCommand, ctrlVars, vars
  <2> QED BY <2>1, <2>2, <2>3, <2>4 DEF Next, CtrlStep
<1> QED BY <1>1, <1>2, PTL DEF Spec

LEMMA GuardInit == Init => Guard!Init
BY DEF Init, Guard!Init, Exclusive

(* Entering and leaving a driver call are the only task steps the guard    *)
(* sees; TeardownAlone is what allows the entry.                           *)
LEMMA TaskIsGuardStep ==
  ASSUME IInv, NEW t \in Tasks, TaskStep(t)
  PROVE  [Guard!Next]_(Guard!vars)
<1> DEFINE U == {u \in Tasks : pc[u] = "call"}
<1>0. Exclusive' <=> Exclusive
  BY DEF TaskStep, ParkStep, Sample, Publish, Wake, Loop, EnterCall, SkipCall,
         Return, ctrlVars, Exclusive
<1>1. CASE EnterCall(t)
  <2>1. ~Exclusive
    BY <1>1, IInvAlone DEF EnterCall, TeardownAlone, InPark
  <2>2. t \notin U /\ U' = U \cup {t}
    BY <1>1 DEF EnterCall, Goto, IInv, TypeOK
  <2>3. Guard!Enter(t)
    BY <2>1, <2>2, <1>0 DEF Guard!Enter
  <2> QED BY <2>3 DEF Guard!Next
<1>2. CASE Return(t)
  <2>1. t \in U /\ U' = U \ {t}
    BY <1>2 DEF Return, Goto, IInv, TypeOK
  <2>2. Guard!Leave(t)
    BY <2>1, <1>0 DEF Guard!Leave
  <2> QED BY <2>2 DEF Guard!Next
<1>3. CASE ParkStep(t) \/ SkipCall(t)
  <2>1. U' = U
    BY <1>3 DEF ParkStep, Sample, Publish, Wake, Loop, SkipCall, Goto, IInv,
                TypeOK
  <2> QED BY <2>1, <1>0 DEF Guard!vars
<1> QED BY <1>1, <1>2, <1>3 DEF TaskStep

(* A grant takes the driver when no task uses it; the release of a granted *)
(* cycle gives it back; every other control step stutters.                 *)
LEMMA CtrlIsGuardStep ==
  ASSUME IInv, CtrlStep
  PROVE  [Guard!Next]_(Guard!vars)
<1> DEFINE U == {u \in Tasks : pc[u] = "call"}
<1>0. U' = U
  BY DEF CtrlStep, Request, Grant, ClearReconfig, Apply, Release, NextPass,
         Renumber, ReadAck, Poll, GiveUp, taskVars
<1>1. CASE Grant
  <2>1. \A t \in Tasks : Odd(seq) /\ ack[t] = seq
    BY <1>1 DEF Grant, IInv, SeqDiscipline, SeenHolds
  <2>2. U = {}
    BY <2>1 DEF IInv, AckIsConsent, InPark
  <2>3. ~Exclusive /\ Exclusive'
    BY <1>1 DEF Grant, Exclusive
  <2>4. Guard!Take
    BY <1>0, <2>2, <2>3 DEF Guard!Take
  <2> QED BY <2>4 DEF Guard!Next
<1>2. CASE Release
  <2>1. ~Exclusive'
    BY <1>2 DEF Release, Exclusive
  <2>2. CASE Exclusive
    <3>1. Guard!Release
      BY <1>0, <2>1, <2>2 DEF Guard!Release
    <3> QED BY <3>1 DEF Guard!Next
  <2>3. CASE ~Exclusive
    BY <1>0, <2>1, <2>3 DEF Guard!vars, Exclusive
  <2> QED BY <2>2, <2>3
<1>3. CASE \/ Request \/ ClearReconfig \/ Apply \/ NextPass \/ Renumber
           \/ \E t \in Tasks : ReadAck(t) \/ Poll(t) \/ GiveUp(t)
  <2>1. Exclusive' <=> Exclusive
    BY <1>3 DEF Request, ClearReconfig, Apply, NextPass, Renumber, ReadAck, Poll,
                GiveUp, Exclusive
  <2> QED BY <1>0, <2>1 DEF Guard!vars, Exclusive
<1> QED BY <1>1, <1>2, <1>3 DEF CtrlStep

(* The handshake implements exclusive access: no twai_hal call starts or   *)
(* goes on while ctrl_task reconfigures the driver, whatever the tasks,    *)
(* the poll budget and the number of cycles.                               *)
THEOREM HandshakeGuardsDriver == Spec => GuardSpec
<1>1. IInv /\ [Next]_vars => [Guard!Next]_(Guard!vars)
  <2> SUFFICES ASSUME IInv, [Next]_vars PROVE [Guard!Next]_(Guard!vars)
    OBVIOUS
  <2>1. CASE HostCommand \/ UNCHANGED vars
    BY <2>1 DEF HostCommand, taskVars, ctrlVars, vars, Guard!vars, Exclusive
  <2> QED BY <2>1, TaskIsGuardStep, CtrlIsGuardStep DEF Next
<1> QED BY <1>1, GuardInit, Consent, PTL DEF Spec, GuardSpec, Guard!Spec
=============================================================================
