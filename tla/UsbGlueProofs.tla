---------------------------- MODULE UsbGlueProofs ----------------------------
(***************************************************************************)
(* Proofs about the bulk endpoints, for every length of TinyUSB's queue    *)
(* and of tx_ring, any batches, transfers and commands, and any resets and *)
(* failures, whether or not the mutex of tx_ring is contended.             *)
(***************************************************************************)
EXTENDS UsbGlue, Integers, SequenceTheorems, TLAPS

Dones == {"inDone", "outDone", "cmdDone"}

Events == Kinds \X Nat

TypeOK ==
    /\ events \in Seq(Events)
    /\ hwIn \in Nat /\ hwOut \in BOOLEAN /\ hwCmd \in BOOLEAN
    /\ outBuf \in Seq(Nat) /\ received \in Seq(Nat) /\ sent \in Nat
    /\ open \in BOOLEAN /\ gen \in Nat
    /\ pend \in Seq(Nat) /\ msgRearm \in BOOLEAN /\ cmdRearm \in BOOLEAN
    /\ inState \in InStates /\ inBuf \in Nat /\ inGen \in Nat
    /\ lost \subseteq Nat
    /\ upc \in {"idle", "push", "arm"}
    /\ snap \in [cmd : BOOLEAN, msg : BOOLEAN, gen : Nat]
    /\ batch \in Nat \ {0}
    /\ ring \in Seq(Nat) /\ got \in Seq(Nat)

-----------------------------------------------------------------------------
(* TinyUSB's queue: one completion of a kind at a time, and none behind a  *)
(* reset.                                                                  *)
QueueInv ==
    /\ \A i, j \in 1..Len(events) :
          i < j /\ events[i][1] = "reset" => events[j][1] \notin Dones
    /\ \A i, j \in 1..Len(events) :
          i < j /\ events[i][1] = events[j][1]
            => events[i][1] \notin Dones \cup {"open"}

\* The completion of a batch that the host has received is on its way.
Arrived == \E i \in 1..Len(events) : events[i] = <<"inDone", 1>>

LEMMA PendingIs ==
    ASSUME events \in Seq(Events), NEW x
    PROVE  Pending(x) <=> \E i \in 1..Len(events) : events[i][1] = x
BY DEF Pending

LEMMA PendingIsPrime ==
    ASSUME events' \in Seq(Events), NEW x
    PROVE  Pending(x)' <=> \E i \in 1..Len(events') : events'[i][1] = x
BY DEF Pending

(* Something is raised: a completion only while no reset is pending.       *)
LEMMA Raised ==
    ASSUME events \in Seq(Events), QueueInv, NEW k \in Kinds, NEW a \in Nat,
           events' = Append(events, <<k, a>>),
           k \in Dones => ~Pending("reset"),
           k \in Dones \cup {"open"} => ~Pending(k)
    PROVE  /\ events' \in Seq(Events) /\ QueueInv'
           /\ \A x : Pending(x)' <=> (Pending(x) \/ x = k)
           /\ Arrived' <=> (Arrived \/ (k = "inDone" /\ a = 1))
<1> DEFINE n == Len(events)
<1>1. <<k, a>> \in Events
  BY DEF Events
<1>2. /\ n \in Nat
      /\ events' \in Seq(Events) /\ Len(events') = n + 1
      /\ \A i \in 1..n : events'[i] = events[i]
      /\ events'[n + 1] = <<k, a>>
  BY <1>1, AppendProperties
<1>3. \A x : Pending(x) <=> \E i \in 1..n : events[i][1] = x
  BY PendingIs
<1>4. \A x : Pending(x)' <=> \E i \in 1..n + 1 : events'[i][1] = x
  BY <1>2, PendingIsPrime
<1> HIDE DEF n
<1>5. \A x : Pending(x)' <=> (Pending(x) \/ x = k)
  <2> TAKE x
  <2>1. (\E i \in 1..n + 1 : events'[i][1] = x)
          <=> (\E i \in 1..n : events[i][1] = x) \/ x = k
    BY <1>2
  <2> QED BY <1>3, <1>4, <2>1
<1>6. Arrived' <=> (Arrived \/ (k = "inDone" /\ a = 1))
  BY <1>2 DEF Arrived, n
<1>7. QueueInv'
  <2>1. ASSUME NEW i \in 1..n + 1, NEW j \in 1..n + 1, i < j,
               events'[i][1] = "reset", events'[j][1] \in Dones
        PROVE  FALSE
    <3>1. i \in 1..n /\ events'[i] = events[i]
      BY <1>2, <2>1
    <3>2. Pending("reset")
      BY <1>3, <2>1, <3>1
    <3>3. j \in 1..n /\ events'[j] = events[j]
      BY <1>2, <2>1, <3>2
    <3> QED BY <2>1, <3>1, <3>3 DEF QueueInv, n
  <2>2. ASSUME NEW i \in 1..n + 1, NEW j \in 1..n + 1, i < j,
               events'[i][1] = events'[j][1],
               events'[i][1] \in Dones \cup {"open"}
        PROVE  FALSE
    <3>1. i \in 1..n /\ events'[i] = events[i]
      BY <1>2, <2>2
    <3>2. Pending(events'[j][1])
      BY <1>3, <2>2, <3>1
    <3>3. j \in 1..n /\ events'[j] = events[j]
      <4>1. j # n + 1
        <5>1. ASSUME j = n + 1 PROVE FALSE
          <6>1. events'[j][1] = k
            BY <1>2, <5>1
          <6> QED BY <2>2, <3>2, <6>1
        <5> QED BY <5>1
      <4> QED BY <1>2, <4>1
    <3> QED BY <2>2, <3>1, <3>3 DEF QueueInv, n
  <2> QED BY <1>2, <2>1, <2>2 DEF QueueInv
<1> QED BY <1>2, <1>5, <1>6, <1>7

(* The head is consumed.                                                   *)
LEMMA Consumed ==
    ASSUME events \in Seq(Events), QueueInv, events # <<>>,
           events' = Tail(events), NEW k, Head(events)[1] = k
    PROVE  /\ events' \in Seq(Events) /\ QueueInv'
           /\ Arg \in Nat /\ Pending(k)
           /\ \A x : x # k => (Pending(x)' <=> Pending(x))
           /\ k \in Dones \cup {"open"} => ~Pending(k)'
           /\ k = "reset" => \A x \in Dones : ~Pending(x)'
           /\ k # "inDone" => (Arrived' <=> Arrived)
           /\ k = "inDone" => ~Arrived' /\ (Arrived <=> Arg = 1)
<1> DEFINE n == Len(events)
<1>1. /\ n \in Nat \ {0} /\ Head(events) = events[1]
      /\ events' \in Seq(Events) /\ Len(events') = n - 1
      /\ \A i \in 1..n - 1 : events'[i] = events[i + 1]
  BY HeadTailProperties, EmptySeq
<1>2. events[1] \in Events
  BY <1>1, ElementOfSeq
<1>3. /\ k = events[1][1] /\ k \in Kinds /\ Arg = events[1][2] /\ Arg \in Nat
      /\ events[1] = <<k, Arg>>
  BY <1>1, <1>2 DEF Events, Arg
<1>4. \A x : Pending(x) <=> \E i \in 1..n : events[i][1] = x
  BY PendingIs
<1>5. \A x : Pending(x)' <=> \E i \in 1..n - 1 : events'[i][1] = x
  BY <1>1, PendingIsPrime
<1> HIDE DEF n
<1>6. Pending(k)
  BY <1>1, <1>3, <1>4
<1>7. \A x : x # k => (Pending(x)' <=> Pending(x))
  <2> SUFFICES ASSUME NEW x, x # k PROVE Pending(x)' <=> Pending(x)
    OBVIOUS
  <2>1. ASSUME NEW i \in 1..n, events[i][1] = x
        PROVE  i - 1 \in 1..n - 1 /\ events'[i - 1] = events[i]
    BY <1>1, <1>3, <2>1
  <2>2. ASSUME NEW i \in 1..n - 1
        PROVE  i + 1 \in 1..n /\ events'[i] = events[i + 1]
    BY <1>1
  <2> QED BY <1>4, <1>5, <2>1, <2>2
<1>8. ASSUME NEW x, Pending(x)'
      PROVE  \E j \in 2..n : events[j][1] = x
  <2>1. PICK i \in 1..n - 1 : events'[i][1] = x
    BY <1>5, <1>8
  <2>2. i + 1 \in 2..n /\ events'[i] = events[i + 1]
    BY <1>1
  <2> QED BY <2>1, <2>2
<1>9. ASSUME k \in Dones \cup {"open"} PROVE ~Pending(k)'
  <2>1. \A j \in 2..n : events[j][1] # k
    BY <1>1, <1>3, <1>9 DEF QueueInv, n
  <2> QED BY <1>3, <1>8, <2>1
<1>10. ASSUME k = "reset", NEW x \in Dones PROVE ~Pending(x)'
  <2>1. \A j \in 2..n : events[j][1] \notin Dones
    BY <1>1, <1>3, <1>10 DEF QueueInv, n
  <2> QED BY <1>8, <2>1 DEF Dones, Kinds
<1>11. QueueInv'
  BY <1>1 DEF QueueInv, n
<1>12. Arrived' <=> \E j \in 2..n : events[j] = <<"inDone", 1>>
  <2>1. ASSUME NEW j \in 2..n
        PROVE  j - 1 \in 1..n - 1 /\ events'[j - 1] = events[j]
    BY <1>1
  <2>2. ASSUME NEW i \in 1..n - 1
        PROVE  i + 1 \in 2..n /\ events'[i] = events[i + 1]
    BY <1>1
  <2>3. Arrived' <=> \E i \in 1..n - 1 : events'[i] = <<"inDone", 1>>
    BY <1>1 DEF Arrived
  <2> QED BY <2>1, <2>2, <2>3
<1>13. ASSUME k # "inDone" PROVE Arrived' <=> Arrived
  BY <1>1, <1>3, <1>12, <1>13 DEF Arrived, n
<1>14. ASSUME k = "inDone" PROVE ~Arrived' /\ (Arrived <=> Arg = 1)
  <2>1. \A j \in 2..n : events[j][1] # "inDone"
    BY <1>1, <1>3, <1>14 DEF QueueInv, n, Dones
  <2>2. \A j \in 2..n : events[j] # <<"inDone", 1>>
    BY <2>1
  <2>3. events[1] = <<"inDone", 1>> <=> Arg = 1
    BY <1>3, <1>14
  <2> QED BY <1>1, <1>12, <2>2, <2>3 DEF Arrived, n
<1> QED BY <1>1, <1>3, <1>6, <1>7, <1>9, <1>10, <1>11, <1>13, <1>14

-----------------------------------------------------------------------------
(* The inductive invariant.                                                *)

\* The host enumerates only a closed interface, and uses only an open one.
Interface == /\ Pending("open") => ~open
             /\ \A x \in Dones : Pending(x) => open

\* EP2 IN: what s_msg_in_state says of the batch that was retained.
InSide == /\ hwIn # 0 => /\ hwIn = inBuf /\ inState = "submitted"
                         /\ ~Pending("inDone")
          /\ Pending("inDone") => inState = "submitted"
          /\ inState # "idle" => inBuf = batch
          /\ Len(received) = IF inState = "complete" \/ Arrived
                             THEN batch ELSE batch - 1
          /\ \A i \in 1..Len(received) : received[i] = i

\* EP2 OUT: what msgRearm says of the endpoint and of the frames; EP1 OUT.
OutSide == /\ msgRearm => ~hwOut /\ ~Pending("outDone") /\ open
           /\ Pending("outDone") => ~hwOut
           /\ pend # <<>> => msgRearm
           /\ upc = "push" => msgRearm /\ pend # <<>>
           /\ upc = "arm" => msgRearm /\ pend = <<>>
           /\ cmdRearm => ~hwCmd /\ ~Pending("cmdDone")
           /\ Pending("cmdDone") => ~hwCmd

GlueInv == TypeOK /\ QueueInv /\ Interface /\ InSide /\ OutSide /\ NotForgotten

-----------------------------------------------------------------------------
(* What a step does to the queue.                                          *)
LEMMA ArrivedPending ==
    ASSUME events \in Seq(Events), Arrived
    PROVE  Pending("inDone")
BY PendingIs DEF Arrived

LEMMA QueueKept ==
    ASSUME events \in Seq(Events), QueueInv, UNCHANGED events
    PROVE  /\ events' \in Seq(Events) /\ QueueInv'
           /\ \A x : Pending(x)' <=> Pending(x)
           /\ Arrived' <=> Arrived
<1>1. events' \in Seq(Events)
  OBVIOUS
<1>2. \A x : Pending(x)' <=> Pending(x)
  BY <1>1, PendingIs, PendingIsPrime
<1>3. QueueInv' /\ (Arrived' <=> Arrived)
  BY DEF QueueInv, Arrived
<1> QED BY <1>1, <1>2, <1>3

LEMMA ElementsOf ==
    ASSUME NEW s \in Seq(Nat)
    PROVE  Elements(s) \subseteq Nat
<1>1. \A i \in DOMAIN s : s[i] \in Nat
  OBVIOUS
<1> QED BY <1>1, Zenon DEF Elements

Requests == {"msgIn", "msgOut", "cmdOut"}

LEMMA Deferred ==
    ASSUME events \in Seq(Events), QueueInv, NEW k \in Requests, NEW g \in Nat,
           Defer(k, g)
    PROVE  /\ events' \in Seq(Events) /\ QueueInv'
           /\ \A x : x \notin Requests => (Pending(x)' <=> Pending(x))
           /\ Arrived' <=> Arrived
<1>1. CASE events' = events
  BY <1>1, QueueKept
<1>2. CASE events' = Append(events, <<k, g>>)
  <2>1. k \in Kinds /\ k \notin Dones \cup {"open"}
    BY DEF Requests, Kinds, Dones
  <2> HIDE DEF Requests
  <2>2. /\ events' \in Seq(Events) /\ QueueInv'
        /\ \A x : Pending(x)' <=> (Pending(x) \/ x = k)
        /\ Arrived' <=> (Arrived \/ (k = "inDone" /\ g = 1))
    BY <1>2, <2>1, Raised
  <2> QED BY <2>1, <2>2 DEF Dones
<1> QED BY <1>1, <1>2 DEF Defer

-----------------------------------------------------------------------------
(* The host and the controller.                                            *)
LEMMA BusResetStep ==
    ASSUME GlueInv, BusReset
    PROVE  GlueInv'
<1> USE DEF GlueInv
<1>1. /\ events' \in Seq(Events) /\ QueueInv'
      /\ \A x : Pending(x)' <=> (Pending(x) \/ x = "reset")
      /\ Arrived' <=> Arrived
  BY Raised, ArrivedPending DEF BusReset, Raises, Kinds, Dones, TypeOK
<1>2. TypeOK'
  BY <1>1 DEF TypeOK, BusReset, HostFrame, inVars, outVars, taskVars, ringVars
<1>3. Interface'
  BY <1>1 DEF Interface, Dones, BusReset, HostFrame
<1>4. InSide'
  BY <1>1 DEF InSide, BusReset, HostFrame, inVars, taskVars
<1>5. OutSide'
  BY <1>1 DEF OutSide, BusReset, HostFrame, outVars
<1>6. NotForgotten'
  BY <1>1 DEF NotForgotten, HostReady
<1> QED BY <1>1, <1>2, <1>3, <1>4, <1>5, <1>6

LEMMA ConfigureStep ==
    ASSUME GlueInv, Configure
    PROVE  GlueInv'
<1> USE DEF GlueInv
<1>1. /\ events' \in Seq(Events) /\ QueueInv'
      /\ \A x : Pending(x)' <=> (Pending(x) \/ x = "open")
      /\ Arrived' <=> Arrived
  BY Raised, ArrivedPending DEF Configure, Raises, Kinds, Dones, TypeOK
<1> USE DEF Configure, HostFrame, hwVars, inVars, outVars, taskVars, ringVars
<1>2. TypeOK'
  BY <1>1 DEF TypeOK
<1>3. Interface'
  BY <1>1 DEF Interface, Dones
<1>4. InSide'
  BY <1>1 DEF InSide
<1>5. OutSide'
  BY <1>1 DEF OutSide
<1>6. NotForgotten'
  BY <1>1 DEF NotForgotten, HostReady
<1> QED BY <1>1, <1>2, <1>3, <1>4, <1>5, <1>6

LEMMA HostReceivesStep ==
    ASSUME GlueInv, HostReceives
    PROVE  GlueInv'
<1> USE DEF GlueInv
<1>0. /\ ~Pending("inDone") /\ ~Arrived /\ inState = "submitted"
      /\ hwIn = batch /\ Len(received) = batch - 1 /\ open
  BY ArrivedPending DEF InSide, HostReceives, TypeOK, HostReady
<1>1. /\ events' \in Seq(Events) /\ QueueInv'
      /\ \A x : Pending(x)' <=> (Pending(x) \/ x = "inDone")
      /\ Arrived'
  BY <1>0, Raised DEF HostReceives, HostReady, Raises, Kinds, Dones, TypeOK
<1> USE DEF HostReceives, HostFrame, hwVars, inVars, outVars, taskVars, ringVars
<1>2. TypeOK'
  BY <1>1 DEF TypeOK
<1>3. Interface'
  BY <1>0, <1>1 DEF Interface, Dones
<1>4. InSide'
  <2>1. /\ Len(received') = Len(received) + 1
        /\ \A i \in 1..Len(received) : received'[i] = received[i]
        /\ received'[Len(received) + 1] = hwIn
        /\ Len(received) \in Nat
    BY AppendProperties DEF TypeOK
  <2>2. Len(received') = batch
    BY <1>0, <2>1 DEF TypeOK
  <2>3. \A i \in 1..Len(received') : received'[i] = i
    BY <1>0, <2>1 DEF InSide, TypeOK
  <2> QED BY <1>0, <1>1, <2>2, <2>3 DEF InSide, TypeOK
<1>5. OutSide'
  BY <1>1 DEF OutSide
<1>6. NotForgotten'
  BY <1>1 DEF NotForgotten, HostReady
<1> QED BY <1>1, <1>2, <1>3, <1>4, <1>5, <1>6

LEMMA TransferFailsStep ==
    ASSUME GlueInv, TransferFails
    PROVE  GlueInv'
<1> USE DEF GlueInv
<1>0. /\ ~Pending("inDone") /\ ~Arrived /\ inState = "submitted" /\ open
  BY ArrivedPending DEF InSide, TransferFails, TypeOK, HostReady
<1>1. /\ events' \in Seq(Events) /\ QueueInv'
      /\ \A x : Pending(x)' <=> (Pending(x) \/ x = "inDone")
      /\ ~Arrived'
  <2>1. events' = Append(events, <<"inDone", 0>>) /\ ~Pending("reset")
    BY DEF TransferFails, Raises, HostReady
  <2>2. "inDone" \in Kinds /\ 0 \in Nat /\ events \in Seq(Events)
    BY DEF Kinds, TypeOK
  <2>3. Arrived' <=> (Arrived \/ ("inDone" = "inDone" /\ 0 = 1))
    BY <1>0, <2>1, <2>2, Raised
  <2> QED BY <1>0, <2>1, <2>2, <2>3, Raised
<1> USE DEF TransferFails, HostFrame, hwVars, inVars, outVars, taskVars, ringVars
<1>2. TypeOK'
  BY <1>1 DEF TypeOK
<1>3. Interface'
  BY <1>0, <1>1 DEF Interface, Dones
<1>4. InSide'
  BY <1>0, <1>1 DEF InSide
<1>5. OutSide'
  BY <1>1 DEF OutSide
<1>6. NotForgotten'
  BY <1>1 DEF NotForgotten, HostReady
<1> QED BY <1>1, <1>2, <1>3, <1>4, <1>5, <1>6

LEMMA HostSendsStep ==
    ASSUME GlueInv, HostSends
    PROVE  GlueInv'
<1> USE DEF GlueInv
<1>0. ~Pending("outDone") /\ ~Pending("reset") /\ hwOut /\ ~msgRearm /\ open
  BY DEF OutSide, HostSends, HostReady
<1>a. PICK n \in 0..BatchFrames, success \in 0..1 :
         /\ outBuf' = [i \in 1..n |-> sent + i]
         /\ sent' = sent + n
         /\ events' = Append(events, <<"outDone", success>>)
  BY DEF HostSends, Raises
<1>b. success \in Nat /\ n \in Nat
  BY UsbGlueAssumption DEF UsbGlueAssumption
<1>1. /\ events' \in Seq(Events) /\ QueueInv'
      /\ \A x : Pending(x)' <=> (Pending(x) \/ x = "outDone")
      /\ Arrived' <=> Arrived
  BY <1>0, <1>a, <1>b, Raised DEF Kinds, Dones, TypeOK
<1>c. outBuf' \in Seq(Nat) /\ sent' \in Nat
  BY <1>a, <1>b DEF TypeOK
<1> USE DEF HostSends, HostFrame, hwVars, inVars, outVars, taskVars, ringVars
<1>2. TypeOK'
  BY <1>1, <1>c DEF TypeOK
<1>3. Interface'
  BY <1>0, <1>1 DEF Interface, Dones
<1>4. InSide'
  BY <1>1 DEF InSide
<1>5. OutSide'
  BY <1>0, <1>1 DEF OutSide
<1>6. NotForgotten'
  BY <1>1 DEF NotForgotten, HostReady
<1> QED BY <1>1, <1>2, <1>3, <1>4, <1>5, <1>6

LEMMA HostCommandsStep ==
    ASSUME GlueInv, HostCommands
    PROVE  GlueInv'
<1> USE DEF GlueInv
<1>1. /\ events' \in Seq(Events) /\ QueueInv'
      /\ \A x : Pending(x)' <=> (Pending(x) \/ x = "cmdDone")
      /\ Arrived' <=> Arrived
  <2>1. ~Pending("cmdDone") /\ ~Pending("reset")
    BY DEF OutSide, HostCommands, HostReady
  <2> QED BY <2>1, Raised DEF HostCommands, Raises, Kinds, Dones, TypeOK
<1> USE DEF HostCommands, HostFrame, hwVars, inVars, outVars, taskVars, ringVars
<1>2. TypeOK'
  BY <1>1 DEF TypeOK
<1>3. Interface'
  BY <1>1 DEF Interface, Dones, HostReady
<1>4. InSide'
  BY <1>1 DEF InSide
<1>5. OutSide'
  BY <1>1 DEF OutSide
<1>6. NotForgotten'
  BY <1>1 DEF NotForgotten, HostReady
<1> QED BY <1>1, <1>2, <1>3, <1>4, <1>5, <1>6

-----------------------------------------------------------------------------
(* TinyUSB's task.                                                         *)
LEMMA DrvResetStep ==
    ASSUME GlueInv, DrvReset
    PROVE  GlueInv'
<1> USE DEF GlueInv
<1>1. /\ events' \in Seq(Events) /\ QueueInv'
      /\ \A x \in Dones : ~Pending(x)'
      /\ Pending("open")' <=> Pending("open")
      /\ ~Arrived'
      /\ Arrived' <=> Arrived
  <2>1. /\ events # <<>> /\ events' = Tail(events)
        /\ Head(events)[1] = "reset" /\ events \in Seq(Events)
    BY DEF DrvReset, Takes, Consume, TypeOK
  <2>2. \A x \in Dones : ~Pending(x)'
    BY <2>1, Consumed
  <2>3. /\ events' \in Seq(Events) /\ QueueInv'
        /\ Pending("open")' <=> Pending("open")
        /\ Arrived' <=> Arrived
    BY <2>1, Consumed
  <2>4. Arrived' => Pending("inDone")'
    BY <2>3, PendingIsPrime DEF Arrived
  <2> QED BY <2>2, <2>3, <2>4 DEF Dones
<1> USE DEF DrvReset, Takes, UsbFrame, inVars, outVars, taskVars, ringVars
<1>2. TypeOK'
  <2>1. lost' \subseteq Nat
    BY ElementsOf DEF TypeOK
  <2>2. pend' \in Seq(Nat) /\ inState' \in InStates /\ inGen' \in Nat
    BY EmptySeq DEF TypeOK, InStates
  <2>3. /\ hwIn' \in Nat /\ hwOut' \in BOOLEAN /\ hwCmd' \in BOOLEAN
        /\ open' \in BOOLEAN /\ gen' \in Nat
        /\ msgRearm' \in BOOLEAN /\ cmdRearm' \in BOOLEAN
    <3>1. /\ hwIn' = 0 /\ ~hwOut' /\ ~hwCmd' /\ ~open'
          /\ gen' = gen + 1 /\ ~msgRearm' /\ ~cmdRearm'
      OBVIOUS
    <3>2. /\ hwOut' \in BOOLEAN /\ hwCmd' \in BOOLEAN /\ open' \in BOOLEAN
          /\ msgRearm' \in BOOLEAN /\ cmdRearm' \in BOOLEAN
      BY Zenon
    <3> QED BY <3>1, <3>2 DEF TypeOK
  <2>4. UNCHANGED <<outBuf, received, sent, inBuf, upc, snap, batch, ring, got>>
    OBVIOUS
  <2> HIDE DEF DrvReset
  <2> QED BY <1>1, <2>1, <2>2, <2>3, <2>4 DEF TypeOK
<1>3. Interface'
  BY <1>1 DEF Interface
<1>4. InSide'
  BY <1>1 DEF InSide, Dones
<1>5. OutSide'
  BY <1>1 DEF OutSide, Dones
<1>6. NotForgotten'
  BY DEF NotForgotten, HostReady
<1> QED BY <1>1, <1>2, <1>3, <1>4, <1>5, <1>6

LEMMA DrvOpenStep ==
    ASSUME GlueInv, DrvOpen
    PROVE  GlueInv'
<1> USE DEF GlueInv
<1>1. /\ events' \in Seq(Events) /\ QueueInv'
      /\ Pending("open") /\ ~Pending("open")'
      /\ \A x : x # "open" => (Pending(x)' <=> Pending(x))
      /\ Arrived' <=> Arrived
  <2>1. /\ events # <<>> /\ events' = Tail(events)
        /\ Head(events)[1] = "open" /\ events \in Seq(Events)
    BY DEF DrvOpen, Takes, Consume, TypeOK
  <2> QED BY <2>1, Consumed DEF Dones
<1>0. ~open /\ \A x \in Dones : ~Pending(x)'
  BY <1>1 DEF Interface, Dones
<1> USE DEF DrvOpen, Takes, UsbFrame, inVars, outVars, taskVars, ringVars
<1>2. TypeOK'
  <2>1. pend' \in Seq(Nat) /\ inGen' \in Nat
    BY EmptySeq DEF TypeOK
  <2> QED BY <1>1, <2>1 DEF TypeOK
<1>3. Interface'
  BY <1>1 DEF Interface
<1>4. InSide'
  BY <1>1 DEF InSide
<1>5. OutSide'
  BY <1>0 DEF OutSide, Dones
<1>6. NotForgotten'
  BY DEF NotForgotten, HostReady
<1> QED BY <1>1, <1>2, <1>3, <1>4, <1>5, <1>6

LEMMA InDoneStep ==
    ASSUME GlueInv, InDone
    PROVE  GlueInv'
<1> USE DEF GlueInv
<1>1. /\ events' \in Seq(Events) /\ QueueInv'
      /\ Pending("inDone") /\ ~Pending("inDone")'
      /\ \A x : x # "inDone" => (Pending(x)' <=> Pending(x))
      /\ ~Arrived' /\ (Arrived <=> Arg = 1)
  <2>1. /\ events # <<>> /\ events' = Tail(events)
        /\ Head(events)[1] = "inDone" /\ events \in Seq(Events)
    BY DEF InDone, Takes, Consume, TypeOK
  <2> QED BY <2>1, Consumed DEF Dones
<1> HIDE DEF Arg
<1> USE DEF InDone, Takes, UsbFrame, outVars, taskVars, ringVars
<1>2. TypeOK'
  BY <1>1 DEF TypeOK, InStates
<1>3. Interface'
  BY <1>1 DEF Interface
<1>4. InSide'
  BY <1>1 DEF InSide
<1>5. OutSide'
  BY <1>1 DEF OutSide
<1>6. NotForgotten'
  BY <1>1 DEF NotForgotten, HostReady
<1> QED BY <1>1, <1>2, <1>3, <1>4, <1>5, <1>6

LEMMA OutDoneStep ==
    ASSUME GlueInv, OutDone
    PROVE  GlueInv'
<1> USE DEF GlueInv
<1>1. /\ events' \in Seq(Events) /\ QueueInv'
      /\ Pending("outDone") /\ ~Pending("outDone")'
      /\ \A x : x # "outDone" => (Pending(x)' <=> Pending(x))
      /\ Arrived' <=> Arrived
  <2>1. /\ events # <<>> /\ events' = Tail(events)
        /\ Head(events)[1] = "outDone" /\ events \in Seq(Events)
    BY DEF OutDone, Takes, Consume, TypeOK
  <2> QED BY <2>1, Consumed DEF Dones
<1>0. open /\ ~hwOut
  BY <1>1 DEF Interface, OutSide, Dones
<1> HIDE DEF Arg
<1> USE DEF OutDone, Takes, UsbFrame, inVars, taskVars, ringVars
<1>2. TypeOK'
  <2>1. lost' \subseteq Nat
    BY ElementsOf DEF TypeOK
  <2> QED BY <1>1, <2>1 DEF TypeOK
<1>3. Interface'
  BY <1>1 DEF Interface
<1>4. InSide'
  BY <1>1 DEF InSide
<1>5. OutSide'
  BY <1>0, <1>1 DEF OutSide
<1>6. NotForgotten'
  BY <1>1 DEF NotForgotten, HostReady
<1> QED BY <1>1, <1>2, <1>3, <1>4, <1>5, <1>6

LEMMA CmdDoneStep ==
    ASSUME GlueInv, CmdDone
    PROVE  GlueInv'
<1> USE DEF GlueInv
<1>1. /\ events' \in Seq(Events) /\ QueueInv'
      /\ Pending("cmdDone") /\ ~Pending("cmdDone")'
      /\ \A x : x # "cmdDone" => (Pending(x)' <=> Pending(x))
      /\ Arrived' <=> Arrived
  <2>1. /\ events # <<>> /\ events' = Tail(events)
        /\ Head(events)[1] = "cmdDone" /\ events \in Seq(Events)
    BY DEF CmdDone, Takes, Consume, TypeOK
  <2> QED BY <2>1, Consumed DEF Dones
<1>0. ~hwCmd /\ ~cmdRearm
  BY <1>1 DEF OutSide
<1> USE DEF CmdDone, Takes, UsbFrame, inVars, taskVars, ringVars
<1>2. TypeOK'
  BY <1>1 DEF TypeOK
<1>3. Interface'
  BY <1>1 DEF Interface
<1>4. InSide'
  BY <1>1 DEF InSide
<1>5. OutSide'
  BY <1>0, <1>1 DEF OutSide
<1>6. NotForgotten'
  BY <1>1 DEF NotForgotten, HostReady
<1> QED BY <1>1, <1>2, <1>3, <1>4, <1>5, <1>6

LEMMA MsgInStep ==
    ASSUME GlueInv, MsgIn
    PROVE  GlueInv'
<1> USE DEF GlueInv
<1>1. /\ events' \in Seq(Events) /\ QueueInv'
      /\ \A x : x # "msgIn" => (Pending(x)' <=> Pending(x))
      /\ Arrived' <=> Arrived
  <2>1. /\ events # <<>> /\ events' = Tail(events)
        /\ Head(events)[1] = "msgIn" /\ events \in Seq(Events)
    BY DEF MsgIn, Takes, Consume, TypeOK
  <2> QED BY <2>1, Consumed DEF Dones
<1>0. inState = "queued" => hwIn = 0 /\ ~Pending("inDone") /\ ~Arrived
  BY ArrivedPending DEF InSide, TypeOK
<1> HIDE DEF Arg
<1> USE DEF MsgIn, Takes, InBusy, UsbFrame, outVars, taskVars, ringVars
<1>2. TypeOK'
  BY <1>1 DEF TypeOK, InStates
<1>3. Interface'
  BY <1>1 DEF Interface, Dones
<1>4. InSide'
  BY <1>0, <1>1 DEF InSide
<1>5. OutSide'
  BY <1>1 DEF OutSide
<1>6. NotForgotten'
  BY <1>1 DEF NotForgotten, HostReady
<1> QED BY <1>1, <1>2, <1>3, <1>4, <1>5, <1>6

LEMMA MsgOutStep ==
    ASSUME GlueInv, MsgOut
    PROVE  GlueInv'
<1> USE DEF GlueInv
<1>1. /\ events' \in Seq(Events) /\ QueueInv'
      /\ \A x : x # "msgOut" => (Pending(x)' <=> Pending(x))
      /\ Arrived' <=> Arrived
  <2>1. /\ events # <<>> /\ events' = Tail(events)
        /\ Head(events)[1] = "msgOut" /\ events \in Seq(Events)
    BY DEF MsgOut, Takes, Consume, TypeOK
  <2> QED BY <2>1, Consumed DEF Dones
<1> HIDE DEF Arg
<1> USE DEF MsgOut, Takes, UsbFrame, inVars, outVars, taskVars, ringVars
<1>2. TypeOK'
  BY <1>1 DEF TypeOK
<1>3. Interface'
  BY <1>1 DEF Interface, Dones
<1>4. InSide'
  BY <1>1 DEF InSide
<1>5. OutSide'
  BY <1>1 DEF OutSide
<1>6. NotForgotten'
  BY <1>1 DEF NotForgotten, HostReady
<1> QED BY <1>1, <1>2, <1>3, <1>4, <1>5, <1>6

LEMMA PushOkStep ==
    ASSUME GlueInv, PushOk
    PROVE  GlueInv'
<1> USE DEF GlueInv
<1>1. /\ events' \in Seq(Events) /\ QueueInv'
      /\ \A x : Pending(x)' <=> Pending(x)
      /\ Arrived' <=> Arrived
  BY QueueKept DEF PushOk, InPush, TypeOK
<1> USE DEF PushOk, InPush, hwVars, inVars, taskVars
<1>0. /\ pend # <<>> /\ Head(pend) \in Nat /\ Tail(pend) \in Seq(Nat)
      /\ Append(ring, Head(pend)) \in Seq(Nat) /\ msgRearm
  BY HeadTailProperties, AppendProperties DEF OutSide, TypeOK
<1>2. TypeOK'
  BY <1>0, <1>1 DEF TypeOK
<1>3. Interface'
  BY <1>1 DEF Interface, Dones
<1>4. InSide'
  BY <1>1 DEF InSide
<1>5. OutSide'
  BY <1>0, <1>1 DEF OutSide
<1>6. NotForgotten'
  BY <1>1 DEF NotForgotten, HostReady
<1> QED BY <1>1, <1>2, <1>3, <1>4, <1>5, <1>6

LEMMA PushRefusedStep ==
    ASSUME GlueInv, PushRefused
    PROVE  GlueInv'
<1> USE DEF GlueInv
<1>1. /\ events' \in Seq(Events) /\ QueueInv'
      /\ \A x : Pending(x)' <=> Pending(x)
      /\ Arrived' <=> Arrived
  BY QueueKept DEF PushRefused, InPush, TypeOK
<1> USE DEF PushRefused, InPush, hwVars, inVars, taskVars
<1> USE DEF ringVars
<1>2. TypeOK'
  BY <1>1 DEF TypeOK
<1>3. Interface'
  BY <1>1 DEF Interface, Dones
<1>4. InSide'
  BY <1>1 DEF InSide
<1>5. OutSide'
  BY <1>1 DEF OutSide
<1>6. NotForgotten'
  BY <1>1 DEF NotForgotten, HostReady
<1> QED BY <1>1, <1>2, <1>3, <1>4, <1>5, <1>6

LEMMA ArmOutStep ==
    ASSUME GlueInv, ArmOut
    PROVE  GlueInv'
<1> USE DEF GlueInv
<1>1. /\ events' \in Seq(Events) /\ QueueInv'
      /\ \A x : Pending(x)' <=> Pending(x)
      /\ Arrived' <=> Arrived
  BY QueueKept DEF ArmOut, InPush, TypeOK
<1> USE DEF ArmOut, UsbFrame, inVars, taskVars, ringVars
<1>2. TypeOK'
  BY <1>1 DEF TypeOK
<1>3. Interface'
  BY <1>1 DEF Interface, Dones
<1>4. InSide'
  BY <1>1 DEF InSide
<1>5. OutSide'
  <2>1. CASE hwOut' = TRUE /\ msgRearm' = FALSE
    BY <1>1, <2>1 DEF OutSide
  <2>2. CASE UNCHANGED <<hwOut, msgRearm>>
    BY <1>1, <2>2 DEF OutSide
  <2> QED BY <2>1, <2>2
<1>6. NotForgotten'
  BY <1>1 DEF NotForgotten, HostReady
<1> QED BY <1>1, <1>2, <1>3, <1>4, <1>5, <1>6

LEMMA CmdOutStep ==
    ASSUME GlueInv, CmdOut
    PROVE  GlueInv'
<1> USE DEF GlueInv
<1>1. /\ events' \in Seq(Events) /\ QueueInv'
      /\ \A x : x # "cmdOut" => (Pending(x)' <=> Pending(x))
      /\ Arrived' <=> Arrived
  <2>1. /\ events # <<>> /\ events' = Tail(events)
        /\ Head(events)[1] = "cmdOut" /\ events \in Seq(Events)
    BY DEF CmdOut, Takes, Consume, TypeOK
  <2> QED BY <2>1, Consumed DEF Dones
<1> HIDE DEF Arg
<1> USE DEF CmdOut, Takes, UsbFrame, inVars, taskVars, ringVars
<1>2. TypeOK'
  BY <1>1 DEF TypeOK
<1>3. Interface'
  BY <1>1 DEF Interface, Dones
<1>4. InSide'
  BY <1>1 DEF InSide
<1>5. OutSide'
  BY <1>1 DEF OutSide
<1>6. NotForgotten'
  BY <1>1 DEF NotForgotten, HostReady
<1> QED BY <1>1, <1>2, <1>3, <1>4, <1>5, <1>6

-----------------------------------------------------------------------------
(* usb_tx_task and can_tx_task.                                            *)
LEMMA ServiceReadStep ==
    ASSUME GlueInv, ServiceRead
    PROVE  GlueInv'
<1> USE DEF GlueInv
<1>1. /\ events' \in Seq(Events) /\ QueueInv'
      /\ \A x : Pending(x)' <=> Pending(x)
      /\ Arrived' <=> Arrived
  BY QueueKept DEF ServiceRead, TypeOK
<1> USE DEF ServiceRead, TaskFrame, hwVars, inVars, outVars, ringVars
<1>2. TypeOK'
  <2>1. snap' \in [cmd : BOOLEAN, msg : BOOLEAN, gen : Nat]
    BY DEF TypeOK
  <2> QED BY <1>1, <2>1 DEF TypeOK
<1>3. Interface'
  BY <1>1 DEF Interface, Dones
<1>4. InSide'
  BY <1>1 DEF InSide
<1>5. OutSide'
  BY <1>1 DEF OutSide
<1>6. NotForgotten'
  BY <1>1 DEF NotForgotten, HostReady
<1> QED BY <1>1, <1>2, <1>3, <1>4, <1>5, <1>6

LEMMA ServiceCmdStep ==
    ASSUME GlueInv, ServiceCmd
    PROVE  GlueInv'
<1> USE DEF GlueInv
<1>1. /\ events' \in Seq(Events) /\ QueueInv'
      /\ \A x : x \notin Requests => (Pending(x)' <=> Pending(x))
      /\ Arrived' <=> Arrived
  <2>1. "cmdOut" \in Requests /\ snap.gen \in Nat /\ events \in Seq(Events)
    BY DEF Requests, TypeOK
  <2>2. CASE Defer("cmdOut", snap.gen)
    BY <2>1, <2>2, Deferred
  <2>3. CASE UNCHANGED events
    BY <2>1, <2>3, QueueKept
  <2> QED BY <2>2, <2>3 DEF ServiceCmd
<1> USE DEF ServiceCmd, TaskFrame, hwVars, inVars, outVars, ringVars, Requests
<1>2. TypeOK'
  BY <1>1 DEF TypeOK
<1>3. Interface'
  BY <1>1 DEF Interface, Dones
<1>4. InSide'
  BY <1>1 DEF InSide
<1>5. OutSide'
  BY <1>1 DEF OutSide
<1>6. NotForgotten'
  BY <1>1 DEF NotForgotten, HostReady
<1> QED BY <1>1, <1>2, <1>3, <1>4, <1>5, <1>6

LEMMA ServiceMsgStep ==
    ASSUME GlueInv, ServiceMsg
    PROVE  GlueInv'
<1> USE DEF GlueInv
<1>1. /\ events' \in Seq(Events) /\ QueueInv'
      /\ \A x : x \notin Requests => (Pending(x)' <=> Pending(x))
      /\ Arrived' <=> Arrived
  <2>1. "msgOut" \in Requests /\ snap.gen \in Nat /\ events \in Seq(Events)
    BY DEF Requests, TypeOK
  <2>2. CASE Defer("msgOut", snap.gen)
    BY <2>1, <2>2, Deferred
  <2>3. CASE UNCHANGED events
    BY <2>1, <2>3, QueueKept
  <2> QED BY <2>2, <2>3 DEF ServiceMsg
<1> USE DEF ServiceMsg, TaskFrame, hwVars, inVars, outVars, ringVars, Requests
<1>2. TypeOK'
  BY <1>1 DEF TypeOK
<1>3. Interface'
  BY <1>1 DEF Interface, Dones
<1>4. InSide'
  BY <1>1 DEF InSide
<1>5. OutSide'
  BY <1>1 DEF OutSide
<1>6. NotForgotten'
  BY <1>1 DEF NotForgotten, HostReady
<1> QED BY <1>1, <1>2, <1>3, <1>4, <1>5, <1>6

LEMMA SendDeferStep ==
    ASSUME GlueInv, SendDefer
    PROVE  GlueInv'
<1> USE DEF GlueInv
<1>1. /\ events' \in Seq(Events) /\ QueueInv'
      /\ \A x : x \notin Requests => (Pending(x)' <=> Pending(x))
      /\ Arrived' <=> Arrived
  <2>1. "msgIn" \in Requests /\ snap.gen \in Nat /\ events \in Seq(Events)
    BY DEF Requests, TypeOK
  <2>2. CASE Defer("msgIn", snap.gen)
    BY <2>1, <2>2, Deferred
  <2>3. CASE UNCHANGED events
    BY <2>1, <2>3, QueueKept
  <2> QED BY <2>2, <2>3 DEF SendDefer
<1> USE DEF SendDefer, TaskFrame, hwVars, inVars, outVars, ringVars, Requests
<1>2. TypeOK'
  BY <1>1 DEF TypeOK
<1>3. Interface'
  BY <1>1 DEF Interface, Dones
<1>4. InSide'
  BY <1>1 DEF InSide
<1>5. OutSide'
  BY <1>1 DEF OutSide
<1>6. NotForgotten'
  BY <1>1 DEF NotForgotten, HostReady
<1> QED BY <1>1, <1>2, <1>3, <1>4, <1>5, <1>6

LEMMA SendFinishedStep ==
    ASSUME GlueInv, SendFinished
    PROVE  GlueInv'
<1> USE DEF GlueInv
<1>1. /\ events' \in Seq(Events) /\ QueueInv'
      /\ \A x : Pending(x)' <=> Pending(x)
      /\ Arrived' <=> Arrived
  BY QueueKept DEF SendFinished, TypeOK
<1>0. ~Arrived
  BY ArrivedPending DEF SendFinished, InSide, TypeOK
<1> USE DEF SendFinished, TaskFrame, hwVars, inVars, outVars, ringVars
<1>2. TypeOK'
  BY <1>1 DEF TypeOK, InStates
<1>3. Interface'
  BY <1>1 DEF Interface, Dones
<1>4. InSide'
  BY <1>0, <1>1 DEF InSide, TypeOK
<1>5. OutSide'
  BY <1>1 DEF OutSide
<1>6. NotForgotten'
  BY <1>1 DEF NotForgotten, HostReady
<1> QED BY <1>1, <1>2, <1>3, <1>4, <1>5, <1>6

LEMMA SendSchedulesStep ==
    ASSUME GlueInv, SendSchedules
    PROVE  GlueInv'
<1> USE DEF GlueInv
<1>1. /\ events' \in Seq(Events) /\ QueueInv'
      /\ \A x : Pending(x)' <=> Pending(x)
      /\ Arrived' <=> Arrived
  BY QueueKept DEF SendSchedules, TypeOK
<1>0. inState \in {"idle", "retry"} /\ ~Arrived
  BY ArrivedPending DEF SendSchedules, InSide, TypeOK
<1> USE DEF SendSchedules, TaskFrame, hwVars, inVars, outVars, ringVars
<1>2. TypeOK'
  <2>1. snap' \in [cmd : BOOLEAN, msg : BOOLEAN, gen : Nat]
    BY DEF TypeOK
  <2> QED BY <1>1, <2>1 DEF TypeOK, InStates
<1>3. Interface'
  BY <1>1 DEF Interface, Dones
<1>4. InSide'
  BY <1>0, <1>1 DEF InSide, TypeOK
<1>5. OutSide'
  BY <1>1 DEF OutSide
<1>6. NotForgotten'
  BY <1>1 DEF NotForgotten, HostReady
<1> QED BY <1>1, <1>2, <1>3, <1>4, <1>5, <1>6

LEMMA SendWaitsStep ==
    ASSUME GlueInv, SendWaits
    PROVE  GlueInv'
<1> USE DEF GlueInv
<1>1. /\ events' \in Seq(Events) /\ QueueInv'
      /\ \A x : Pending(x)' <=> Pending(x)
      /\ Arrived' <=> Arrived
  BY QueueKept DEF SendWaits, TypeOK
<1> USE DEF SendWaits, TaskFrame, hwVars, inVars, outVars, ringVars
<1>2. TypeOK'
  BY <1>1 DEF TypeOK
<1>3. Interface'
  BY <1>1 DEF Interface, Dones
<1>4. InSide'
  BY <1>1 DEF InSide
<1>5. OutSide'
  BY <1>1 DEF OutSide
<1>6. NotForgotten'
  BY <1>1 DEF NotForgotten, HostReady
<1> QED BY <1>1, <1>2, <1>3, <1>4, <1>5, <1>6

LEMMA CanPopStep ==
    ASSUME GlueInv, CanPop
    PROVE  GlueInv'
<1> USE DEF GlueInv
<1>1. /\ events' \in Seq(Events) /\ QueueInv'
      /\ \A x : Pending(x)' <=> Pending(x)
      /\ Arrived' <=> Arrived
  BY QueueKept DEF CanPop, TypeOK
<1> USE DEF CanPop, hwVars, inVars, outVars, taskVars
<1>2. TypeOK'
  <2>1. Append(got, Head(ring)) \in Seq(Nat) /\ Tail(ring) \in Seq(Nat)
    BY HeadTailProperties, AppendProperties DEF TypeOK
  <2> QED BY <1>1, <2>1 DEF TypeOK
<1>3. Interface'
  BY <1>1 DEF Interface, Dones
<1>4. InSide'
  BY <1>1 DEF InSide
<1>5. OutSide'
  BY <1>1 DEF OutSide
<1>6. NotForgotten'
  BY <1>1 DEF NotForgotten, HostReady
<1> QED BY <1>1, <1>2, <1>3, <1>4, <1>5, <1>6

-----------------------------------------------------------------------------
THEOREM GlueInvHolds == Spec => []GlueInv
<1>1. Init => GlueInv
  <2> SUFFICES ASSUME Init PROVE GlueInv
    OBVIOUS
  <2>1. \A x : ~Pending(x)
    BY DEF Init, Pending
  <2>2. TypeOK
    <3>1. /\ <<>> \in Seq(Events) /\ <<>> \in Seq(Nat)
      BY EmptySeq
    <3>2. snap \in [cmd : BOOLEAN, msg : BOOLEAN, gen : Nat]
      BY DEF Init
    <3>3. /\ open \in BOOLEAN /\ hwOut \in BOOLEAN /\ hwCmd \in BOOLEAN
          /\ msgRearm \in BOOLEAN /\ cmdRearm \in BOOLEAN
      BY Zenon DEF Init
    <3>4. /\ hwIn \in Nat /\ sent \in Nat /\ gen \in Nat /\ inBuf \in Nat
          /\ inGen \in Nat /\ batch \in Nat \ {0} /\ lost \subseteq Nat
          /\ inState \in InStates /\ upc \in {"idle", "push", "arm"}
      BY DEF Init, InStates
    <3> QED BY <3>1, <3>2, <3>3, <3>4 DEF Init, TypeOK
  <2>3. QueueInv /\ Interface
    BY <2>1 DEF Init, QueueInv, Interface
  <2>4. InSide
    BY <2>1 DEF Init, InSide, Arrived
  <2>5. OutSide /\ NotForgotten
    BY <2>1 DEF Init, OutSide, NotForgotten, HostReady
  <2> QED BY <2>2, <2>3, <2>4, <2>5 DEF GlueInv
<1>2. GlueInv /\ [Next]_vars => GlueInv'
  <2> SUFFICES ASSUME GlueInv, [Next]_vars PROVE GlueInv'
    OBVIOUS
  <2>1. CASE UNCHANGED vars
    <3>1. /\ events' \in Seq(Events) /\ QueueInv'
          /\ \A x : Pending(x)' <=> Pending(x)
          /\ Arrived' <=> Arrived
      BY <2>1, QueueKept DEF GlueInv, TypeOK, vars
    <3> USE <2>1 DEF GlueInv, vars, hwVars, inVars, outVars, taskVars, ringVars
    <3>2. TypeOK'
      BY <3>1 DEF TypeOK
    <3>3. Interface' /\ InSide'
      BY <3>1 DEF Interface, InSide, Dones
    <3>4. OutSide' /\ NotForgotten'
      BY <3>1 DEF OutSide, NotForgotten, HostReady
    <3> QED BY <3>1, <3>2, <3>3, <3>4
  <2>2. CASE Host
    BY <2>2, BusResetStep, ConfigureStep, HostReceivesStep, TransferFailsStep,
       HostSendsStep, HostCommandsStep DEF Host
  <2>3. CASE Usb
    BY <2>3, DrvResetStep, DrvOpenStep, InDoneStep, OutDoneStep, CmdDoneStep,
       MsgInStep, MsgOutStep, PushOkStep, PushRefusedStep, ArmOutStep,
       CmdOutStep DEF Usb
  <2>4. CASE UsbTx
    BY <2>4, ServiceReadStep, ServiceCmdStep, ServiceMsgStep, SendFinishedStep,
       SendSchedulesStep, SendWaitsStep, SendDeferStep DEF UsbTx
  <2> QED BY <2>1, <2>2, <2>3, <2>4, CanPopStep DEF Next
<1> QED BY <1>1, <1>2, PTL DEF Spec

(* The host receives every batch once and in order, and the batch that     *)
(* usb_tx_task presents is released only after it arrived: the states of   *)
(* s_msg_in_state, through pcan_drv_reset, xfer_cb and the deferred submit *)
(* of usb_glue_send_msg_batch.                                             *)
THEOREM EveryBatchOnce == Spec => []BatchesOnce
<1>1. GlueInv => BatchesOnce
  BY DEF GlueInv, TypeOK, InSide, BatchesOnce
<1> QED BY <1>1, GlueInvHolds, PTL

(* The controller alone uses s_msg_in while it is submitted, and s_msg_out *)
(* is never rearmed, nor its frames overwritten, before all of them are in *)
(* tx_ring: the "unreachable" branch of xfer_cb (usb_glue.c:213-218).      *)
THEOREM BuffersNotShared == Spec => []BuffersOwned
<1>1. GlueInv => BuffersOwned
  BY DEF GlueInv, InSide, OutSide, BuffersOwned
<1> QED BY <1>1, GlueInvHolds, PTL

(* While the interface is open each OUT endpoint is armed, its transfer is *)
(* being handled, or it is flagged for usb_glue_service, whatever submits  *)
(* are refused and whatever requests usbd_defer_func drops.                *)
THEOREM EndpointsNotForgotten == Spec => []NotForgotten
<1>1. GlueInv => NotForgotten
  BY DEF GlueInv
<1> QED BY <1>1, GlueInvHolds, PTL

-----------------------------------------------------------------------------
(* Where the frames are.                                                   *)
Path == got \o ring \o pend \o Arriving

Accounted(p, l, n) ==
    /\ \A i, j \in 1..Len(p) : i < j => p[i] < p[j]
    /\ \A i \in 1..Len(p) : p[i] \in 1..n /\ p[i] \notin l
    /\ l \subseteq 1..n
    /\ \A x \in 1..n : x \in l \/ \E i \in 1..Len(p) : p[i] = x

\* A transfer that failed, or had no data, left no frames in s_msg_out.
FailedIsEmpty ==
    \A i \in 1..Len(events) :
       events[i][1] = "outDone" /\ events[i][2] # 1 => outBuf = <<>>

FrameInv == FailedIsEmpty /\ Accounted(Path, lost, sent)

LEMMA ElementsAre ==
    ASSUME NEW p \in Seq(Nat)
    PROVE  \A x : x \in Elements(p) <=> \E i \in 1..Len(p) : p[i] = x
<1>1. DOMAIN p = 1..Len(p)
  OBVIOUS
<1> QED BY <1>1, Zenon DEF Elements

LEMMA AccountedIs ==
    ASSUME NEW p \in Seq(Nat), NEW l, NEW n \in Nat, Accounted(p, l, n)
    PROVE  /\ \A i, j \in DOMAIN p : i < j => p[i] < p[j]
           /\ Elements(p) \cup l = 1..n
           /\ Elements(p) \cap l = {}
<1>1. DOMAIN p = 1..Len(p)
  OBVIOUS
<1>2. \A x : x \in Elements(p) <=> \E i \in 1..Len(p) : p[i] = x
  BY ElementsAre
<1> HIDE DEF Elements
<1>3. \A x : x \in Elements(p) => x \in 1..n /\ x \notin l
  BY <1>2 DEF Accounted
<1>4. \A x \in 1..n : x \in l \/ x \in Elements(p)
  BY <1>2 DEF Accounted
<1>5. l \subseteq 1..n
  BY DEF Accounted
<1>6. Elements(p) \cup l = 1..n /\ Elements(p) \cap l = {}
  BY <1>3, <1>4, <1>5
<1> QED BY <1>1, <1>6 DEF Accounted

\* The head of the second sequence moves to the end of the first.
LEMMA Moved ==
    ASSUME NEW a \in Seq(Nat), NEW b \in Seq(Nat), b # <<>>
    PROVE  Append(a, Head(b)) \o Tail(b) = a \o b
<1>1. /\ Head(b) \in Nat /\ Tail(b) \in Seq(Nat) /\ Head(b) = b[1]
      /\ Len(Tail(b)) = Len(b) - 1 /\ Len(b) \in Nat \ {0} /\ Len(a) \in Nat
      /\ \A i \in 1..Len(b) - 1 : Tail(b)[i] = b[i + 1]
  BY HeadTailProperties, EmptySeq
<1> DEFINE c == Append(a, Head(b))
<1>2. /\ c \in Seq(Nat) /\ Len(c) = Len(a) + 1
      /\ \A i \in 1..Len(a) : c[i] = a[i]
      /\ c[Len(a) + 1] = Head(b)
  BY <1>1, AppendProperties
<1> HIDE DEF c
<1>3. /\ c \o Tail(b) \in Seq(Nat) /\ Len(c \o Tail(b)) = Len(a) + Len(b)
      /\ \A i \in 1..Len(a) + Len(b) :
            (c \o Tail(b))[i] = IF i <= Len(a) + 1 THEN c[i]
                                ELSE Tail(b)[i - (Len(a) + 1)]
  <2>1. Len(c) + Len(Tail(b)) = Len(a) + Len(b)
    BY <1>1, <1>2
  <2>2. /\ c \o Tail(b) \in Seq(Nat) /\ Len(c \o Tail(b)) = Len(c) + Len(Tail(b))
        /\ \A i \in 1..Len(c) + Len(Tail(b)) :
              (c \o Tail(b))[i] = IF i <= Len(c) THEN c[i]
                                  ELSE Tail(b)[i - Len(c)]
    BY <1>1, <1>2, ConcatProperties
  <2> QED BY <1>2, <2>1, <2>2
<1>4. /\ a \o b \in Seq(Nat) /\ Len(a \o b) = Len(a) + Len(b)
      /\ \A i \in 1..Len(a) + Len(b) :
            (a \o b)[i] = IF i <= Len(a) THEN a[i] ELSE b[i - Len(a)]
  BY ConcatProperties
<1>5. ASSUME NEW i \in 1..Len(a) + Len(b)
      PROVE  (c \o Tail(b))[i] = (a \o b)[i]
  <2>1. CASE i <= Len(a)
    BY <1>1, <1>2, <1>3, <1>4, <2>1
  <2>2. CASE i = Len(a) + 1
    BY <1>1, <1>2, <1>3, <1>4, <2>2
  <2>3. CASE i > Len(a) + 1
    <3>1. (c \o Tail(b))[i] = Tail(b)[i - (Len(a) + 1)]
      BY <1>1, <1>3, <2>3
    <3>2. i - (Len(a) + 1) \in 1..Len(b) - 1
      BY <1>1, <2>3
    <3>3. Tail(b)[i - (Len(a) + 1)] = b[i - (Len(a) + 1) + 1]
      BY <1>1, <3>2
    <3>4. (a \o b)[i] = b[i - Len(a)]
      BY <1>1, <1>4, <2>3
    <3>5. i - (Len(a) + 1) + 1 = i - Len(a)
      BY <1>1
    <3> QED BY <3>1, <3>3, <3>4, <3>5
  <2>4. i <= Len(a) \/ i = Len(a) + 1 \/ i > Len(a) + 1
    BY <1>1
  <2> QED BY <2>1, <2>2, <2>3, <2>4
<1>6. c \o Tail(b) = a \o b
  BY <1>3, <1>4, <1>5, SeqEqual
<1> QED BY <1>6 DEF c

\* The numbers after n, in their order, come behind.
LEMMA Grown ==
    ASSUME NEW p \in Seq(Nat), NEW l, NEW n \in Nat, NEW m \in Nat,
           Accounted(p, l, n)
    PROVE  Accounted(p \o [i \in 1..m |-> n + i], l, n + m)
<1> DEFINE b == [i \in 1..m |-> n + i]
           q == p \o b
           k == Len(p)
<1>1. b \in Seq(Nat) /\ Len(b) = m /\ \A i \in 1..m : b[i] = n + i
  OBVIOUS
<1>2. k \in Nat
  OBVIOUS
<1> HIDE DEF b
<1>3. /\ q \in Seq(Nat) /\ Len(q) = k + m
      /\ \A i \in 1..k + m : q[i] = IF i <= k THEN p[i] ELSE b[i - k]
  BY <1>1, ConcatProperties
<1> HIDE DEF q
<1>4. /\ \A i, j \in 1..k : i < j => p[i] < p[j]
      /\ \A i \in 1..k : p[i] \in 1..n /\ p[i] \notin l
      /\ l \subseteq 1..n
      /\ \A x \in 1..n : x \in l \/ \E i \in 1..k : p[i] = x
  BY DEF Accounted
<1> HIDE DEF k
<1>5. /\ \A i \in 1..k : i \in 1..k + m /\ q[i] = p[i]
      /\ \A i \in 1..m : k + i \in 1..k + m /\ q[k + i] = n + i
      /\ \A i \in 1..k + m : i \in 1..k \/ (i - k \in 1..m /\ i = k + (i - k))
  BY <1>1, <1>2, <1>3
<1>6. ASSUME NEW i \in 1..k + m, NEW j \in 1..k + m, i < j
      PROVE  q[i] < q[j]
  <2>1. CASE j \in 1..k
    BY <1>2, <1>4, <1>5, <1>6, <2>1
  <2>2. CASE i \in 1..k /\ j \notin 1..k
    <3>1. q[j] = q[k + (j - k)] /\ j - k \in 1..m
      BY <1>2, <1>5, <2>2
    <3>2. q[j] = n + (j - k)
      BY <1>5, <3>1
    <3>3. q[i] \in 1..n
      BY <1>4, <1>5, <2>2
    <3> QED BY <3>1, <3>2, <3>3
  <2>3. CASE i \notin 1..k /\ j \notin 1..k
    <3>1. q[j] = n + (j - k) /\ q[i] = n + (i - k)
      BY <1>2, <1>5, <2>3
    <3> QED BY <1>2, <1>6, <3>1
  <2>4. j \in 1..k => i \in 1..k
    BY <1>2, <1>6
  <2> QED BY <2>1, <2>2, <2>3, <2>4
<1>7. ASSUME NEW i \in 1..k + m PROVE q[i] \in 1..n + m /\ q[i] \notin l
  <2>1. CASE i \in 1..k
    BY <1>4, <1>5, <2>1
  <2>2. CASE i \notin 1..k
    <3>1. q[i] = n + (i - k) /\ i - k \in 1..m
      BY <1>2, <1>5, <2>2
    <3> QED BY <1>2, <1>4, <3>1
  <2> QED BY <2>1, <2>2
<1>8. ASSUME NEW x \in 1..n + m, x \notin l
      PROVE  \E i \in 1..k + m : q[i] = x
  <2>1. CASE x \in 1..n
    BY <1>4, <1>5, <1>8, <2>1
  <2>2. CASE x \notin 1..n
    <3>1. x - n \in 1..m /\ x = n + (x - n)
      BY <2>2
    <3> QED BY <1>5, <3>1
  <2> QED BY <2>1, <2>2
<1>9. l \subseteq 1..n + m
  BY <1>4
<1>10. Accounted(q, l, n + m)
  BY <1>3, <1>6, <1>7, <1>8, <1>9 DEF Accounted
<1> QED BY <1>10 DEF q, b

\* The end of the path is counted as lost.
LEMMA Cut ==
    ASSUME NEW p \in Seq(Nat), NEW e \in Seq(Nat), NEW l, NEW n \in Nat,
           Accounted(p \o e, l, n)
    PROVE  Accounted(p, l \cup Elements(e), n)
<1> DEFINE q == p \o e
           k == Len(p)
           m == Len(e)
           lst == l \cup Elements(e)
<1>1. /\ k \in Nat /\ m \in Nat /\ Len(q) = k + m
      /\ \A i \in 1..k + m : q[i] = IF i <= k THEN p[i] ELSE e[i - k]
  BY ConcatProperties
<1>2. \A x : x \in Elements(e) <=> \E i \in 1..m : e[i] = x
  BY ElementsAre
<1> HIDE DEF q, k, m, Elements
<1>3. /\ \A i, j \in 1..k + m : i < j => q[i] < q[j]
      /\ \A i \in 1..k + m : q[i] \in 1..n /\ q[i] \notin l
      /\ l \subseteq 1..n
      /\ \A x \in 1..n : x \in l \/ \E i \in 1..k + m : q[i] = x
  BY <1>1 DEF Accounted, q
<1>4. /\ \A i \in 1..k : i \in 1..k + m /\ q[i] = p[i]
      /\ \A i \in 1..m : k + i \in 1..k + m /\ k + i > k /\ q[k + i] = e[i]
      /\ \A i \in 1..k + m : i \in 1..k \/ (i - k \in 1..m /\ q[i] = e[i - k])
  BY <1>1
<1>5. \A i, j \in 1..k : i < j => p[i] < p[j]
  BY <1>3, <1>4
<1>6. ASSUME NEW i \in 1..k PROVE p[i] \in 1..n /\ p[i] \notin lst
  <2>1. ASSUME NEW j \in 1..m, e[j] = p[i] PROVE FALSE
    <3>1. q[i] < q[k + j]
      BY <1>1, <1>3, <1>4
    <3> QED BY <1>3, <1>4, <2>1, <3>1
  <2> QED BY <1>2, <1>3, <1>4, <2>1
<1>7. lst \subseteq 1..n
  <2>1. ASSUME NEW x \in Elements(e) PROVE x \in 1..n
    <3>1. PICK i \in 1..m : e[i] = x
      BY <1>2
    <3> QED BY <1>3, <1>4, <3>1
  <2> QED BY <1>3, <2>1
<1>8. ASSUME NEW x \in 1..n, x \notin lst
      PROVE  \E i \in 1..k : p[i] = x
  <2>1. PICK i \in 1..k + m : q[i] = x
    BY <1>3, <1>8
  <2>2. i \in 1..k
    BY <1>2, <1>4, <1>8, <2>1
  <2> QED BY <1>4, <2>1, <2>2
<1>9. Accounted(p, lst, n)
  BY <1>5, <1>6, <1>7, <1>8 DEF Accounted, k
<1> QED BY <1>9

\* A step that raises or consumes anything but a transfer on EP2 OUT.
LEMMA OtherEvents ==
    ASSUME events \in Seq(Events), FailedIsEmpty, outBuf' = outBuf,
           \/ events' = events
           \/ \E k \in Kinds, a \in Nat :
                 k # "outDone" /\ events' = Append(events, <<k, a>>)
           \/ /\ events # <<>> /\ Head(events)[1] # "outDone"
              /\ events' = Tail(events)
    PROVE  FailedIsEmpty' /\ Arriving' = Arriving
<1> DEFINE n == Len(events)
<1>0. n \in Nat
  OBVIOUS
<1>1. CASE events' = events
  <2>1. Pending("outDone")' <=> Pending("outDone")
    BY <1>1, PendingIs, PendingIsPrime
  <2> QED BY <1>1, <2>1 DEF FailedIsEmpty, Arriving
<1>2. ASSUME NEW k \in Kinds, NEW a \in Nat, k # "outDone",
             events' = Append(events, <<k, a>>)
      PROVE  FailedIsEmpty' /\ Arriving' = Arriving
  <2>1. <<k, a>> \in Events
    BY DEF Events
  <2>2. /\ events' \in Seq(Events) /\ Len(events') = n + 1
        /\ \A i \in 1..n : events'[i] = events[i]
        /\ events'[n + 1][1] # "outDone"
    BY <1>2, <2>1, AppendProperties
  <2>3. Pending("outDone") <=> \E i \in 1..n : events[i][1] = "outDone"
    BY PendingIs
  <2>4. Pending("outDone")' <=> \E i \in 1..n + 1 : events'[i][1] = "outDone"
    BY <2>2, PendingIsPrime
  <2>5. Pending("outDone")' <=> Pending("outDone")
    BY <1>0, <2>2, <2>3, <2>4
  <2>6. FailedIsEmpty'
    BY <1>0, <2>2 DEF FailedIsEmpty
  <2> QED BY <2>5, <2>6 DEF Arriving
<1>3. CASE events # <<>> /\ Head(events)[1] # "outDone" /\ events' = Tail(events)
  <2>1. /\ n \in Nat \ {0} /\ Head(events) = events[1]
        /\ events' \in Seq(Events) /\ Len(events') = n - 1
        /\ \A i \in 1..n - 1 : events'[i] = events[i + 1]
    BY <1>3, HeadTailProperties, EmptySeq
  <2>2. Pending("outDone") <=> \E i \in 1..n : events[i][1] = "outDone"
    BY PendingIs
  <2>3. Pending("outDone")' <=> \E i \in 1..n - 1 : events'[i][1] = "outDone"
    BY <2>1, PendingIsPrime
  <2>4. ASSUME NEW i \in 1..n, events[i][1] = "outDone"
        PROVE  i - 1 \in 1..n - 1 /\ events'[i - 1] = events[i]
    <3>1. i # 1
      BY <1>3, <2>1, <2>4
    <3> QED BY <2>1, <3>1
  <2>5. \A i \in 1..n - 1 : i + 1 \in 1..n /\ events'[i] = events[i + 1]
    BY <2>1
  <2>6. Pending("outDone")' <=> Pending("outDone")
    BY <2>2, <2>3, <2>4, <2>5
  <2>7. FailedIsEmpty'
    BY <2>1, <2>5 DEF FailedIsEmpty
  <2> QED BY <2>6, <2>7 DEF Arriving
<1> QED BY <1>1, <1>2, <1>3

LEMMA Regrouped ==
    ASSUME NEW a \in Seq(Nat), NEW b \in Seq(Nat), NEW c \in Seq(Nat)
    PROVE  (a \o b) \o c = a \o (b \o c)
BY ConcatAssociative

LEMMA PathIs ==
    ASSUME TypeOK
    PROVE  /\ Arriving \in Seq(Nat) /\ got \o ring \in Seq(Nat)
           /\ got \o ring \o pend \in Seq(Nat) /\ Path \in Seq(Nat)
<1>1. Arriving \in Seq(Nat)
  BY EmptySeq DEF TypeOK, Arriving
<1>2. got \o ring \in Seq(Nat)
  BY ConcatProperties DEF TypeOK
<1>3. got \o ring \o pend \in Seq(Nat)
  BY <1>2, ConcatProperties DEF TypeOK
<1>4. Path \in Seq(Nat)
  BY <1>1, <1>3, ConcatProperties DEF Path
<1> QED BY <1>1, <1>2, <1>3, <1>4

\* The frames stay where they are.
LEMMA FramesStay ==
    ASSUME TypeOK, FrameInv, UNCHANGED <<outBuf, got, ring, pend, lost, sent>>,
           \/ events' = events
           \/ \E k \in Kinds, a \in Nat :
                 k # "outDone" /\ events' = Append(events, <<k, a>>)
           \/ /\ events # <<>> /\ Head(events)[1] # "outDone"
              /\ events' = Tail(events)
    PROVE  FrameInv'
<1>1. FailedIsEmpty' /\ Arriving' = Arriving
  BY OtherEvents DEF TypeOK, FrameInv
<1>2. Path' = Path
  BY <1>1 DEF Path
<1> QED BY <1>1, <1>2 DEF FrameInv, Accounted

LEMMA HostFrames ==
    ASSUME GlueInv, FrameInv, Host
    PROVE  FrameInv'
<1> USE DEF GlueInv
<1>1. CASE BusReset \/ Configure \/ HostReceives \/ TransferFails \/ HostCommands
  <2>1. UNCHANGED <<outBuf, got, ring, pend, lost, sent>>
    BY <1>1 DEF BusReset, Configure, HostReceives, TransferFails, HostCommands,
       HostFrame, hwVars, outVars, ringVars
  <2>2. \E k \in Kinds, a \in Nat :
           k # "outDone" /\ events' = Append(events, <<k, a>>)
    BY <1>1 DEF BusReset, Configure, HostReceives, TransferFails, HostCommands,
       Raises, Kinds
  <2> QED BY <2>1, <2>2, FramesStay
<1>2. CASE HostSends
  <2>1. PICK n \in 0..BatchFrames, success \in 0..1 :
           /\ success = 0 => n = 0
           /\ outBuf' = [i \in 1..n |-> sent + i]
           /\ sent' = sent + n
           /\ events' = Append(events, <<"outDone", success>>)
    BY <1>2 DEF HostSends, Raises
  <2>2. /\ success \in Nat /\ n \in Nat /\ sent \in Nat
        /\ UNCHANGED <<got, ring, pend, lost>>
    <3>1. UNCHANGED <<got, ring, pend, lost>>
      BY <1>2 DEF HostSends, HostFrame, outVars, ringVars
    <3>2. success \in Nat /\ n \in Nat /\ sent \in Nat
      BY UsbGlueAssumption DEF UsbGlueAssumption, TypeOK
    <3> QED BY <3>1, <3>2
  <2>3. ~Pending("outDone") /\ pend = <<>>
    BY <1>2 DEF HostSends, OutSide, HostReady
  <2> DEFINE k == Len(events)
  <2>4. <<"outDone", success>> \in Events /\ events \in Seq(Events)
    BY <2>2 DEF Events, Kinds, TypeOK
  <2>5. /\ events' \in Seq(Events) /\ Len(events') = k + 1 /\ k \in Nat
        /\ \A i \in 1..k : events'[i] = events[i]
        /\ events'[k + 1] = <<"outDone", success>>
    BY <2>1, <2>4, AppendProperties
  <2>6. \A i \in 1..k : events'[i][1] # "outDone"
    BY <2>3, <2>4, <2>5, PendingIs
  <2>7. Pending("outDone")'
    BY <2>5, PendingIsPrime
  <2>8. FailedIsEmpty'
    <3>1. success # 1 => outBuf' = <<>>
      BY <2>1
    <3> QED BY <2>5, <2>6, <3>1 DEF FailedIsEmpty
  <2>9. Path' = Path \o [i \in 1..n |-> sent + i]
    <3>1. Path = got \o ring \o pend
      <4>1. Arriving = <<>>
        BY <2>3 DEF Arriving
      <4> QED BY <4>1, PathIs, ConcatEmptySeq DEF Path
    <3>2. Arriving' = [i \in 1..n |-> sent + i]
      BY <2>1, <2>7 DEF Arriving
    <3> QED BY <2>2, <3>1, <3>2 DEF Path
  <2>10. Accounted(Path', lost', sent')
    <3>1. Accounted(Path, lost, sent)
      BY DEF FrameInv
    <3>2. Accounted(Path \o [i \in 1..n |-> sent + i], lost, sent + n)
      BY <2>2, <3>1, PathIs, Grown
    <3> QED BY <2>1, <2>2, <2>9, <3>2
  <2> QED BY <2>8, <2>10 DEF FrameInv, Accounted
<1> QED BY <1>1, <1>2 DEF Host

LEMMA UsbFrames ==
    ASSUME GlueInv, FrameInv, Usb
    PROVE  FrameInv'
<1> USE DEF GlueInv
<1>1. CASE InDone \/ CmdDone \/ MsgIn \/ MsgOut \/ CmdOut
  <2>1. UNCHANGED <<outBuf, got, ring, pend, lost, sent>>
    BY <1>1 DEF InDone, CmdDone, MsgIn, MsgOut, CmdOut, UsbFrame, outVars, ringVars
  <2>2. /\ events # <<>> /\ Head(events)[1] # "outDone"
        /\ events' = Tail(events)
    BY <1>1 DEF InDone, CmdDone, MsgIn, MsgOut, CmdOut, Takes, Consume
  <2> QED BY <2>1, <2>2, FramesStay
<1>2. CASE PushRefused \/ ArmOut
  <2>1. UNCHANGED <<outBuf, got, ring, pend, lost, sent>> /\ events' = events
    BY <1>2 DEF PushRefused, InPush, ArmOut, UsbFrame, hwVars, ringVars
  <2> QED BY <2>1, FramesStay
<1>3. CASE DrvOpen
  <2>1. /\ events # <<>> /\ Head(events)[1] = "open" /\ events' = Tail(events)
        /\ events \in Seq(Events)
    BY <1>3 DEF DrvOpen, Takes, Consume, TypeOK
  <2>2. Pending("open")
    BY <2>1, Consumed
  <2>3. pend = <<>>
    BY <2>2 DEF Interface, OutSide
  <2>4. UNCHANGED <<outBuf, got, ring, pend, lost, sent>>
    BY <1>3, <2>3 DEF DrvOpen, UsbFrame, ringVars
  <2> QED BY <2>1, <2>4, FramesStay
<1>4. CASE DrvReset
  <2>1. /\ events # <<>> /\ Head(events)[1] = "reset" /\ events' = Tail(events)
        /\ events \in Seq(Events)
    BY <1>4 DEF DrvReset, Takes, Consume, TypeOK
  <2>2. ~Pending("outDone")'
    BY <2>1, Consumed DEF Dones
  <2>3. Pending("outDone")' <=> Pending("outDone")
    BY <2>1, Consumed
  <2>4. /\ UNCHANGED <<outBuf, got, ring, sent>> /\ pend' = <<>>
        /\ lost' = lost \cup Elements(pend)
    BY <1>4 DEF DrvReset, UsbFrame, ringVars
  <2>5. FailedIsEmpty'
    BY <2>1, <2>4, OtherEvents DEF FrameInv
  <2>6. Path = (got \o ring) \o pend
    <3>1. Arriving = <<>>
      BY <2>2, <2>3 DEF Arriving
    <3> QED BY <3>1, PathIs, ConcatEmptySeq DEF Path
  <2>7. Path' = got \o ring
    <3>1. Arriving' = <<>>
      BY <2>2 DEF Arriving
    <3> QED BY <2>4, <3>1, PathIs, ConcatEmptySeq DEF Path
  <2>8. Accounted(got \o ring, lost \cup Elements(pend), sent)
    BY <2>6, PathIs, Cut DEF FrameInv, TypeOK
  <2> QED BY <2>4, <2>5, <2>7, <2>8 DEF FrameInv, Accounted
<1>5. CASE OutDone
  <2>1. /\ events # <<>> /\ Head(events)[1] = "outDone" /\ events' = Tail(events)
        /\ events \in Seq(Events)
    BY <1>5 DEF OutDone, Takes, Consume, TypeOK
  <2>2. Pending("outDone") /\ ~Pending("outDone")'
    BY <2>1, Consumed DEF Dones
  <2>3. pend = <<>>
    BY <2>2 DEF OutSide
  <2>4. Arg # 1 => outBuf = <<>>
    <3>1. Head(events) = events[1] /\ Len(events) \in Nat \ {0}
      BY <2>1, EmptySeq
    <3> QED BY <2>1, <3>1 DEF FrameInv, FailedIsEmpty, Arg
  <2>5. /\ UNCHANGED <<outBuf, got, ring, sent>>
        /\ pend' = outBuf /\ lost' = lost
    <3>1. Elements(<<>>) = {}
      BY DEF Elements
    <3> QED BY <1>5, <2>3, <2>4, <3>1 DEF OutDone, UsbFrame, ringVars
  <2>6. FailedIsEmpty'
    <3>1. /\ events' \in Seq(Events)
          /\ \A i \in 1..Len(events') : events'[i][1] # "outDone"
      <4>1. events' \in Seq(Events)
        BY <2>1, HeadTailProperties
      <4> QED BY <2>2, <4>1, PendingIsPrime
    <3> QED BY <3>1 DEF FailedIsEmpty
  <2>7. Path' = Path
    <3>1. Arriving = outBuf /\ Arriving' = <<>>
      BY <2>2 DEF Arriving
    <3>2. Path = got \o ring \o outBuf
      BY <2>3, <3>1, PathIs, ConcatEmptySeq DEF Path
    <3>3. got \o ring \o outBuf \in Seq(Nat)
      BY PathIs, ConcatProperties DEF TypeOK
    <3>4. Path' = (got \o ring \o outBuf) \o <<>>
      BY <2>5, <3>1 DEF Path
    <3> QED BY <3>2, <3>3, <3>4, ConcatEmptySeq
  <2> QED BY <2>5, <2>6, <2>7 DEF FrameInv, Accounted
<1>6. CASE PushOk
  <2>1. /\ UNCHANGED <<events, outBuf, got, lost, sent>>
        /\ ring' = Append(ring, Head(pend)) /\ pend' = Tail(pend)
        /\ pend # <<>>
    BY <1>6 DEF PushOk, InPush, OutSide, hwVars
  <2>2. FailedIsEmpty' /\ Arriving' = Arriving
    BY <2>1, OtherEvents DEF TypeOK, FrameInv
  <2>3. got' \o ring' \o pend' = got \o ring \o pend
    <3>1. /\ got \in Seq(Nat) /\ ring \in Seq(Nat) /\ pend \in Seq(Nat)
          /\ Tail(pend) \in Seq(Nat) /\ Append(ring, Head(pend)) \in Seq(Nat)
      BY <2>1, HeadTailProperties, AppendProperties DEF TypeOK
    <3>2. (got \o Append(ring, Head(pend))) \o Tail(pend)
             = got \o (Append(ring, Head(pend)) \o Tail(pend))
      BY <3>1, Regrouped
    <3>3. Append(ring, Head(pend)) \o Tail(pend) = ring \o pend
      BY <2>1, <3>1, Moved
    <3>4. (got \o ring) \o pend = got \o (ring \o pend)
      BY <3>1, Regrouped
    <3> QED BY <2>1, <3>2, <3>3, <3>4
  <2>4. Path' = Path
    BY <2>2, <2>3 DEF Path
  <2> QED BY <2>1, <2>2, <2>4 DEF FrameInv, Accounted
<1> QED BY <1>1, <1>2, <1>3, <1>4, <1>5, <1>6 DEF Usb

LEMMA UsbTxFrames ==
    ASSUME GlueInv, FrameInv, UsbTx
    PROVE  FrameInv'
<1> USE DEF GlueInv
<1>1. UNCHANGED <<outBuf, got, ring, pend, lost, sent>>
  BY DEF UsbTx, ServiceRead, ServiceCmd, ServiceMsg, SendFinished, SendSchedules,
     SendWaits, SendDefer, TaskFrame, hwVars, outVars, ringVars
<1>2. \/ events' = events
      \/ \E k \in Requests : Defer(k, snap.gen)
  BY DEF UsbTx, ServiceRead, ServiceCmd, ServiceMsg, SendFinished, SendSchedules,
     SendWaits, SendDefer, Requests
<1>3. \/ events' = events
      \/ \E k \in Kinds, a \in Nat :
            k # "outDone" /\ events' = Append(events, <<k, a>>)
  <2>1. snap.gen \in Nat /\ \A k \in Requests : k \in Kinds /\ k # "outDone"
    BY DEF TypeOK, Requests, Kinds
  <2> QED BY <1>2, <2>1 DEF Defer
<1> QED BY <1>1, <1>3, FramesStay

LEMMA CanPopFrames ==
    ASSUME GlueInv, FrameInv, CanPop
    PROVE  FrameInv'
<1> USE DEF GlueInv
<1>1. /\ UNCHANGED <<events, outBuf, pend, lost, sent>>
      /\ got' = Append(got, Head(ring)) /\ ring' = Tail(ring) /\ ring # <<>>
  BY DEF CanPop, hwVars, outVars
<1>2. FailedIsEmpty' /\ Arriving' = Arriving
  BY <1>1, OtherEvents DEF TypeOK, FrameInv
<1>3. got' \o ring' = got \o ring
  BY <1>1, Moved DEF TypeOK
<1>4. Path' = Path
  BY <1>1, <1>2, <1>3 DEF Path
<1> QED BY <1>1, <1>2, <1>4 DEF FrameInv, Accounted

(* A frame the host wrote is in exactly one place, in its order: s_msg_out *)
(* after its transfer, tx_ring, the CAN side, or tx_pending_reset_drops.   *)
THEOREM FramesNotLost == Spec => []FramesAccounted
<1>1. Init => FrameInv
  <2> SUFFICES ASSUME Init PROVE FrameInv
    OBVIOUS
  <2>1. FailedIsEmpty
    BY DEF Init, FailedIsEmpty
  <2>2. Path = <<>>
    <3>1. Arriving = <<>>
      BY DEF Init, Arriving
    <3>2. got = <<>> /\ ring = <<>> /\ pend = <<>> /\ <<>> \in Seq(Nat)
      BY EmptySeq DEF Init
    <3>3. <<>> \o <<>> = <<>>
      BY <3>2, ConcatEmptySeq
    <3> QED BY <3>1, <3>2, <3>3 DEF Path
  <2> QED BY <2>1, <2>2 DEF Init, FrameInv, Accounted
<1>2. GlueInv /\ FrameInv /\ [Next]_vars => FrameInv'
  <2> SUFFICES ASSUME GlueInv, FrameInv, [Next]_vars PROVE FrameInv'
    OBVIOUS
  <2>1. CASE UNCHANGED vars
    BY <2>1, FramesStay DEF GlueInv, vars, hwVars, outVars, ringVars
  <2> QED BY <2>1, HostFrames, UsbFrames, UsbTxFrames, CanPopFrames DEF Next
<1>3. GlueInv /\ FrameInv => FramesAccounted
  <2> SUFFICES ASSUME GlueInv, FrameInv PROVE FramesAccounted
    OBVIOUS
  <2>1. Path \in Seq(Nat) /\ sent \in Nat
    BY PathIs DEF GlueInv, TypeOK
  <2>2. /\ \A i, j \in DOMAIN Path : i < j => Path[i] < Path[j]
        /\ Elements(Path) \cup lost = 1..sent
        /\ Elements(Path) \cap lost = {}
    BY <2>1, AccountedIs DEF FrameInv
  <2> QED BY <2>2 DEF FramesAccounted, Path
<1> QED BY <1>1, <1>2, <1>3, GlueInvHolds, PTL DEF Spec

=============================================================================
