---------------------------- MODULE RingBufProofs ----------------------------
(***************************************************************************)
(* Proofs about the frame ring, for every capacity, both kinds of producer *)
(* and any number of frames and reports.                                   *)
(***************************************************************************)
EXTENDS RingBuf, SequenceTheorems, TLAPS

LEMMA SlotArithmetic == Capacity \in Nat /\ Capacity > 0 /\ 1 \in Slots
BY RingBufAssumption DEF Slots

LEMMA RingInit == Init => RingInv
<1> SUFFICES ASSUME Init PROVE RingInv
  OBVIOUS
<1> USE SlotArithmetic, RingBufAssumption DEF Init
<1>1. TypeOK
  <2>1. /\ slots \in [Slots -> Frames \cup {Empty}]
        /\ head \in Slots /\ tail \in Slots
        /\ items \in 0..Capacity /\ spaces \in 0..Capacity
    OBVIOUS
  <2>2. /\ lock \in Holders
        /\ ppc \in ProducerPc /\ cpc \in ConsumerPc /\ spc \in StatsPc
    BY DEF Holders, ProducerPc, ConsumerPc, StatsPc
  <2>3. /\ dropped \in Nat
        /\ ptmp \in Nat /\ old \in Nat
        /\ reports \in 0..MaxReports
        /\ frame \in 1..MaxFrame + 1
    OBVIOUS
  <2>4. /\ out \in Frames \cup {Empty}
        /\ got \in Seq(Frames \cup {Empty})
    OBVIOUS
  <2> QED BY <2>1, <2>2, <2>3, <2>4 DEF TypeOK
<1>2. TokensConserved /\ IndicesAgree
  BY DEF TokensConserved, IndicesAgree, Reserved, Stored, Filled, Claimed,
         Left, One, Ahead
<1>3. LockDiscipline /\ CopiesHold
  BY DEF LockDiscipline, CopiesHold
<1> QED BY <1>1, <1>2, <1>3 DEF RingInv

(* What a step of the producer does to the semaphores, the indices and the *)
(* mutex.  A reservation is possible only with a space left, so the filled *)
(* slots never lap the ones still to be read.                              *)
LEMMA PushKeepsRingInv == ASSUME RingInv, Push PROVE RingInv'
<1> USE SlotArithmetic, RingBufAssumption
    DEF RingInv, TypeOK, TokensConserved, IndicesAgree, LockDiscipline,
        CopiesHold, Reserved, Filled, Claimed, Left, Stored, One, Ahead, Slots,
        Frames, Holders, ProducerPc, ConsumerPc, StatsPc, PFrame, ring,
        consumer, stats
<1>1. CASE PushReserve
  BY <1>1 DEF PushReserve
<1>2. CASE PushFull
  BY <1>2 DEF PushFull
<1>3. CASE PushLock
  BY <1>3 DEF PushLock, Acquire
<1>4. CASE PushContended
  BY <1>4 DEF PushContended
<1>5. CASE PushCopy
  BY <1>5 DEF PushCopy
<1>6. CASE PushAdvance
  BY <1>6 DEF PushAdvance, Following
<1>7. CASE PushUnlock
  BY <1>7 DEF PushUnlock
<1>8. CASE PushPublish
  BY <1>8 DEF PushPublish
<1>9. CASE DropLoad
  BY <1>9 DEF DropLoad
<1>10. CASE DropStore
  BY <1>10 DEF DropStore
<1> QED BY <1>1, <1>2, <1>3, <1>4, <1>5, <1>6, <1>7, <1>8, <1>9, <1>10 DEF Push

(* The same for the consumer: a claim is possible only with an item there. *)
LEMMA PopKeepsRingInv == ASSUME RingInv, Pop PROVE RingInv'
<1> USE SlotArithmetic, RingBufAssumption
    DEF RingInv, TypeOK, TokensConserved, IndicesAgree, LockDiscipline,
        CopiesHold, Reserved, Filled, Claimed, Left, Stored, One, Ahead, Slots,
        Frames, Holders, ProducerPc, ConsumerPc, StatsPc, CFrame, ring,
        producer, stats
<1>1. CASE PopReserve
  BY <1>1 DEF PopReserve
<1>2. CASE PopLock
  BY <1>2 DEF PopLock, Acquire
<1>3. CASE PopCopy
  BY <1>3 DEF PopCopy
<1>4. CASE PopAdvance
  BY <1>4 DEF PopAdvance, Following
<1>5. CASE PopUnlock
  BY <1>5 DEF PopUnlock
<1>6. CASE PopGive
  BY <1>6 DEF PopGive
<1> QED BY <1>1, <1>2, <1>3, <1>4, <1>5, <1>6 DEF Pop

(* The statistics reader touches the counter and the mutex only.           *)
LEMMA StatsKeepsRingInv == ASSUME RingInv, TakeDropped PROVE RingInv'
<1> USE SlotArithmetic, RingBufAssumption
    DEF RingInv, TypeOK, TokensConserved, IndicesAgree, LockDiscipline,
        CopiesHold, Reserved, Filled, Claimed, Left, Stored, One, Ahead, Slots,
        Frames, Holders, ProducerPc, ConsumerPc, StatsPc, SFrame, producer,
        consumer
<1>1. CASE StatsLock
  BY <1>1 DEF StatsLock, Acquire
<1>2. CASE StatsLoad
  BY <1>2 DEF StatsLoad
<1>3. CASE StatsClear
  BY <1>3 DEF StatsClear
<1>4. CASE StatsUnlock
  BY <1>4 DEF StatsUnlock
<1> QED BY <1>1, <1>2, <1>3, <1>4 DEF TakeDropped

LEMMA RingStep == RingInv /\ [Next]_vars => RingInv'
<1> SUFFICES ASSUME RingInv, [Next]_vars PROVE RingInv'
  OBVIOUS
<1>1. CASE UNCHANGED vars
  BY <1>1 DEF vars, ring, producer, consumer, stats, RingInv, TypeOK,
     TokensConserved, IndicesAgree, LockDiscipline, CopiesHold, Reserved,
     Filled, Claimed, Left, Stored, Ahead
<1> QED BY <1>1, PushKeepsRingInv, PopKeepsRingInv, StatsKeepsRingInv DEF Next

(* The semaphores account for every slot, the indices agree with them and  *)
(* the mutex protects each copy, in every reachable state.                 *)
THEOREM RingCorrect == Spec => []RingInv
BY RingInit, RingStep, PTL DEF Spec

(* With a slot reserved fewer than Capacity frames are stored, and slots   *)
(* fewer than Capacity apart are different.                                *)
LEMMA RingInvNoOverwrite == RingInv => NoOverwrite
<1> SUFFICES ASSUME RingInv, ppc \in {"copy", "advance"},
                    NEW n \in 0..Stored - 1
             PROVE  Ahead(tail, n) # head
  BY DEF NoOverwrite
<1>1. Stored \in Nat /\ Stored < Capacity
  BY SlotArithmetic DEF RingInv, TypeOK, TokensConserved, Reserved, Stored,
     Filled, Claimed, Left, One
<1>2. tail \in 1..Capacity /\ head = Ahead(tail, Stored)
  BY DEF RingInv, TypeOK, IndicesAgree, Slots
<1> QED BY <1>1, <1>2, SlotArithmetic DEF Ahead

(* The producer never writes a slot that holds a frame still to be read.   *)
THEOREM SlotsSafe == Spec => []NoOverwrite
BY RingCorrect, RingInvNoOverwrite, PTL

-----------------------------------------------------------------------------
(* Refinement of BoundedFifo: the queue is read off the slots.             *)

LEMMA StoredBounds ==
  ASSUME RingInv
  PROVE  /\ Stored \in 0..Capacity
         /\ ppc \in {"lock", "copy", "advance"} => Stored < Capacity
         /\ cpc \in {"lock", "copy", "advance"} => Stored > 0
BY SlotArithmetic DEF RingInv, TypeOK, TokensConserved, Reserved, Stored,
   Filled, Claimed, Left, One

\* A place in the queue is a slot.
LEMMA AheadIsSlot ==
  ASSUME RingInv, NEW n \in 0..Capacity - 1
  PROVE  Ahead(tail, n) \in Slots
BY SlotArithmetic DEF RingInv, TypeOK, Ahead, Slots

LEMMA QueueIsSeq ==
  ASSUME RingInv
  PROVE  /\ Queue \in Seq(Frames \cup {Empty})
         /\ Len(Queue) = Stored
         /\ \A n \in 1..Stored : Queue[n] = slots[Ahead(tail, n - 1)]
<1>1. Stored \in Nat /\ Stored <= Capacity
  BY StoredBounds, SlotArithmetic
<1>2. \A n \in 1..Stored : slots[Ahead(tail, n - 1)] \in Frames \cup {Empty}
  <2> SUFFICES ASSUME NEW n \in 1..Stored
               PROVE  slots[Ahead(tail, n - 1)] \in Frames \cup {Empty}
    OBVIOUS
  <2>1. n - 1 \in 0..Capacity - 1
    BY <1>1, SlotArithmetic
  <2> QED BY <2>1, AheadIsSlot DEF RingInv, TypeOK
<1> QED BY <1>1, <1>2 DEF Queue

LEMMA FifoInit == Init => Fifo!Init
<1> SUFFICES ASSUME Init PROVE Fifo!Init
  OBVIOUS
<1>1. Stored = 0
  BY DEF Init, Stored, Filled, Claimed, One
<1>2. Queue = <<>>
  BY <1>1, RingInit, QueueIsSeq
<1> QED BY <1>2 DEF Fifo!Init, Init

(* A step that leaves the slots, tail and the number of stored frames      *)
(* alone leaves the queue alone.                                           *)
LEMMA QueueUnchanged ==
  ASSUME UNCHANGED <<slots, tail>>, Stored' = Stored
  PROVE  Queue' = Queue
BY DEF Queue, Ahead

(* Copying into the head slot does not disturb the queue.                  *)
LEMMA CopyKeepsQueue ==
  ASSUME RingInv, PushCopy
  PROVE  Queue' = Queue
<1>1. Stored' = Stored /\ tail' = tail
  BY DEF PushCopy, PFrame, consumer, Stored, Filled, Claimed
<1>2. \A n \in 1..Stored :
         slots'[Ahead(tail, n - 1)] = slots[Ahead(tail, n - 1)]
  <2> SUFFICES ASSUME NEW n \in 1..Stored
               PROVE  slots'[Ahead(tail, n - 1)] = slots[Ahead(tail, n - 1)]
    OBVIOUS
  <2>1. n - 1 \in 0..Stored - 1 /\ n - 1 \in 0..Capacity - 1
    BY StoredBounds, SlotArithmetic
  <2>2. Ahead(tail, n - 1) # head
    BY <2>1, RingInvNoOverwrite DEF NoOverwrite, PushCopy
  <2> QED BY <2>1, <2>2, AheadIsSlot DEF PushCopy, RingInv, TypeOK
<1> QED BY <1>1, <1>2 DEF Queue, Ahead

(* Moving head past the slot just written puts the frame into the FIFO.    *)
LEMMA AdvancePuts ==
  ASSUME RingInv, PushAdvance
  PROVE  Fifo!Put(frame) /\ frame \in Frames
<1>1. Stored' = Stored + 1 /\ Stored \in Nat /\ Stored < Capacity
  <2>1. Stored' = Stored + 1
    BY DEF PushAdvance, PFrame, consumer, Stored, Filled, Claimed, One,
       RingInv, TypeOK
  <2> QED BY <2>1, StoredBounds, SlotArithmetic DEF PushAdvance
<1>2. UNCHANGED <<slots, tail, got>>
  BY DEF PushAdvance, PFrame, consumer
<1>3. slots[Ahead(tail, Stored)] = frame /\ frame \in Frames
  BY DEF PushAdvance, RingInv, IndicesAgree, CopiesHold
<1>4. Queue' = [n \in 1..Stored + 1 |-> slots[Ahead(tail, n - 1)]]
  BY <1>1, <1>2 DEF Queue, Ahead
<1>5. Queue' = Append(Queue, frame)
  <2> DEFINE S == Frames \cup {Empty}
  <2>1. /\ Queue \in Seq(S) /\ frame \in S
        /\ Len(Queue) = Stored
        /\ \A n \in 1..Stored : Queue[n] = slots[Ahead(tail, n - 1)]
    BY <1>3, QueueIsSeq
  <2>2. /\ Append(Queue, frame) \in Seq(S)
        /\ Len(Append(Queue, frame)) = Stored + 1
        /\ \A n \in 1..Stored :
              Append(Queue, frame)[n] = slots[Ahead(tail, n - 1)]
        /\ Append(Queue, frame)[Stored + 1] = slots[Ahead(tail, Stored)]
    <3> HIDE DEF S
    <3> QED BY <1>3, <2>1, AppendProperties
  <2>3. \A n \in 1..Stored + 1 :
           Append(Queue, frame)[n] = slots[Ahead(tail, n - 1)]
    BY <1>1, <2>2
  <2>4. \A n \in 1..Stored + 1 : slots[Ahead(tail, n - 1)] \in S
    <3> SUFFICES ASSUME NEW n \in 1..Stored + 1
                 PROVE  slots[Ahead(tail, n - 1)] \in S
      OBVIOUS
    <3>1. n - 1 \in 0..Capacity - 1
      BY <1>1, SlotArithmetic
    <3> QED BY <3>1, AheadIsSlot DEF RingInv, TypeOK
  <2>5. /\ Queue' \in Seq(S) /\ Len(Queue') = Stored + 1
        /\ \A n \in 1..Stored + 1 : Queue'[n] = slots[Ahead(tail, n - 1)]
    BY <1>1, <1>4, <2>4
  <2> HIDE DEF S
  <2> QED BY <2>2, <2>3, <2>5, SeqEqual
<1> QED BY <1>1, <1>2, <1>3, <1>5, QueueIsSeq DEF Fifo!Put

(* Moving tail past the slot just copied takes the oldest frame.           *)
LEMMA AdvanceTakes ==
  ASSUME RingInv, PopAdvance
  PROVE  Fifo!Take
<1>1. Stored' = Stored - 1 /\ Stored \in Nat /\ Stored > 0 /\ Stored <= Capacity
  <2>1. Stored' = Stored - 1
    BY DEF PopAdvance, CFrame, producer, Stored, Filled, Claimed, One,
       RingInv, TypeOK
  <2> QED BY <2>1, StoredBounds, SlotArithmetic DEF PopAdvance
<1>2. /\ slots' = slots /\ tail' = Following(tail)
      /\ got' = Append(got, slots[tail])
  BY DEF PopAdvance, RingInv, CopiesHold
<1>3. tail \in 1..Capacity
  BY DEF RingInv, TypeOK, Slots
<1>4. \A n \in 1..Stored - 1 :
         Ahead(tail', n - 1) = Ahead(tail, (n + 1) - 1)
  BY <1>1, <1>2, <1>3, SlotArithmetic DEF Ahead, Following
<1>5. Queue # <<>> /\ Head(Queue) = slots[tail]
  <2>1. Ahead(tail, 1 - 1) = tail
    BY <1>3, SlotArithmetic DEF Ahead
  <2> QED BY <1>1, <2>1, QueueIsSeq
<1>6. Queue' = Tail(Queue)
  <2> DEFINE S == Frames \cup {Empty}
  <2>1. /\ Queue \in Seq(S) /\ Len(Queue) = Stored
        /\ \A n \in 1..Stored : Queue[n] = slots[Ahead(tail, n - 1)]
    BY QueueIsSeq
  <2>2. \A n \in 1..Stored - 1 :
           /\ Queue[n + 1] = slots[Ahead(tail', n - 1)]
           /\ Queue[n + 1] \in S
    <3> SUFFICES ASSUME NEW n \in 1..Stored - 1
                 PROVE  /\ Queue[n + 1] = slots[Ahead(tail', n - 1)]
                        /\ Queue[n + 1] \in S
      OBVIOUS
    <3>1. n + 1 \in 1..Stored
      BY <1>1
    <3>2. Queue[n + 1] = slots[Ahead(tail', n - 1)]
      BY <1>4, <2>1, <3>1
    <3> HIDE DEF S
    <3> QED BY <2>1, <3>1, <3>2, ElementOfSeq
  <2>3. Queue' = [n \in 1..Stored - 1 |-> slots[Ahead(tail', n - 1)]]
    BY <1>1, <1>2 DEF Queue, Ahead
  <2>4. /\ Queue' \in Seq(S) /\ Len(Queue') = Stored - 1
        /\ \A n \in 1..Stored - 1 : Queue'[n] = Queue[n + 1]
    BY <1>1, <2>2, <2>3
  <2> HIDE DEF S
  <2>5. /\ Tail(Queue) \in Seq(S) /\ Len(Tail(Queue)) = Stored - 1
        /\ \A n \in 1..Stored - 1 : Tail(Queue)[n] = Queue[n + 1]
    BY <1>5, <2>1, HeadTailProperties
  <2> QED BY <2>4, <2>5, SeqEqual
<1> QED BY <1>2, <1>5, <1>6 DEF Fifo!Take

\* Only the two steps that move an index change the queue.
LEMMA OthersKeepQueue ==
  ASSUME RingInv, [Next]_vars, ~PushAdvance, ~PopAdvance
  PROVE  Queue' = Queue /\ Stored' = Stored /\ got' = got
<1>1. CASE PushCopy
  <2>1. Stored' = Stored /\ got' = got
    BY <1>1 DEF PushCopy, PFrame, consumer, Stored, Filled, Claimed
  <2> QED BY <1>1, <2>1, CopyKeepsQueue
<1>2. CASE \/ PushReserve \/ PushFull \/ PushLock \/ PushContended
           \/ PushUnlock \/ PushPublish \/ DropLoad \/ DropStore
  <2>1. Stored' = Stored /\ UNCHANGED <<slots, tail, got>>
    BY <1>2 DEF PushReserve, PushFull, PushLock, PushContended, PushUnlock,
       PushPublish, DropLoad, DropStore, PFrame, consumer, ring, Stored,
       Filled, Claimed, One, RingInv, TypeOK
  <2> QED BY <2>1, QueueUnchanged
<1>3. CASE PopReserve \/ PopLock \/ PopCopy \/ PopUnlock \/ PopGive
  <2>1. Stored' = Stored /\ UNCHANGED <<slots, tail, got>>
    BY <1>3 DEF PopReserve, PopLock, PopCopy, PopUnlock, PopGive, CFrame,
       producer, ring, Stored, Filled, Claimed, One, RingInv, TypeOK
  <2> QED BY <2>1, QueueUnchanged
<1>4. CASE TakeDropped \/ UNCHANGED vars
  <2>1. Stored' = Stored /\ UNCHANGED <<slots, tail, got>>
    BY <1>4 DEF TakeDropped, StatsLock, StatsLoad, StatsClear, StatsUnlock,
       SFrame, producer, consumer, vars, ring, Stored, Filled, Claimed
  <2> QED BY <2>1, QueueUnchanged
<1> QED BY <1>1, <1>2, <1>3, <1>4 DEF Next, Push, Pop

(* Under both producers, for every capacity, the semaphores, the mutex and *)
(* the two indices implement a bounded FIFO queue: nothing accepted is     *)
(* lost, repeated or reordered, and no copy is torn.                       *)
THEOREM RingIsFifo == Spec => FifoSpec
<1>1. RingInv /\ [Next]_vars => [Fifo!Next]_(Fifo!vars)
  <2> SUFFICES ASSUME RingInv, [Next]_vars PROVE [Fifo!Next]_(Fifo!vars)
    OBVIOUS
  <2>1. CASE PushAdvance
    BY <2>1, AdvancePuts DEF Fifo!Next
  <2>2. CASE PopAdvance
    BY <2>2, AdvanceTakes DEF Fifo!Next
  <2>3. CASE ~PushAdvance /\ ~PopAdvance
    BY <2>3, OthersKeepQueue DEF Fifo!vars
  <2> QED BY <2>1, <2>2, <2>3
<1> QED BY <1>1, FifoInit, RingCorrect, PTL DEF Spec, FifoSpec, Fifo!Spec

-----------------------------------------------------------------------------
(* The retrying producer                                                   *)

(* Without counted drops the frames received, those in the queue and the   *)
(* one on offer carry consecutive numbers; a frame filled in but not yet   *)
(* published is in the queue and still on offer.                           *)
Consecutive ==
  ~countDrop => /\ ppc \notin {"load", "store"}
                /\ Len(got) + Stored = frame - 1 + Filled
                /\ \A n \in 1..Stored : Queue[n] = Len(got) + n
                /\ \A n \in 1..Len(got) : got[n] = n

\* The number on offer moves with the publication, or with a counted drop.
LEMMA OfferMoves ==
  ASSUME RingInv, [Next]_vars, ~PushAdvance, ~countDrop, ppc \notin {"load", "store"}
  PROVE  /\ ~countDrop' /\ ppc' \notin {"load", "store"}
         /\ frame' - 1 + Filled' = frame - 1 + Filled
<1> USE DEF Filled, One
<1>1. frame \in Nat
  BY RingBufAssumption DEF RingInv, TypeOK
<1>2. CASE Push
  <2>1. CASE PushReserve \/ PushFull \/ PushLock \/ PushContended \/ PushCopy
    BY <2>1 DEF PushReserve, PushFull, PushLock, PushContended, PushCopy, PFrame
  <2>2. CASE PushUnlock
    BY <2>2 DEF PushUnlock, PFrame
  <2>3. CASE PushPublish
    BY <1>1, <2>3 DEF PushPublish, PFrame
  <2> QED BY <1>2, <2>1, <2>2, <2>3 DEF Push, DropLoad, DropStore
<1>3. CASE Pop \/ TakeDropped \/ UNCHANGED vars
  <2>1. UNCHANGED <<countDrop, ppc, frame>>
    BY <1>3 DEF Pop, PopReserve, PopLock, PopCopy, PopAdvance, PopUnlock, PopGive,
       CFrame, TakeDropped, StatsLock, StatsLoad, StatsClear, StatsUnlock, SFrame,
       producer, vars
  <2> QED BY <2>1
<1> QED BY <1>2, <1>3 DEF Next

\* Each step keeps the numbers consecutive.
LEMMA ConsecutiveKept ==
  ASSUME RingInv, Consecutive, [Next]_vars
  PROVE  Consecutive'
<1>1. countDrop' = countDrop
  BY DEF Next, Push, PushReserve, PushFull, PushLock, PushContended, PushCopy,
     PushAdvance, PushUnlock, PushPublish, DropLoad, DropStore, PFrame, Pop, PopReserve,
     PopLock, PopCopy, PopAdvance, PopUnlock, PopGive, CFrame, TakeDropped, StatsLock,
     StatsLoad, StatsClear, StatsUnlock, SFrame, vars
<1> SUFFICES ASSUME ~countDrop PROVE Consecutive'
  BY <1>1 DEF Consecutive
<1>2. /\ got \in Seq(Frames \cup {Empty}) /\ Len(got) \in Nat /\ Stored \in Nat
      /\ frame \in Nat /\ Stored <= Capacity
  BY StoredBounds, SlotArithmetic, LenProperties DEF RingInv, TypeOK
<1>3. /\ Queue \in Seq(Frames \cup {Empty}) /\ Len(Queue) = Stored
  BY QueueIsSeq
<1>4. CASE PushAdvance
  <2>1. Queue' = Append(Queue, frame) /\ got' = got /\ frame \in Frames
    BY <1>4, AdvancePuts DEF Fifo!Put
  <2>2. /\ Len(Queue') = Stored + 1 /\ Queue'[Stored + 1] = frame
        /\ \A n \in 1..Stored : Queue'[n] = Queue[n]
    BY <1>3, <2>1, AppendProperties
  <2>3. Stored' = Stored + 1
    BY <1>4 DEF PushAdvance, PFrame, consumer, Stored, Filled, Claimed, One,
       RingInv, TypeOK
  <2>4. Filled = 0 /\ Filled' = 1 /\ frame' = frame /\ ppc' = "unlock"
    BY <1>4 DEF PushAdvance, Filled, One
  <2>5. \A n \in 1..Stored + 1 : Queue'[n] = Len(got) + n
    <3> SUFFICES ASSUME NEW n \in 1..Stored + 1 PROVE Queue'[n] = Len(got) + n
      OBVIOUS
    <3>1. CASE n \in 1..Stored
      BY <2>2, <3>1 DEF Consecutive
    <3>2. CASE n = Stored + 1
      BY <1>2, <2>2, <2>4, <3>2 DEF Consecutive
    <3> QED BY <1>2, <3>1, <3>2
  <2> QED BY <1>2, <2>1, <2>3, <2>4, <2>5 DEF Consecutive
<1>5. CASE PopAdvance
  <2>1. /\ Queue # <<>> /\ Queue' = Tail(Queue) /\ got' = Append(got, Head(Queue))
    BY <1>5, AdvanceTakes DEF Fifo!Take
  <2>2. /\ Stored >= 1 /\ Len(Queue') = Stored - 1 /\ Head(Queue) = Queue[1]
        /\ Head(Queue) \in Frames \cup {Empty}
        /\ \A n \in 1..Stored - 1 : Queue'[n] = Queue[n + 1]
    BY <1>2, <1>3, <2>1, HeadTailProperties, EmptySeq
  <2>3. Stored' = Stored - 1 /\ Head(Queue) = Len(got) + 1
    <3>1. Stored' = Stored - 1
      BY <1>5 DEF PopAdvance, CFrame, producer, Stored, Filled, Claimed, One,
         RingInv, TypeOK
    <3> QED BY <1>2, <2>2, <3>1 DEF Consecutive
  <2>4. /\ Len(got') = Len(got) + 1 /\ got'[Len(got) + 1] = Head(Queue)
        /\ \A n \in 1..Len(got) : got'[n] = got[n]
    BY <1>2, <2>1, <2>2, AppendProperties
  <2>5. ~PushAdvance
    BY <1>5 DEF PopAdvance, PushAdvance, PFrame, CFrame, consumer, producer, RingInv,
       LockDiscipline
  <2>6. frame' - 1 + Filled' = frame - 1 + Filled /\ ppc' \notin {"load", "store"}
    BY <2>5, OfferMoves DEF Consecutive
  <2>7. \A n \in 1..Stored' : Queue'[n] = Len(got') + n
    BY <1>2, <2>2, <2>3, <2>4 DEF Consecutive
  <2>8. \A n \in 1..Len(got') : got'[n] = n
    BY <1>2, <2>3, <2>4 DEF Consecutive
  <2>9. Len(got') + Stored' = Len(got) + Stored
    BY <1>2, <2>3, <2>4
  <2> QED BY <2>6, <2>7, <2>8, <2>9 DEF Consecutive
<1>6. CASE ~PushAdvance /\ ~PopAdvance
  BY <1>6, OthersKeepQueue, OfferMoves DEF Consecutive
<1> QED BY <1>4, <1>5, <1>6

(* The producer that tries again, EP2 OUT's side of tx_ring (main.c and    *)
(* usb_glue.c push with pcan_rb_try_push), neither loses nor repeats a     *)
(* frame, for every capacity and any number of refusals.                   *)
THEOREM NothingLostOnRetry == Spec => []LosslessRetry
<1>1. Init => Consecutive
  <2> SUFFICES ASSUME Init PROVE Consecutive
    OBVIOUS
  <2>1. Stored = 0 /\ Filled = 0 /\ Len(got) = 0 /\ frame = 1 /\ ppc = "idle"
    BY DEF Init, Stored, Filled, Claimed, One
  <2> QED BY <2>1 DEF Consecutive
<1>2. RingInv /\ Consecutive /\ [Next]_vars => Consecutive'
  BY ConsecutiveKept
<1>3. RingInv /\ Consecutive => LosslessRetry
  <2> SUFFICES ASSUME RingInv, Consecutive, ~countDrop PROVE \A n \in DOMAIN got : got[n] = n
    BY DEF LosslessRetry
  <2>1. DOMAIN got = 1..Len(got)
    BY LenProperties DEF RingInv, TypeOK
  <2> QED BY <2>1 DEF Consecutive
<1> QED BY <1>1, <1>2, <1>3, RingCorrect, PTL DEF Spec
=============================================================================
