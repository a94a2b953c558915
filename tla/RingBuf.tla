------------------------------- MODULE RingBuf -------------------------------
(***************************************************************************)
(* ringbuf.c: the frame ring between a producer task and a consumer task,  *)
(* built from a mutex and two counting semaphores, with the drop counter a *)
(* third task reads.  Every semaphore call and every memory access of      *)
(* push, pop and take_dropped is a step of its own.                        *)
(***************************************************************************)
EXTENDS Naturals, Sequences

CONSTANTS Capacity,    \* rb->capacity
          MaxFrame,    \* bound: frames the producer offers
          MaxReports   \* bound: calls of pcan_rb_take_dropped

ASSUME RingBufAssumption == /\ Capacity \in Nat \ {0}
                            /\ MaxFrame \in Nat
                            /\ MaxReports \in Nat

Frames == 1..MaxFrame
Empty  == 0            \* a slot never written
Slots  == 1..Capacity  \* slot s is rb->slots[s - 1], as are head and tail

VARIABLES countDrop,  \* pcan_rb_push (rx_ring), or else try_push (tx_ring)
          slots, head, tail, items, spaces, lock, dropped,   \* pcan_ringbuf_t
          ppc, frame, ptmp,             \* the producer, the frame it offers
          cpc, out, got,                \* the consumer, its copy, its frames
          spc, old, reports             \* the reader of the drop counter

ring     == <<slots, head, tail, items, spaces, lock>>
producer == <<ppc, frame, ptmp>>
consumer == <<cpc, out, got>>
stats    == <<spc, old, reports>>
vars == <<countDrop, ring, dropped, producer, consumer, stats>>

ProducerPc == {"idle", "lock", "copy", "advance", "unlock", "publish",
               "load", "store"}
ConsumerPc == {"idle", "lock", "copy", "advance", "unlock", "give"}
StatsPc    == {"idle", "load", "clear", "unlock"}
Holders    == {"free", "producer", "consumer", "stats"}

\* Mutant: the semaphore of free slots starts one too high.
InitOneMore == /\ slots = [s \in Slots |-> Empty]
               /\ head = 1 /\ tail = 1
               /\ items = 0 /\ spaces = Capacity + 1
               /\ lock = "free"
               /\ dropped = 0
               /\ ppc = "idle" /\ frame = 1 /\ ptmp = 0
               /\ cpc = "idle" /\ out = Empty /\ got = <<>>
               /\ spc = "idle" /\ old = 0 /\ reports = 0
               /\ countDrop \in BOOLEAN

Init == /\ slots = [s \in Slots |-> Empty]
        /\ head = 1 /\ tail = 1
        /\ items = 0 /\ spaces = Capacity
        /\ lock = "free"
        /\ dropped = 0
        /\ ppc = "idle" /\ frame = 1 /\ ptmp = 0
        /\ cpc = "idle" /\ out = Empty /\ got = <<>>
        /\ spc = "idle" /\ old = 0 /\ reports = 0
        /\ countDrop \in BOOLEAN

Following(s) == IF s = Capacity THEN 1 ELSE s + 1

Acquire(who) == lock = "free" /\ lock' = who

-----------------------------------------------------------------------------
(* pcan_rb_push_impl                                                       *)

PFrame == UNCHANGED <<countDrop, consumer, stats>>

PushReserve == /\ ppc = "idle"
               /\ frame \in Frames
               /\ spaces > 0
               /\ spaces' = spaces - 1
               /\ ppc' = "lock"
               /\ UNCHANGED <<slots, head, tail, items, lock, dropped, frame,
                              ptmp>>
               /\ PFrame

\* Mutant: a full ring gives up its oldest frame instead.
PushFullDropsOldest == /\ ppc = "idle"
                       /\ frame \in Frames
                       /\ spaces = 0
                       /\ items > 0
                       /\ countDrop
                       /\ items' = items - 1
                       /\ spaces' = 1
                       /\ tail' = Following(tail)
                       /\ UNCHANGED <<slots, head, lock, dropped, ppc, frame,
                                      ptmp>>
                       /\ PFrame

\* No space: counted as a drop, or left to the caller to offer again.
PushFull == /\ ppc = "idle"
            /\ frame \in Frames
            /\ spaces = 0
            /\ countDrop
            /\ ppc' = "load"
            /\ UNCHANGED <<ring, dropped, frame, ptmp>>
            /\ PFrame

PushLock == /\ ppc = "lock"
            /\ Acquire("producer")
            /\ ppc' = "copy"
            /\ UNCHANGED <<slots, head, tail, items, spaces, dropped, frame,
                           ptmp>>
            /\ PFrame

\* Mutant: a frame refused for the mutex is taken for sent.
PushContendedSkips == /\ ppc = "lock"
                      /\ lock # "free"
                      /\ spaces' = spaces + 1
                      /\ frame' = frame + 1
                      /\ ppc' = "idle"
                      /\ UNCHANGED <<slots, head, tail, items, lock, dropped,
                                     ptmp>>
                      /\ PFrame

\* Mutant: the space reserved for a frame refused for the mutex is not returned.
PushContendedKeeps == /\ ppc = "lock"
                      /\ lock # "free"
                      /\ ppc' = IF countDrop THEN "load" ELSE "idle"
                      /\ UNCHANGED <<ring, dropped, frame, ptmp>>
                      /\ PFrame

\* The bounded wait for the mutex ran out: the reserved space goes back.
PushContended == /\ ppc = "lock"
                 /\ lock # "free"
                 /\ spaces' = spaces + 1
                 /\ ppc' = IF countDrop THEN "load" ELSE "idle"
                 /\ UNCHANGED <<slots, head, tail, items, lock, dropped, frame,
                                ptmp>>
                 /\ PFrame

PushCopy == /\ ppc = "copy"
            /\ slots' = [slots EXCEPT ![head] = frame]
            /\ ppc' = "advance"
            /\ UNCHANGED <<head, tail, items, spaces, lock, dropped, frame,
                           ptmp>>
            /\ PFrame

PushAdvance == /\ ppc = "advance"
               /\ head' = Following(head)
               /\ ppc' = "unlock"
               /\ UNCHANGED <<slots, tail, items, spaces, lock, dropped, frame,
                              ptmp>>
               /\ PFrame

PushUnlock == /\ ppc = "unlock"
              /\ lock' = "free"
              /\ ppc' = "publish"
              /\ UNCHANGED <<slots, head, tail, items, spaces, dropped, frame,
                             ptmp>>
              /\ PFrame

\* Mutant: the frame is stored and nobody is told.
PushPublishSilently == /\ ppc = "publish"
                       /\ frame' = frame + 1
                       /\ ppc' = "idle"
                       /\ UNCHANGED <<ring, dropped, ptmp>>
                       /\ PFrame

PushPublish == /\ ppc = "publish"
               /\ items' = items + 1
               /\ frame' = frame + 1
               /\ ppc' = "idle"
               /\ UNCHANGED <<slots, head, tail, spaces, lock, dropped, ptmp>>
               /\ PFrame

\* rb->dropped++ outside the mutex: a load, then a store.
DropLoad == /\ ppc = "load"
            /\ ptmp' = dropped
            /\ ppc' = "store"
            /\ UNCHANGED <<ring, dropped, frame>>
            /\ PFrame

DropStore == /\ ppc = "store"
             /\ dropped' = ptmp + 1
             /\ frame' = frame + 1
             /\ ppc' = "idle"
             /\ UNCHANGED <<ring, ptmp>>
             /\ PFrame

Push == \/ PushReserve \/ PushFull \/ PushLock \/ PushContended
        \/ PushCopy \/ PushAdvance \/ PushUnlock \/ PushPublish
        \/ DropLoad \/ DropStore

-----------------------------------------------------------------------------
(* pcan_rb_pop                                                             *)

CFrame == UNCHANGED <<countDrop, dropped, producer, stats>>

PopReserve == /\ cpc = "idle"
              /\ items > 0
              /\ items' = items - 1
              /\ cpc' = "lock"
              /\ UNCHANGED <<slots, head, tail, spaces, lock, out, got>>
              /\ CFrame

PopLock == /\ cpc = "lock"
           /\ Acquire("consumer")
           /\ cpc' = "copy"
           /\ UNCHANGED <<slots, head, tail, items, spaces, out, got>>
           /\ CFrame

PopCopy == /\ cpc = "copy"
           /\ out' = slots[tail]
           /\ cpc' = "advance"
           /\ UNCHANGED <<ring, got>>
           /\ CFrame

PopAdvance == /\ cpc = "advance"
              /\ tail' = Following(tail)
              /\ got' = Append(got, out)
              /\ cpc' = "unlock"
              /\ UNCHANGED <<slots, head, items, spaces, lock, out>>
              /\ CFrame

PopUnlock == /\ cpc = "unlock"
             /\ lock' = "free"
             /\ cpc' = "give"
             /\ UNCHANGED <<slots, head, tail, items, spaces, out, got>>
             /\ CFrame

PopGive == /\ cpc = "give"
           /\ spaces' = spaces + 1
           /\ cpc' = "idle"
           /\ UNCHANGED <<slots, head, tail, items, lock, out, got>>
           /\ CFrame

Pop == PopReserve \/ PopLock \/ PopCopy \/ PopAdvance \/ PopUnlock \/ PopGive

-----------------------------------------------------------------------------
(* pcan_rb_take_dropped                                                    *)

SFrame == /\ UNCHANGED <<slots, head, tail, items, spaces>>
          /\ UNCHANGED <<countDrop, producer, consumer>>

StatsLock == /\ spc = "idle"
             /\ reports < MaxReports
             /\ Acquire("stats")
             /\ reports' = reports + 1
             /\ spc' = "load"
             /\ UNCHANGED <<dropped, old>>
             /\ SFrame

StatsLoad == /\ spc = "load"
             /\ old' = dropped
             /\ spc' = "clear"
             /\ UNCHANGED <<lock, dropped, reports>>
             /\ SFrame

StatsClear == /\ spc = "clear"
              /\ dropped' = 0
              /\ spc' = "unlock"
              /\ UNCHANGED <<lock, old, reports>>
              /\ SFrame

StatsUnlock == /\ spc = "unlock"
               /\ lock' = "free"
               /\ spc' = "idle"
               /\ UNCHANGED <<dropped, old, reports>>
               /\ SFrame

TakeDropped == StatsLock \/ StatsLoad \/ StatsClear \/ StatsUnlock

Next == Push \/ Pop \/ TakeDropped

Spec == Init /\ [][Next]_vars

(* Each of the three tasks runs again and again.  The mutex is handed over *)
(* by FreeRTOS to a waiter, so a waiting consumer is not passed for ever.  *)
FairSpec == /\ Spec
            /\ WF_vars(Push)
            /\ WF_vars(Pop) /\ SF_vars(PopLock) /\ SF_vars(PushLock)
            /\ WF_vars(TakeDropped)

-----------------------------------------------------------------------------
TypeOK == /\ countDrop \in BOOLEAN
          /\ slots \in [Slots -> Frames \cup {Empty}]
          /\ head \in Slots /\ tail \in Slots
          /\ items \in 0..Capacity /\ spaces \in 0..Capacity
          /\ lock \in Holders
          /\ dropped \in Nat
          /\ ppc \in ProducerPc /\ cpc \in ConsumerPc /\ spc \in StatsPc
          /\ frame \in 1..MaxFrame + 1
          /\ ptmp \in Nat /\ old \in Nat
          /\ reports \in 0..MaxReports
          /\ out \in Frames \cup {Empty}
          /\ got \in Seq(Frames \cup {Empty})

One(b) == IF b THEN 1 ELSE 0

\* Slots the producer has reserved and not yet filled; filled and not yet
\* published; published slots the consumer has claimed and not yet left; left
\* and not yet returned.
Reserved == One(ppc \in {"lock", "copy", "advance"})
Filled   == One(ppc \in {"unlock", "publish"})
Claimed  == One(cpc \in {"lock", "copy", "advance"})
Left     == One(cpc \in {"unlock", "give"})

\* Frames between tail and head.
Stored == items + Filled + Claimed

\* The slot n places after s.
Ahead(s, n) == IF s + n <= Capacity THEN s + n ELSE s + n - Capacity

(* The two semaphores account for every slot exactly once.                 *)
TokensConserved == spaces + Reserved + Stored + Left = Capacity

(* head is as far ahead of tail as there are frames stored: full and empty *)
(* are never confused although both have head = tail.                      *)
IndicesAgree == Ahead(tail, Stored) = head

(* The mutex has one holder, and it is the task inside its section.        *)
LockDiscipline == /\ lock = "producer" <=> ppc \in {"copy", "advance", "unlock"}
                  /\ lock = "consumer" <=> cpc \in {"copy", "advance", "unlock"}
                  /\ lock = "stats" <=> spc # "idle"

(* What each copy under the mutex has just done still holds when its index *)
(* moves: nobody else touched that slot.                                   *)
CopiesHold == /\ ppc = "advance" => slots[head] = frame
              /\ cpc = "advance" => out = slots[tail]
              /\ ppc # "idle" => frame \in Frames

(* The inductive invariant.                                                *)
RingInv == TypeOK /\ TokensConserved /\ IndicesAgree /\ LockDiscipline /\ CopiesHold

(* The slot being written is not one that holds a frame still to be read,  *)
(* nor the one the consumer is copying (ringbuf.c:19-22).                  *)
NoOverwrite ==
    ppc \in {"copy", "advance"} =>
        \A n \in 0..Stored - 1 : Ahead(tail, n) # head

(* The frames stored, oldest first, read off the slots.                    *)
Queue == [n \in 1..Stored |-> slots[Ahead(tail, n - 1)]]

(* The ring implements a bounded FIFO.                                     *)
Fifo == INSTANCE BoundedFifo WITH queue <- Queue, Items <- Frames
FifoSpec == Fifo!Spec

(* With try_push nothing is lost or repeated: the consumer receives the    *)
(* frames 1, 2, 3... in order, over any number of refusals and retries.    *)
LosslessRetry == ~countDrop => \A n \in DOMAIN got : got[n] = n

(* Every push that was accepted is received; and the producer that tries   *)
(* again gets every frame accepted in the end: refusals for a full ring or *)
(* for a contended mutex leave the ring as large as it was.                *)
AllDelivered ==
    /\ \A f \in Frames :
          ppc = "publish" /\ frame = f ~> \E n \in DOMAIN got : got[n] = f
    /\ \A f \in Frames : ~countDrop ~> \E n \in DOMAIN got : got[n] = f

=============================================================================
