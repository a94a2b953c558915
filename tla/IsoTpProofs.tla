----------------------------- MODULE IsoTpProofs -----------------------------
(***************************************************************************)
(* Proofs about a pair of links, for any messages, blocks and sequence     *)
(* numbers, over a bus that loses and delays frames, for a receiver that   *)
(* may put off its grants and for broadcasts in between.                   *)
(*                                                                         *)
(* LinkInv holds whatever happens: the order of what is under way, one     *)
(* question or answer at a time, what the receiver holds and what it has   *)
(* delivered.  FlowInv adds what holds as long as nothing is lost, refused *)
(* or put off: nothing is missing anywhere and no timer expires.  Both are *)
(* about values, Link(...) and Flow(...), so that a lemma can speak of the *)
(* state between two parts of a pass.                                      *)
(***************************************************************************)
EXTENDS IsoTp, Integers, SequenceTheorems, TLAPS

PieceType == Nat \X Nat

Buffers == Seq(PieceType)

TxType == [phase : {"idle", "wait", "send"}, msg : Nat, off : Nat, sn : Nat,
           bsLeft : Nat, wft : Nat, timer : Nat, stTimer : Nat]

RxType == [phase : {"idle", "recv"}, buf : Buffers, len : Nat, sn : Nat,
           blockCf : Nat, timer : Nat, complete : BOOLEAN,
           functional : BOOLEAN]

DataType == [type : {"SF", "FF", "CF"}, piece : PieceType, len : Nat, sn : Nat,
             age : Nat]

DataQueue == Seq(DataType)

FcType == [status : {"CTS", "WAIT", "OVFLW"}, age : Nat]

FcQueue == Seq(FcType)

TypeOK == /\ tx \in TxType /\ rx \in RxType
          /\ data \in DataQueue /\ fc \in FcQueue
          /\ next \in Nat \ {0} /\ delivered \in Seq(Buffers)
          /\ owed \in BOOLEAN
          /\ upsets \subseteq {"fault", "foreign", "gaveUp"}

-----------------------------------------------------------------------------
(* The sender and what is under way, whatever happens.                     *)

Busy(l) == l.phase # "idle"

Sending(l, n) == /\ n \in 1..Len(Pieces) + 1
                 /\ Busy(l) => /\ l.msg = n - 1 /\ l.msg \in 1..Len(Pieces)
                               /\ l.off \in 1..Pieces[l.msg] - 1
                 /\ l.phase = "send" /\ BlockSize # 0 => l.bsLeft \in 1..BlockSize
                 /\ BlockSize = 0 => l.bsLeft = 0 /\ (l.phase = "wait" => l.off = 1)

Before(p, q) == p[1] < q[1] \/ (p[1] = q[1] /\ p[2] < q[2])

Genuine(g, n) ==
    /\ g.piece[1] \in 1..Len(Pieces) /\ g.piece[1] < n
    /\ g.type = "SF" => g.piece[2] = 1 /\ Pieces[g.piece[1]] = 1
    /\ g.type = "FF" => /\ g.piece[2] = 1 /\ g.len = Pieces[g.piece[1]]
                        /\ g.len > 1
    /\ g.type = "CF" => g.piece[2] \in 2..Pieces[g.piece[1]]

InOrder(d) == \A i, j \in 1..Len(d) : i < j => Before(d[i].piece, d[j].piece)

\* The pieces of the message that is being sent, and none beyond.
SentSoFar(l, d) ==
    Busy(l) => \A i \in 1..Len(d) : /\ d[i].piece[1] <= l.msg
                                    /\ d[i].piece[1] = l.msg => d[i].piece[2] <= l.off

UnderWay(l, d, f, n) ==
    /\ \A i \in 1..Len(d) : Genuine(d[i], n) /\ d[i].age <= MaxDelay
    /\ \A i \in 1..Len(f) : f[i].age <= MaxDelay
    /\ InOrder(d) /\ SentSoFar(l, d)

-----------------------------------------------------------------------------
(* Grants, unless the sender gave up on one that may still come.           *)

\* A frame that the receiver may answer.
Candidate(l, g) == \/ g.type = "FF"
                   \/ /\ g.type = "CF" /\ l.phase = "wait"
                      /\ g.piece[1] = l.msg /\ g.piece[2] = l.off

\* An answer is under way, or a foreign receiver will send one.
Answered(f, o) == Len(f) # 0 \/ o

\* One question at a time: the last frame under way, or its answer, or neither.
Asking(l, d, f, o) ==
    /\ \A i \in 1..Len(d) : d[i].type = "FF" =>
          i = Len(d) /\ l.phase = "wait" /\ l.off = 1 /\ d[i].piece[1] = l.msg
    /\ \A i \in 1..Len(d) : Candidate(l, d[i]) => ~Answered(f, o)
    /\ Len(f) <= 1
    /\ Answered(f, o) => l.phase = "wait" /\ Len(d) = 0
    /\ o => \A i \in 1..Len(f) : f[i].status = "WAIT"
    /\ l.phase = "send" \/ (l.phase = "wait" /\ l.off > 1) =>
          \A i \in 1..Len(d) : d[i].type = "CF"

\* The answer comes before N_Bs has expired.
InTime(l, d, f) ==
    l.phase = "wait" =>
       /\ \A i \in 1..Len(d) : Candidate(l, d[i]) => l.timer <= d[i].age
       /\ \A i \in 1..Len(f) : l.timer <= MaxDelay + f[i].age

\* A foreign receiver is the only one that does not grant at once.
PutsOff(f, o, u) ==
    o \/ (\E i \in 1..Len(f) : f[i].status # "CTS") => "foreign" \in u

\* The message that pieces in a buffer are of.
Msg(b) == b[1][1]

\* The message the receiver is at, and the piece that completes the block.
Current(r)  == Msg(r.buf)
BlockEnd(r) == Len(r.buf) - r.blockCf + BlockSize

\* What the receiver holds are pieces of one message, in their order.
Holding(r, n) ==
    r.phase = "recv" =>
       /\ Len(r.buf) >= 1 /\ Len(r.buf) < r.len
       /\ Current(r) \in 1..Len(Pieces) /\ Current(r) < n
       /\ r.len = Pieces[Current(r)] /\ ~r.functional
       /\ r.buf[1][2] = 1
       /\ \A i \in 1..Len(r.buf) : r.buf[i][1] = Current(r)
       /\ \A i, j \in 1..Len(r.buf) : i < j => r.buf[j][2] - r.buf[i][2] >= j - i
       /\ BlockSize # 0 => r.blockCf < BlockSize

\* What is under way to it comes after what it holds.
Coming(l, r, d) ==
    r.phase = "recv" => \A i \in 1..Len(d) :
       /\ d[i].type # "CF" => Current(r) < d[i].piece[1]
       /\ d[i].type = "CF" =>
             /\ d[i].piece[1] = Current(r)
             /\ r.buf[Len(r.buf)][2] < d[i].piece[2]
             /\ BlockSize # 0 => \/ d[i].piece[2] < BlockEnd(r)
                                 \/ /\ d[i].piece[2] = BlockEnd(r)
                                    /\ d[i].piece[2] = r.len \/ Candidate(l, d[i])

\* Both halves are at the same place of the same message.
Together(l, r, d, f, o) ==
    /\ r.phase = "recv" =>
          /\ Busy(l) /\ Current(r) = l.msg => r.buf[Len(r.buf)][2] <= l.off
          /\ l.phase = "send" =>
                /\ Current(r) = l.msg
                /\ BlockSize # 0 => l.off + l.bsLeft <= BlockEnd(r)
          /\ Answered(f, o) => Len(r.buf) = l.off /\ Current(r) = l.msg
    /\ Answered(f, o) => r.blockCf = 0
    /\ o => r.phase = "recv"
    /\ BlockSize # 0 /\ l.phase = "send" =>
          r.blockCf + Len(d) + l.bsLeft <= BlockSize

Agreed(l, r, d, f, o, u, n) ==
    "gaveUp" \notin u =>
       /\ Asking(l, d, f, o) /\ PutsOff(f, o, u)
       /\ "foreign" \notin u => InTime(l, d, f)
       /\ Holding(r, n) /\ Coming(l, r, d) /\ Together(l, r, d, f, o)

\* What was delivered, and what is still to be.
Arrived(r, d, v, n) ==
    /\ \A i \in 1..Len(v) :
          \E m \in 1..Len(Pieces) : m < n /\ v[i] = Whole(m)
    /\ \A i, j \in 1..Len(v) : i < j => Msg(v[i]) < Msg(v[j])
    /\ \A i \in 1..Len(v) :
          /\ r.phase = "recv" => Msg(v[i]) < Current(r)
          /\ \A j \in 1..Len(d) :
                d[j].type # "CF" => Msg(v[i]) < d[j].piece[1]

Link(l, r, d, f, o, u, v, n) ==
    /\ Sending(l, n) /\ UnderWay(l, d, f, n)
    /\ Agreed(l, r, d, f, o, u, n)
    /\ "gaveUp" \notin u => Arrived(r, d, v, n)

LinkInv == /\ TypeOK /\ ~rx.complete
           /\ Link(tx, rx, data, fc, owed, upsets, delivered, next)

-----------------------------------------------------------------------------
(* With nothing lost, refused or put off.                                  *)

Follows(p, q) == IF p[2] = Pieces[p[1]] THEN q[1] = p[1] + 1 /\ q[2] = 1
                 ELSE q[1] = p[1] /\ q[2] = p[2] + 1

\* Piece p is the n-th of message m.
At(p, m, n) == p[1] = m /\ p[2] = n

\* Every piece that was sent is delivered, in the buffer or under way.
NoneMissing(l, r, d, done, n) ==
    /\ r.phase = "recv" => \A i \in 1..Len(r.buf) : At(r.buf[i], done + 1, i)
    /\ Len(d) # 0 => At(d[1].piece, done + 1,
                        IF r.phase = "recv" THEN Len(r.buf) + 1 ELSE 1)
    /\ \A i \in 1..Len(d) - 1 : Follows(d[i].piece, d[i + 1].piece)
    /\ ~Busy(l) => IF Len(d) = 0 THEN r.phase = "idle" /\ done = n - 1
                   ELSE At(d[Len(d)].piece, n - 1, Pieces[n - 1])

\* The last l.off pieces are those of the message that is being sent.
Trail(l, r, d, done) ==
    Busy(l) =>
       /\ \A i \in 1..Len(d) :
             Len(d) < l.off + i => At(d[i].piece, l.msg, l.off + i - Len(d))
       /\ Len(d) < l.off => /\ r.phase = "recv" /\ done + 1 = l.msg
                            /\ Len(r.buf) + Len(d) = l.off

\* Both halves count the same block.
InBlock(l, r, d) ==
    BlockSize # 0 =>
       /\ l.phase = "send" => r.blockCf + Len(d) + l.bsLeft = BlockSize
       /\ l.phase = "wait" /\ l.off > 1 /\ Len(d) # 0 => r.blockCf + Len(d) = BlockSize

\* The grant is never missing.
GrantComes(l, d, f) == l.phase = "wait" /\ Len(d) = 0 => Len(f) # 0

Numbers(l, r, d) ==
    /\ \A i \in 1..Len(d) - 1 : d[i].type = "CF" /\ d[i + 1].type = "CF"
          => d[i + 1].sn = (d[i].sn + 1) % SnMod
    /\ r.phase = "recv" /\ Len(d) # 0 => (d[1].type = "CF" => d[1].sn = r.sn)
    /\ Busy(l) => IF Len(d) = 0 THEN l.sn = r.sn
                  ELSE IF d[Len(d)].type = "CF"
                       THEN l.sn = (d[Len(d)].sn + 1) % SnMod
                  ELSE l.sn = 1

\* N_Cr does not expire.
Pace(l, r, d, f) ==
    /\ l.phase = "send" => l.stTimer <= STmin + 1
    /\ r.phase = "recv" =>
       /\ Len(d) # 0 => r.timer <= MaxDelay + STmin + 1 + d[1].age
       /\ Len(d) = 0 /\ l.phase = "send" => r.timer <= MaxDelay + l.stTimer
       /\ Len(d) = 0 /\ l.phase = "wait" => r.timer <= f[1].age

Flow(l, r, d, f, done, n) ==
    /\ NoneMissing(l, r, d, done, n) /\ Trail(l, r, d, done) /\ InBlock(l, r, d)
    /\ GrantComes(l, d, f) /\ Numbers(l, r, d) /\ Pace(l, r, d, f)

FlowInv == upsets = {} => Flow(tx, rx, data, fc, Len(delivered), next)

-----------------------------------------------------------------------------
(* The channels, and the types of what is in them.                         *)

Popped(s, t) == /\ Len(s) = Len(t) + 1
                /\ \A i \in 1..Len(t) : t[i] = s[i + 1]

Pushed(s, t, e) == /\ Len(t) = Len(s) + 1
                   /\ \A i \in 1..Len(s) : t[i] = s[i]
                   /\ t[Len(t)] = e

\* Taking the first frame off a channel.
LEMMA Popping == ASSUME NEW S, NEW s \in Seq(S), s # <<>>
                 PROVE  /\ Tail(s) \in Seq(S) /\ Popped(s, Tail(s))
                        /\ Head(s) = s[1] /\ Head(s) \in S
BY HeadTailProperties, LenProperties DEF Popped

\* Putting a frame on a channel, or a piece into the buffer.
LEMMA Pushing == ASSUME NEW S, NEW s \in Seq(S), NEW e \in S
                 PROVE  /\ Append(s, e) \in Seq(S) /\ Pushed(s, Append(s, e), e)
                        /\ Len(s) \in Nat /\ Len(Append(s, e)) = Len(s) + 1
BY AppendProperties, LenProperties DEF Pushed

\* A channel is empty if its length is zero.
LEMMA Empty == ASSUME NEW S, NEW s \in Seq(S)
               PROVE  s = <<>> <=> Len(s) = 0
BY EmptySeq

\* The constants, in the form the proofs use.
LEMMA Constants ==
    /\ Len(Pieces) \in Nat
    /\ \A m \in 1..Len(Pieces) : Pieces[m] \in Nat /\ Pieces[m] >= 1
    /\ Messages = 1..Len(Pieces)
    /\ BlockSize \in Nat /\ STmin \in Nat /\ WftMax \in Nat /\ MaxDelay \in Nat
    /\ NBs \in Nat /\ NBs >= 1 /\ NCr \in Nat /\ NCr >= 1
    /\ SnMod \in Nat /\ SnMod >= 1
<1>1. Pieces \in Seq(Nat \ {0})
  BY IsoTpAssumption
<1>2. \A m \in 1..Len(Pieces) : Pieces[m] \in Nat \ {0}
  BY <1>1, ElementOfSeq
<1>3. Len(Pieces) \in Nat /\ Messages = 1..Len(Pieces)
  BY <1>1, LenProperties DEF Messages
<1> QED
  BY <1>2, <1>3, IsoTpAssumption

\* The pieces of a buffer.
LEMMA PieceFields ==
    ASSUME NEW b \in Buffers
    PROVE  /\ Len(b) \in Nat
           /\ \A i \in 1..Len(b) : b[i][1] \in Nat /\ b[i][2] \in Nat
<1>1. \A i \in 1..Len(b) : b[i] \in PieceType
  BY ElementOfSeq DEF Buffers
<1> QED
  BY <1>1, LenProperties DEF PieceType, Buffers

\* The fields of a frame.
LEMMA FrameFields ==
    ASSUME NEW g \in DataType
    PROVE  /\ g.type \in {"SF", "FF", "CF"} /\ g.piece \in PieceType
           /\ g.piece[1] \in Nat /\ g.piece[2] \in Nat
           /\ g.piece = <<g.piece[1], g.piece[2]>>
           /\ g.len \in Nat /\ g.sn \in Nat /\ g.age \in Nat
BY DEF DataType, PieceType

\* The fields of the frames under way.
LEMMA DataFields ==
    ASSUME NEW d \in DataQueue
    PROVE  /\ Len(d) \in Nat
           /\ \A i \in 1..Len(d) :
                 /\ d[i].type \in {"SF", "FF", "CF"}
                 /\ d[i].piece[1] \in Nat /\ d[i].piece[2] \in Nat
                 /\ d[i].len \in Nat /\ d[i].sn \in Nat /\ d[i].age \in Nat
<1>1. \A i \in 1..Len(d) : d[i] \in DataType
  BY ElementOfSeq DEF DataQueue
<1> QED
  BY <1>1, LenProperties, FrameFields DEF DataQueue

\* The fields of the flow control frames under way.
LEMMA FcFields ==
    ASSUME NEW f \in FcQueue
    PROVE  /\ Len(f) \in Nat
           /\ \A i \in 1..Len(f) : /\ f[i].status \in {"CTS", "WAIT", "OVFLW"}
                                   /\ f[i].age \in Nat
<1>1. \A i \in 1..Len(f) : f[i] \in FcType
  BY ElementOfSeq DEF FcQueue
<1> QED
  BY <1>1, LenProperties DEF FcType, FcQueue

\* The fields of the sending half.
LEMMA TxFields ==
    ASSUME NEW l \in TxType
    PROVE  /\ l.phase \in {"idle", "wait", "send"} /\ l.msg \in Nat
           /\ l.off \in Nat /\ l.sn \in Nat /\ l.bsLeft \in Nat /\ l.wft \in Nat
           /\ l.timer \in Nat /\ l.stTimer \in Nat
BY DEF TxType

\* The fields of the receiving half.
LEMMA RxFields ==
    ASSUME NEW r \in RxType
    PROVE  /\ r.phase \in {"idle", "recv"} /\ r.buf \in Buffers
           /\ r.len \in Nat /\ r.sn \in Nat /\ r.blockCf \in Nat
           /\ r.timer \in Nat /\ r.complete \in BOOLEAN /\ r.functional \in BOOLEAN
           /\ Len(r.buf) \in Nat
           /\ \A i \in 1..Len(r.buf) : r.buf[i][1] \in Nat /\ r.buf[i][2] \in Nat
<1>1. r.phase \in {"idle", "recv"} /\ r.buf \in Buffers
      /\ r.len \in Nat /\ r.sn \in Nat /\ r.blockCf \in Nat /\ r.timer \in Nat
  BY DEF RxType
<1>2. r.complete \in BOOLEAN /\ r.functional \in BOOLEAN
  BY Zenon DEF RxType
<1> QED
  BY <1>1, <1>2, PieceFields

-----------------------------------------------------------------------------
(* The sending half.                                                       *)

\* The first piece of a message tells which message it is.
LEMMA WholeFirst == \A m \in 1..Len(Pieces) : Msg(Whole(m)) = m
BY Constants DEF Msg, Whole

\* What was delivered is of messages that were started.
LEMMA ArrivedBefore ==
    ASSUME NEW n \in Nat, NEW v, NEW r, NEW d, Arrived(r, d, v, n)
    PROVE  \A i \in 1..Len(v) : Msg(v[i]) \in Nat /\ Msg(v[i]) < n
BY WholeFirst DEF Arrived

\* isotp_send: the first frame of message n.
LEMMA FirstSent ==
    ASSUME NEW l \in TxType, NEW r \in RxType, NEW d \in DataQueue,
           NEW f \in FcQueue, NEW o \in BOOLEAN, NEW u,
           NEW v, NEW n \in Nat,
           Link(l, r, d, f, o, u, v, n), l.phase = "idle", n \in 1..Len(Pieces),
           NEW l2 \in TxType, NEW e \in DataQueue, NEW g \in DataType,
           Pushed(d, e, g), g.piece[1] = n, g.piece[2] = 1, g.age = 0,
           g.len = Pieces[n],
           \/ g.type = "SF" /\ Pieces[n] = 1 /\ l2.phase = "idle" /\ l2.bsLeft = 0
           \/ /\ g.type = "FF" /\ Pieces[n] # 1
              /\ l2.phase = "wait" /\ l2.msg = n /\ l2.off = 1
              /\ l2.bsLeft = 0 /\ l2.timer = 0
    PROVE  Link(l2, r, e, f, o, u, v, n + 1)
<1>0. /\ Len(e) = Len(d) + 1 /\ e[Len(e)] = g /\ \A i \in 1..Len(d) : e[i] = d[i]
      /\ Len(d) \in Nat /\ Len(e) \in Nat
      /\ \A i \in 1..Len(d) : d[i].piece[1] \in Nat /\ d[i].piece[2] \in Nat
      /\ \A i \in 1..Len(e) : \/ (i \in 1..Len(d) /\ e[i] = d[i])
                               \/ (i = Len(e) /\ i = Len(d) + 1 /\ e[i] = g)
  <2>1. /\ Len(d) \in Nat /\ Len(e) \in Nat
        /\ \A i \in 1..Len(d) : d[i].piece[1] \in Nat /\ d[i].piece[2] \in Nat
    BY DataFields
  <2> QED
    BY <2>1 DEF Pushed
<1>1. Sending(l2, n + 1)
  BY Constants, TxFields DEF Sending, Busy
<1>2. \A i \in 1..Len(d) : Genuine(d[i], n) /\ d[i].age <= MaxDelay
  BY DEF Link, UnderWay
<1>3. UnderWay(l2, e, f, n + 1)
  <2>1. \A i \in 1..Len(e) : Genuine(e[i], n + 1) /\ e[i].age <= MaxDelay
    <3> SUFFICES ASSUME NEW i \in 1..Len(e)
                 PROVE  Genuine(e[i], n + 1) /\ e[i].age <= MaxDelay
      OBVIOUS
    <3>1. CASE i \in 1..Len(d)
      <4>1. Genuine(d[i], n) /\ d[i].age <= MaxDelay /\ d[i].piece[1] \in Nat
        BY <1>0, <1>2, <3>1
      <4>2. Genuine(d[i], n + 1)
        BY <4>1 DEF Genuine
      <4> QED
        BY <1>0, <3>1, <4>1, <4>2
    <3>2. CASE i = Len(e)
      <4>1. Genuine(g, n + 1) /\ g.age <= MaxDelay
        BY Constants DEF Genuine
      <4> QED
        BY <1>0, <3>2, <4>1
    <3> QED
      BY <1>0, <3>1, <3>2
  <2>2. \A i \in 1..Len(d) : d[i].piece[1] < n
    BY <1>2 DEF Genuine
  <2>3. InOrder(d)
    BY DEF Link, UnderWay
  <2>4. InOrder(e)
    <3> SUFFICES ASSUME NEW i \in 1..Len(e), NEW j \in 1..Len(e), i < j
                 PROVE  Before(e[i].piece, e[j].piece)
      BY DEF InOrder
    <3>1. CASE j \in 1..Len(d)
      <4>1. i \in 1..Len(d) /\ e[i] = d[i] /\ e[j] = d[j]
        BY <1>0, <3>1
      <4> QED
        BY <2>3, <3>1, <4>1 DEF InOrder
    <3>2. CASE j = Len(e)
      <4>1. i \in 1..Len(d) /\ e[i] = d[i] /\ e[j] = g
        BY <1>0, <3>2
      <4> QED
        BY <2>2, <4>1 DEF Before
    <3> QED
      BY <1>0, <3>1, <3>2
  <2>5. SentSoFar(l2, e)
    BY <1>0, <2>2 DEF SentSoFar, Busy
  <2>6. \A i \in 1..Len(f) : f[i].age <= MaxDelay
    BY DEF Link, UnderWay
  <2> QED
    BY <2>1, <2>4, <2>5, <2>6 DEF UnderWay
<1>4. ASSUME "gaveUp" \notin u
      PROVE  /\ Asking(l2, e, f, o) /\ PutsOff(f, o, u) /\ InTime(l2, e, f)
             /\ Holding(r, n + 1) /\ Coming(l2, r, e) /\ Together(l2, r, e, f, o)
             /\ Arrived(r, e, v, n + 1)
  <2>1. /\ Asking(l, d, f, o) /\ PutsOff(f, o, u) /\ Holding(r, n)
        /\ Coming(l, r, d) /\ Together(l, r, d, f, o) /\ Arrived(r, d, v, n)
    BY <1>4 DEF Link, Agreed
  <2>2. ~Answered(f, o) /\ \A i \in 1..Len(d) : d[i].type # "FF"
    BY <2>1 DEF Asking
  <2>3. \A i \in 1..Len(d) : d[i].piece[1] < n
    BY <1>2 DEF Genuine
  <2>c. \A i \in 1..Len(e) : \/ (~Candidate(l2, e[i]) /\ e[i].type # "FF")
                               \/ (i = Len(e) /\ e[i] = g)
    BY <1>0, <2>2, <2>3 DEF Candidate
  <2>f. Len(f) = 0 /\ ~o
    BY <2>2 DEF Answered
  <2>s. \/ (l2.phase = "idle" /\ g.type = "SF")
        \/ (l2.phase = "wait" /\ l2.off = 1 /\ l2.msg = n /\ l2.timer = 0)
    OBVIOUS
  <2>4. Asking(l2, e, f, o)
    BY <2>c, <2>f, <2>s DEF Asking, Answered
  <2>5. InTime(l2, e, f)
    <3>1. ASSUME l2.phase = "wait", NEW i \in 1..Len(e), Candidate(l2, e[i])
          PROVE  l2.timer <= e[i].age
      BY <2>c, <2>s, <3>1 DEF Candidate
    <3> QED
      BY <2>f, <3>1 DEF InTime
  <2>6. Holding(r, n + 1)
    BY <2>1, Constants, RxFields DEF Holding, Current, Msg
  <2>7. Coming(l2, r, e)
    <3> SUFFICES ASSUME r.phase = "recv", NEW i \in 1..Len(e)
                 PROVE  /\ e[i].type # "CF" => Current(r) < e[i].piece[1]
                        /\ e[i].type = "CF" =>
                              /\ e[i].piece[1] = Current(r)
                              /\ r.buf[Len(r.buf)][2] < e[i].piece[2]
                              /\ BlockSize # 0 =>
                                    \/ e[i].piece[2] < BlockEnd(r)
                                    \/ /\ e[i].piece[2] = BlockEnd(r)
                                       /\ e[i].piece[2] = r.len \/ Candidate(l2, e[i])
      BY DEF Coming
    <3>1. CASE i \in 1..Len(d)
      BY <1>0, <2>1, <2>2, <3>1 DEF Coming, Candidate
    <3>2. CASE i = Len(e)
      BY <1>0, <2>1, <3>2 DEF Holding
    <3> QED
      BY <1>0, <3>1, <3>2
  <2>8. Together(l2, r, e, f, o)
    BY <2>1, <2>2, RxFields DEF Together, Busy, Holding, Answered
  <2>10. \A i \in 1..Len(v) : Msg(v[i]) \in Nat /\ Msg(v[i]) < n
    BY <2>1, ArrivedBefore
  <2>11. \A i \in 1..Len(v) : \A j \in 1..Len(e) :
            e[j].type # "CF" => Msg(v[i]) < e[j].piece[1]
    <3> SUFFICES ASSUME NEW i \in 1..Len(v), NEW j \in 1..Len(e), e[j].type # "CF"
                 PROVE  Msg(v[i]) < e[j].piece[1]
      OBVIOUS
    <3>1. CASE j \in 1..Len(d) /\ e[j] = d[j]
      BY <2>1, <3>1 DEF Arrived
    <3>2. CASE e[j] = g
      BY <2>10, <3>2
    <3> QED
      BY <1>0, <3>1, <3>2
  <2>12. Arrived(r, e, v, n + 1)
    BY <2>1, <2>11 DEF Arrived
  <2> QED
    BY <2>1, <2>4, <2>5, <2>6, <2>7, <2>8, <2>12
<1> QED
  BY <1>1, <1>3, <1>4 DEF Link, Agreed

\* tx_reset, when nothing is to come that would be answered; or n is not sent.
LEMMA TxDropped ==
    ASSUME NEW l \in TxType, NEW r \in RxType, NEW d \in DataQueue,
           NEW f \in FcQueue, NEW o \in BOOLEAN, NEW u,
           NEW v, NEW n \in Nat,
           Link(l, r, d, f, o, u, v, n),
           NEW l2 \in TxType, l2.phase = "idle", l2.bsLeft = 0,
           NEW n2 \in Nat, n <= n2, n2 <= n + 1, n2 <= Len(Pieces) + 1,
           NEW w, u \subseteq w,
           "gaveUp" \notin w => /\ \A i \in 1..Len(d) : ~Candidate(l, d[i])
                                /\ ~Answered(f, o)
    PROVE  Link(l2, r, d, f, o, w, v, n2)
<1>1. Sending(l2, n2)
  BY Constants DEF Link, Sending, Busy
<1>2. UnderWay(l2, d, f, n2)
  <2>1. \A i \in 1..Len(d) : Genuine(d[i], n) /\ d[i].age <= MaxDelay
    BY DEF Link, UnderWay
  <2>2. \A i \in 1..Len(d) : Genuine(d[i], n2)
    BY <2>1, DataFields DEF Genuine
  <2>3. InOrder(d) /\ \A i \in 1..Len(f) : f[i].age <= MaxDelay
    BY FcFields DEF Link, UnderWay
  <2> QED
    BY <2>1, <2>2, <2>3 DEF UnderWay, SentSoFar, Busy
<1>3. ASSUME "gaveUp" \notin w
      PROVE  /\ Asking(l2, d, f, o) /\ PutsOff(f, o, w) /\ InTime(l2, d, f)
             /\ Holding(r, n2) /\ Coming(l2, r, d) /\ Together(l2, r, d, f, o)
             /\ Arrived(r, d, v, n2)
  <2>1. /\ Asking(l, d, f, o) /\ Holding(r, n)
        /\ Coming(l, r, d) /\ Together(l, r, d, f, o) /\ Arrived(r, d, v, n)
    BY <1>3 DEF Link, Agreed
  <2>2. ~Answered(f, o) /\ \A i \in 1..Len(d) : ~Candidate(l, d[i])
    BY <1>3
  <2>3. Asking(l2, d, f, o) /\ InTime(l2, d, f) /\ PutsOff(f, o, w)
    BY <2>2, FcFields, DataFields DEF Asking, InTime, PutsOff, Answered, Candidate
  <2>4. Holding(r, n2)
    BY <2>1, Constants, RxFields DEF Holding, Current, Msg
  <2>5. Coming(l2, r, d)
    BY <2>1, <2>2 DEF Coming
  <2>6. Together(l2, r, d, f, o)
    BY <2>1, <2>2 DEF Together, Busy, Answered
  <2>7. Arrived(r, d, v, n2)
    BY <2>1 DEF Arrived
  <2> QED
    BY <2>3, <2>4, <2>5, <2>6, <2>7
<1> QED
  BY <1>1, <1>2, <1>3 DEF Link, Agreed

\* A flow control frame that is lost, or comes when none is waited for.
LEMMA FcLost ==
    ASSUME NEW l \in TxType, NEW r \in RxType, NEW d \in DataQueue,
           NEW f \in FcQueue, NEW o \in BOOLEAN, NEW u, NEW v, NEW n \in Nat,
           Link(l, r, d, f, o, u, v, n),
           NEW f2 \in FcQueue, Popped(f, f2),
           NEW w, u \subseteq w, w \subseteq u \cup {"fault"}
    PROVE  Link(l, r, d, f2, o, w, v, n)
<1>1. Len(f2) \in Nat /\ Len(f) = Len(f2) + 1
      /\ \A i \in 1..Len(f2) : i + 1 \in 1..Len(f) /\ f2[i] = f[i + 1]
  BY FcFields DEF Popped
<1>2. Sending(l, n)
  BY DEF Link
<1>3. UnderWay(l, d, f2, n)
  <2>1. UnderWay(l, d, f, n)
    BY DEF Link
  <2>2. \A i \in 1..Len(f2) : f2[i].age <= MaxDelay
    BY <1>1, <2>1 DEF UnderWay
  <2> QED
    BY <2>1, <2>2 DEF UnderWay
<1>4. ASSUME "gaveUp" \notin w
      PROVE  /\ Asking(l, d, f2, o) /\ PutsOff(f2, o, w)
             /\ "foreign" \notin w => InTime(l, d, f2)
             /\ Holding(r, n) /\ Coming(l, r, d) /\ Together(l, r, d, f2, o)
             /\ Arrived(r, d, v, n)
  <2>1. /\ Asking(l, d, f, o) /\ PutsOff(f, o, u)
        /\ "foreign" \notin u => InTime(l, d, f)
        /\ Holding(r, n) /\ Coming(l, r, d) /\ Together(l, r, d, f, o)
        /\ Arrived(r, d, v, n)
    BY <1>4 DEF Link, Agreed
  <2>2. Len(f2) = 0 /\ Answered(f, o) /\ (Answered(f2, o) => o)
    BY <1>1, <2>1 DEF Asking, Answered
  <2>3. Asking(l, d, f2, o)
    BY <2>1, <2>2 DEF Asking
  <2>4. PutsOff(f2, o, w)
    BY <2>1, <2>2 DEF PutsOff
  <2>5. "foreign" \notin w => InTime(l, d, f2)
    BY <2>1, <2>2 DEF InTime
  <2>6. Together(l, r, d, f2, o)
    BY <2>1, <2>2 DEF Together
  <2> QED
    BY <2>1, <2>3, <2>4, <2>5, <2>6
<1> QED
  BY <1>2, <1>3, <1>4 DEF Link, Agreed

\* handle_fc, continue to send.
LEMMA GrantTaken ==
    ASSUME NEW l \in TxType, NEW r \in RxType, NEW d \in DataQueue,
           NEW f \in FcQueue, NEW o \in BOOLEAN, NEW u, NEW v, NEW n \in Nat,
           Link(l, r, d, f, o, u, v, n),
           NEW f2 \in FcQueue, Popped(f, f2),
           l.phase = "wait", f[1].status = "CTS",
           NEW l2 \in TxType, l2.phase = "send", l2.bsLeft = BlockSize,
           l2.msg = l.msg, l2.off = l.off
    PROVE  Link(l2, r, d, f2, o, u, v, n)
<1>1. Link(l, r, d, f2, o, u, v, n)
  BY FcLost
<1>2. Sending(l2, n)
  BY <1>1, Constants DEF Link, Sending, Busy
<1>3. UnderWay(l2, d, f2, n)
  BY <1>1 DEF Link, UnderWay, SentSoFar, Busy
<1>4. ASSUME "gaveUp" \notin u
      PROVE  /\ Asking(l2, d, f2, o) /\ PutsOff(f2, o, u)
             /\ InTime(l2, d, f2)
             /\ Holding(r, n) /\ Coming(l2, r, d) /\ Together(l2, r, d, f2, o)
             /\ Arrived(r, d, v, n)
  <2>1. /\ Asking(l, d, f, o) /\ PutsOff(f2, o, u)
        /\ Holding(r, n) /\ Together(l, r, d, f, o)
        /\ Arrived(r, d, v, n)
    BY <1>1, <1>4 DEF Link, Agreed
  <2>2. Len(f) = 1 /\ Len(f2) = 0 /\ Answered(f, o) /\ Len(d) = 0 /\ ~o
    BY <2>1, FcFields DEF Popped, Asking, Answered
  <2>3. Asking(l2, d, f2, o) /\ InTime(l2, d, f2) /\ Coming(l2, r, d)
    BY <2>2 DEF Asking, Answered, InTime, Coming
  <2>4. r.phase = "recv" =>
           /\ Len(r.buf) = l.off /\ Current(r) = l.msg
           /\ r.buf[Len(r.buf)][2] <= l.off
    BY <2>1, <2>2 DEF Together, Busy
  <2>5. Together(l2, r, d, f2, o)
    BY <2>1, <2>2, <2>4, Constants, TxFields, RxFields
    DEF Together, Busy, Answered, BlockEnd
  <2> QED
    BY <2>1, <2>3, <2>5
<1> QED
  BY <1>2, <1>3, <1>4 DEF Link, Agreed

\* handle_fc, wait.
LEMMA WaitTaken ==
    ASSUME NEW l \in TxType, NEW r \in RxType, NEW d \in DataQueue,
           NEW f \in FcQueue, NEW o \in BOOLEAN, NEW u, NEW v, NEW n \in Nat,
           Link(l, r, d, f, o, u, v, n),
           NEW f2 \in FcQueue, Popped(f, f2),
           l.phase = "wait", f[1].status = "WAIT",
           NEW l2 \in TxType, l2.phase = "wait", l2.bsLeft = l.bsLeft,
           l2.msg = l.msg, l2.off = l.off
    PROVE  /\ Link(l2, r, d, f2, o, u, v, n)
           /\ "gaveUp" \notin u => "foreign" \in u
<1>1. Link(l, r, d, f2, o, u, v, n)
  BY FcLost
<1>2. Sending(l2, n)
  BY <1>1 DEF Link, Sending, Busy
<1>3. UnderWay(l2, d, f2, n)
  BY <1>1 DEF Link, UnderWay, SentSoFar, Busy
<1>4. ASSUME "gaveUp" \notin u
      PROVE  /\ "foreign" \in u
             /\ Asking(l2, d, f2, o) /\ PutsOff(f2, o, u)
             /\ Holding(r, n) /\ Coming(l2, r, d) /\ Together(l2, r, d, f2, o)
             /\ Arrived(r, d, v, n)
  <2>1. /\ Asking(l, d, f2, o) /\ PutsOff(f, o, u) /\ PutsOff(f2, o, u)
        /\ Holding(r, n) /\ Coming(l, r, d) /\ Together(l, r, d, f2, o)
        /\ Arrived(r, d, v, n)
    BY <1>1, <1>4 DEF Link, Agreed
  <2>2. 1 \in 1..Len(f)
    BY FcFields DEF Popped
  <2>3. "foreign" \in u
    BY <2>1, <2>2 DEF PutsOff
  <2>4. Asking(l2, d, f2, o)
    BY <2>1 DEF Asking, Candidate
  <2>5. Coming(l2, r, d)
    BY <2>1 DEF Coming, Candidate
  <2>6. Together(l2, r, d, f2, o)
    BY <2>1 DEF Together, Busy
  <2> QED
    BY <2>1, <2>3, <2>4, <2>5, <2>6
<1> QED
  BY <1>2, <1>3, <1>4 DEF Link, Agreed

\* What AfterCf leaves.
Advanced(l, l2) ==
    IF l.off + 1 = Pieces[l.msg] THEN l2.phase = "idle" /\ l2.bsLeft = 0
    ELSE /\ l2.msg = l.msg /\ l2.off = l.off + 1
         /\ IF l.bsLeft = 1
            THEN l2.phase = "wait" /\ l2.bsLeft = 0 /\ l2.timer = 0
            ELSE /\ l2.phase = "send"
                 /\ l2.bsLeft = IF l.bsLeft = 0 THEN 0 ELSE l.bsLeft - 1

\* A piece sent later comes later in the order of pieces.
LEMMA Later ==
    ASSUME NEW p, NEW q, NEW m \in Nat, NEW k \in Nat, p[1] \in Nat, p[2] \in Nat,
           p[1] <= m, p[1] = m => p[2] <= k, q[1] = m, q[2] = k + 1
    PROVE  Before(p, q)
BY DEF Before

\* isotp_poll: the next consecutive frame, and the state after it.
LEMMA CfSent ==
    ASSUME NEW l \in TxType, NEW r \in RxType, NEW d \in DataQueue,
           NEW f \in FcQueue, NEW o \in BOOLEAN, NEW u, NEW v, NEW n \in Nat,
           Link(l, r, d, f, o, u, v, n), l.phase = "send",
           NEW e \in DataQueue, NEW g \in DataType, Pushed(d, e, g),
           g.type = "CF", g.piece[1] = l.msg, g.piece[2] = l.off + 1, g.age = 0,
           NEW l2 \in TxType,
           Advanced(l, l2)
    PROVE  Link(l2, r, e, f, o, u, v, n)
<1>0. /\ Len(d) \in Nat /\ Len(e) \in Nat /\ Len(e) = Len(d) + 1 /\ e[Len(e)] = g
      /\ \A i \in 1..Len(d) : /\ e[i] = d[i] /\ d[i].piece[1] \in Nat
                              /\ d[i].piece[2] \in Nat
      /\ \A i \in 1..Len(e) : \/ (i \in 1..Len(d) /\ e[i] = d[i])
                              \/ (i = Len(e) /\ i = Len(d) + 1 /\ e[i] = g)
  <2>1. /\ Len(d) \in Nat /\ Len(e) \in Nat
        /\ \A i \in 1..Len(d) : d[i].piece[1] \in Nat /\ d[i].piece[2] \in Nat
    BY DataFields
  <2> QED
    BY <2>1 DEF Pushed
<1>t. l.msg \in Nat /\ l.off \in Nat /\ l.bsLeft \in Nat
  BY TxFields
<1>1. /\ l.msg = n - 1 /\ l.msg \in 1..Len(Pieces) /\ l.off \in 1..Pieces[l.msg] - 1
      /\ Pieces[l.msg] \in Nat
      /\ BlockSize # 0 => l.bsLeft \in 1..BlockSize
      /\ BlockSize = 0 => l.bsLeft = 0
      /\ n \in 1..Len(Pieces) + 1
  BY Constants DEF Link, Sending, Busy
<1>c. BlockSize \in Nat
  BY Constants
<1>a. /\ l2.phase \in {"idle", "wait", "send"} /\ l2.bsLeft \in Nat
      /\ l2.phase # "idle" => /\ l2.msg = l.msg /\ l2.off = l.off + 1
                              /\ l.off + 1 # Pieces[l.msg]
      /\ l2.phase = "idle" => l2.bsLeft = 0 /\ l.off + 1 = Pieces[l.msg]
      /\ l2.phase = "wait" => l.bsLeft = 1 /\ l2.bsLeft = 0 /\ l2.timer = 0
      /\ l2.phase = "send" =>
            /\ l.bsLeft # 1
            /\ l.bsLeft = 0 => l2.bsLeft = 0
            /\ l.bsLeft # 0 => l2.bsLeft = l.bsLeft - 1
  BY TxFields DEF Advanced
<1>2. Sending(l2, n)
  <2>1. l2.phase # "idle" => l2.msg = n - 1 /\ l2.off \in 1..Pieces[l2.msg] - 1
    BY <1>1, <1>t, <1>a
  <2>2. l2.phase = "send" /\ BlockSize # 0 => l2.bsLeft \in 1..BlockSize
    BY <1>1, <1>t, <1>a, <1>c
  <2>3. BlockSize = 0 => l2.bsLeft = 0 /\ l2.phase # "wait"
    BY <1>1, <1>a
  <2> QED
    BY <1>1, <1>a, <2>1, <2>2, <2>3 DEF Sending, Busy
<1>u. UnderWay(l, d, f, n)
  BY DEF Link
<1>3. UnderWay(l2, e, f, n)
  <2>1. Genuine(g, n) /\ g.age <= MaxDelay
    BY <1>1, <1>t, Constants DEF Genuine
  <2>2. \A i \in 1..Len(e) : Genuine(e[i], n) /\ e[i].age <= MaxDelay
    BY <1>0, <1>u, <2>1 DEF UnderWay
  <2>3. \A i \in 1..Len(d) : /\ d[i].piece[1] <= l.msg
                             /\ d[i].piece[1] = l.msg => d[i].piece[2] <= l.off
    BY <1>u DEF UnderWay, SentSoFar, Busy
  <2>4. InOrder(e)
    <3> SUFFICES ASSUME NEW i \in 1..Len(e), NEW j \in 1..Len(e), i < j
                 PROVE  Before(e[i].piece, e[j].piece)
      BY DEF InOrder
    <3>1. CASE j \in 1..Len(d)
      <4>1. i \in 1..Len(d) /\ e[i] = d[i] /\ e[j] = d[j]
        BY <1>0, <3>1
      <4> QED
        BY <1>u, <3>1, <4>1 DEF InOrder, UnderWay
    <3>2. CASE j = Len(e)
      <4>1. i \in 1..Len(d) /\ e[i] = d[i] /\ e[j] = g
        BY <1>0, <3>2
      <4>2. /\ d[i].piece[1] <= l.msg /\ d[i].piece[1] \in Nat
            /\ d[i].piece[1] = l.msg => d[i].piece[2] <= l.off
            /\ d[i].piece[2] \in Nat
        BY <1>0, <2>3, <4>1
      <4>3. e[j].piece[1] = l.msg /\ e[j].piece[2] = l.off + 1
        BY <4>1
      <4> QED
        BY <1>t, <4>1, <4>2, <4>3, Later
    <3> QED
      BY <1>0, <3>1, <3>2
  <2>5. ASSUME l2.phase # "idle", NEW i \in 1..Len(e)
        PROVE  /\ e[i].piece[1] <= l2.msg
               /\ e[i].piece[1] = l2.msg => e[i].piece[2] <= l2.off
    <3>1. l2.msg = l.msg /\ l2.off = l.off + 1
      BY <1>a, <2>5
    <3>2. CASE i \in 1..Len(d) /\ e[i] = d[i]
      BY <1>0, <1>t, <2>3, <3>1, <3>2
    <3>3. CASE e[i] = g
      BY <1>t, <3>1, <3>3
    <3> QED
      BY <1>0, <3>2, <3>3
  <2>6. SentSoFar(l2, e)
    BY <2>5 DEF SentSoFar, Busy
  <2> QED
    BY <1>u, <2>2, <2>4, <2>6 DEF UnderWay
<1>4. ASSUME "gaveUp" \notin u
      PROVE  /\ Asking(l2, e, f, o) /\ PutsOff(f, o, u) /\ InTime(l2, e, f)
             /\ Holding(r, n) /\ Coming(l2, r, e) /\ Together(l2, r, e, f, o)
             /\ Arrived(r, e, v, n)
  <2>1. /\ Asking(l, d, f, o) /\ PutsOff(f, o, u) /\ Holding(r, n)
        /\ Coming(l, r, d) /\ Together(l, r, d, f, o) /\ Arrived(r, d, v, n)
    BY <1>4 DEF Link, Agreed
  <2>2. ~Answered(f, o) /\ Len(f) = 0 /\ ~o
    BY <2>1 DEF Asking, Answered
  <2>3. \A i \in 1..Len(d) : d[i].type = "CF"
    BY <2>1 DEF Asking
  <2>4. \A i \in 1..Len(e) : e[i].type = "CF"
    BY <1>0, <2>3
  <2>5. Asking(l2, e, f, o)
    BY <2>2, <2>4 DEF Asking
  <2>6. l2.phase = "wait" => l2.timer = 0 /\ l2.off = l.off + 1 /\ l2.msg = l.msg
    BY <1>a
  <2>7. InTime(l2, e, f)
    <3>1. \A i \in 1..Len(e) : e[i].age \in Nat
      BY DataFields
    <3> QED
      BY <2>2, <2>6, <3>1 DEF InTime
  <2>8. r.phase = "recv" =>
           /\ Current(r) = l.msg
           /\ r.buf[Len(r.buf)][2] \in Nat /\ r.buf[Len(r.buf)][2] <= l.off
           /\ BlockSize # 0 => l.off + l.bsLeft <= BlockEnd(r)
           /\ BlockEnd(r) \in Int /\ r.len = Pieces[l.msg]
    <3>1. r.phase = "recv" => r.len = Pieces[Current(r)] /\ Len(r.buf) >= 1
      BY <2>1 DEF Holding
    <3>2. BlockEnd(r) \in Int
      BY <1>c, RxFields DEF BlockEnd
    <3>3. r.phase = "recv" => /\ Current(r) = l.msg
                              /\ Busy(l) => r.buf[Len(r.buf)][2] <= l.off
                              /\ BlockSize # 0 => l.off + l.bsLeft <= BlockEnd(r)
      BY <2>1 DEF Together
    <3>4. r.phase = "recv" => r.buf[Len(r.buf)][2] \in Nat
      BY <3>1, RxFields
    <3> QED
      BY <3>1, <3>2, <3>3, <3>4 DEF Busy
  <2>9. Coming(l2, r, e)
    <3> SUFFICES ASSUME r.phase = "recv", NEW i \in 1..Len(e)
                 PROVE  /\ e[i].piece[1] = Current(r)
                        /\ r.buf[Len(r.buf)][2] < e[i].piece[2]
                        /\ BlockSize # 0 =>
                              \/ e[i].piece[2] < BlockEnd(r)
                              \/ /\ e[i].piece[2] = BlockEnd(r)
                                 /\ e[i].piece[2] = r.len \/ Candidate(l2, e[i])
      BY <2>4 DEF Coming
    <3>1. CASE i \in 1..Len(d) /\ e[i] = d[i]
      <4>1. ~Candidate(l, d[i])
        BY <2>3, <3>1 DEF Candidate
      <4> QED
        BY <2>1, <2>3, <3>1, <4>1 DEF Coming
    <3>2. CASE e[i] = g
      <4>1. e[i].piece[1] = Current(r) /\ r.buf[Len(r.buf)][2] < e[i].piece[2]
        <5>1. e[i].piece[1] = l.msg /\ e[i].piece[2] = l.off + 1
          BY <3>2
        <5> QED
          BY <1>t, <2>8, <5>1
      <4>2. ASSUME BlockSize # 0, ~(e[i].piece[2] < BlockEnd(r))
            PROVE  /\ e[i].piece[2] = BlockEnd(r)
                   /\ e[i].piece[2] = r.len \/ Candidate(l2, e[i])
        <5>1. l.bsLeft = 1 /\ l.off + 1 = BlockEnd(r)
          <6>1. e[i].piece[2] = l.off + 1
            BY <3>2
          <6>2. l.bsLeft >= 1 /\ l.off + l.bsLeft <= BlockEnd(r) /\ BlockEnd(r) \in Int
            BY <1>1, <2>8, <4>2
          <6> QED
            BY <1>t, <4>2, <6>1, <6>2
        <5>2. CASE l.off + 1 = Pieces[l.msg]
          BY <2>8, <3>2, <5>1, <5>2
        <5>3. CASE l.off + 1 # Pieces[l.msg]
          BY <1>a, <3>2, <5>1, <5>3 DEF Candidate
        <5> QED
          BY <5>2, <5>3
      <4> QED
        BY <4>1, <4>2
    <3> QED
      BY <1>0, <3>1, <3>2
  <2>10. Together(l2, r, e, f, o)
    <3>1. /\ l2.phase # "idle" => l2.msg = l.msg /\ l2.off = l.off + 1
          /\ BlockSize # 0 /\ l2.phase = "send" =>
                l2.bsLeft = l.bsLeft - 1 /\ l2.bsLeft \in Nat
      BY <1>1, <1>a
    <3>2. BlockSize # 0 => r.blockCf + Len(d) + l.bsLeft <= BlockSize
      BY <2>1 DEF Together
    <3>3. BlockSize # 0 /\ l2.phase = "send"
             => r.blockCf + Len(e) + l2.bsLeft <= BlockSize
      BY <1>0, <1>c, <1>t, <3>1, <3>2, RxFields
    <3>4. ASSUME r.phase = "recv"
          PROVE  /\ Busy(l2) /\ Current(r) = l2.msg => r.buf[Len(r.buf)][2] <= l2.off
                 /\ l2.phase = "send" =>
                       /\ Current(r) = l2.msg
                       /\ BlockSize # 0 => l2.off + l2.bsLeft <= BlockEnd(r)
      BY <1>t, <2>8, <3>1, <3>4 DEF Busy
    <3> QED
      BY <2>2, <3>3, <3>4 DEF Together, Answered
  <2>11. Arrived(r, e, v, n)
    BY <2>1, <2>4 DEF Arrived
  <2> QED
    BY <2>1, <2>5, <2>7, <2>9, <2>10, <2>11
<1> QED
  BY <1>2, <1>3, <1>4 DEF Link, Agreed

-----------------------------------------------------------------------------
(* The receiving half.                                                     *)

\* e is what is left of d when k frames have gone.
Rest(d, e, k) == /\ k \in {0, 1} /\ Len(d) = Len(e) + k
                 /\ \A i \in 1..Len(e) : e[i] = d[i + k]

\* What remains of a channel keeps its order.
LEMMA RestOf ==
    ASSUME NEW d \in DataQueue, NEW e \in DataQueue, NEW k, Rest(d, e, k)
    PROVE  /\ Len(d) \in Nat /\ Len(e) \in Nat /\ Len(e) <= Len(d)
           /\ \A i \in 1..Len(e) : \E j \in 1..Len(d) : e[i] = d[j]
<1>1. Len(d) \in Nat /\ Len(e) \in Nat
  BY DataFields
<1>2. k = 0 \/ k = 1
  BY DEF Rest
<1>3. ASSUME NEW i \in 1..Len(e)
      PROVE  i + k \in 1..Len(d) /\ e[i] = d[i + k]
  BY <1>1, <1>2 DEF Rest
<1> QED
  BY <1>1, <1>2, <1>3 DEF Rest

\* What is true of all frames under way is true of the rest.
LEMMA UnderWayRest ==
    ASSUME NEW l \in TxType, NEW d \in DataQueue, NEW f, NEW n,
           NEW e \in DataQueue, NEW k, Rest(d, e, k), UnderWay(l, d, f, n)
    PROVE  UnderWay(l, e, f, n)
<1>1. \A i \in 1..Len(e) : \E j \in 1..Len(d) : e[i] = d[j]
  BY RestOf
<1>2. \A i \in 1..Len(e) : Genuine(e[i], n) /\ e[i].age <= MaxDelay
  BY <1>1 DEF UnderWay
<1>3. InOrder(e)
  <2>1. SUFFICES ASSUME NEW i \in 1..Len(e), NEW j \in 1..Len(e), i < j
                 PROVE  Before(e[i].piece, e[j].piece)
    BY DEF InOrder
  <2>2. Len(d) \in Nat /\ Len(e) \in Nat /\ (k = 0 \/ k = 1) /\ Len(d) = Len(e) + k
    BY RestOf DEF Rest
  <2>3. i + k \in 1..Len(d) /\ j + k \in 1..Len(d) /\ i + k < j + k
    BY <2>1, <2>2
  <2>4. e[i] = d[i + k] /\ e[j] = d[j + k]
    BY DEF Rest
  <2> QED
    BY <2>3, <2>4 DEF UnderWay, InOrder
<1>4. SentSoFar(l, e)
  BY <1>1 DEF UnderWay, SentSoFar
<1> QED
  BY <1>2, <1>3, <1>4 DEF UnderWay

\* So with the one question at a time,
LEMMA AskingRest ==
    ASSUME NEW l \in TxType, NEW d \in DataQueue, NEW f \in FcQueue,
           NEW e \in DataQueue, NEW k, Rest(d, e, k),
           NEW o \in BOOLEAN, NEW o2 \in BOOLEAN, o2 => o, Asking(l, d, f, o)
    PROVE  Asking(l, e, f, o2)
<1>1. \A i \in 1..Len(e) : \E j \in 1..Len(d) : e[i] = d[j]
  BY RestOf
<1>2. Answered(f, o2) => Answered(f, o)
  BY DEF Answered
<1>3. ASSUME NEW i \in 1..Len(e), e[i].type = "FF"
      PROVE  i = Len(e) /\ l.phase = "wait" /\ l.off = 1 /\ e[i].piece[1] = l.msg
  <2>1. Len(d) \in Nat /\ Len(e) \in Nat /\ (k = 0 \/ k = 1) /\ Len(d) = Len(e) + k
    BY RestOf DEF Rest
  <2>2. i + k \in 1..Len(d) /\ e[i] = d[i + k]
    BY <2>1 DEF Rest
  <2>3. i + k = Len(d) /\ l.phase = "wait" /\ l.off = 1 /\ e[i].piece[1] = l.msg
    BY <1>3, <2>2 DEF Asking
  <2> QED
    BY <2>1, <2>3
<1>4. \A i \in 1..Len(e) : Candidate(l, e[i]) => ~Answered(f, o2)
  BY <1>1, <1>2 DEF Asking
<1>5. Answered(f, o2) => l.phase = "wait" /\ Len(e) = 0
  <2>1. Len(d) \in Nat /\ Len(e) \in Nat /\ Len(e) <= Len(d)
    BY RestOf
  <2> QED
    BY <1>2, <2>1 DEF Asking
<1> QED
  BY <1>1, <1>3, <1>4, <1>5 DEF Asking

\* with the time an answer takes,
LEMMA InTimeRest ==
    ASSUME NEW l \in TxType, NEW d \in DataQueue, NEW f \in FcQueue,
           NEW e \in DataQueue, NEW k, Rest(d, e, k), InTime(l, d, f)
    PROVE  InTime(l, e, f)
BY RestOf DEF InTime

\* and with what was delivered.
LEMMA ArrivedRest ==
    ASSUME NEW r, NEW d, NEW v, NEW n, Arrived(r, d, v, n), NEW e, NEW r2,
           \A i \in 1..Len(e) : \E j \in 1..Len(d) : e[i] = d[j],
           r2.phase = "recv" => r.phase = "recv" /\ Current(r2) = Current(r)
    PROVE  Arrived(r2, e, v, n)
<1>1. ASSUME NEW i \in 1..Len(v), NEW j \in 1..Len(e), e[j].type # "CF"
      PROVE  Msg(v[i]) < e[j].piece[1]
  <2>1. PICK k \in 1..Len(d) : e[j] = d[k]
    OBVIOUS
  <2> QED
    BY <1>1, <2>1 DEF Arrived
<1>2. ASSUME NEW i \in 1..Len(v), r2.phase = "recv"
      PROVE  Msg(v[i]) < Current(r2)
  BY <1>2 DEF Arrived
<1> QED
  BY <1>1, <1>2 DEF Arrived

\* A frame that the bus loses.
LEMMA DataLost ==
    ASSUME NEW l \in TxType, NEW r \in RxType, NEW d \in DataQueue,
           NEW f \in FcQueue, NEW o \in BOOLEAN, NEW u, NEW v, NEW n \in Nat,
           Link(l, r, d, f, o, u, v, n), NEW e \in DataQueue, Popped(d, e),
           NEW w, u \subseteq w, w \subseteq u \cup {"fault"}
    PROVE  Link(l, r, e, f, o, w, v, n)
<1>1. Rest(d, e, 1)
  BY DEF Popped, Rest
<1>2. Len(d) \in Nat /\ Len(e) \in Nat /\ Len(e) <= Len(d)
      /\ \A i \in 1..Len(e) : \E j \in 1..Len(d) : e[i] = d[j]
  BY <1>1, RestOf
<1>3. Sending(l, n) /\ UnderWay(l, e, f, n)
  BY <1>1, UnderWayRest DEF Link
<1>4. ASSUME "gaveUp" \notin w
      PROVE  /\ Asking(l, e, f, o) /\ PutsOff(f, o, w)
             /\ "foreign" \notin w => InTime(l, e, f)
             /\ Holding(r, n) /\ Coming(l, r, e) /\ Together(l, r, e, f, o)
             /\ Arrived(r, e, v, n)
  <2>1. /\ Asking(l, d, f, o) /\ PutsOff(f, o, u)
        /\ "foreign" \notin u => InTime(l, d, f)
        /\ Holding(r, n) /\ Coming(l, r, d) /\ Together(l, r, d, f, o)
        /\ Arrived(r, d, v, n)
    BY <1>4 DEF Link, Agreed
  <2>2. Asking(l, e, f, o) /\ ("foreign" \notin w => InTime(l, e, f))
    BY <1>1, <2>1, AskingRest, InTimeRest
  <2>3. PutsOff(f, o, w)
    BY <2>1 DEF PutsOff
  <2>4. Coming(l, r, e)
    BY <1>2, <2>1 DEF Coming
  <2>5. Together(l, r, e, f, o)
    <3>1. BlockSize # 0 /\ l.phase = "send" => r.blockCf + Len(d) + l.bsLeft <= BlockSize
      BY <2>1 DEF Together
    <3>2. BlockSize # 0 /\ l.phase = "send" => r.blockCf + Len(e) + l.bsLeft <= BlockSize
      BY <1>2, <3>1, Constants, TxFields, RxFields
    <3> QED
      BY <2>1, <3>2 DEF Together
  <2>6. Arrived(r, e, v, n)
    BY <1>2, <2>1, ArrivedRest
  <2> QED
    BY <2>1, <2>2, <2>3, <2>4, <2>5, <2>6
<1> QED
  BY <1>3, <1>4 DEF Link, Agreed

\* The receiver takes a frame, or none, and is idle.
LEMMA RxStops ==
    ASSUME NEW l \in TxType, NEW r \in RxType, NEW d \in DataQueue,
           NEW f \in FcQueue, NEW o \in BOOLEAN, NEW u, NEW v, NEW n \in Nat,
           Link(l, r, d, f, o, u, v, n),
           NEW e \in DataQueue, NEW k, Rest(d, e, k),
           NEW r2 \in RxType, r2.phase = "idle",
           r2.blockCf + Len(e) <= r.blockCf + Len(d),
           "gaveUp" \notin u /\ Answered(f, FALSE) => r2.blockCf = 0,
           NEW v2, "gaveUp" \notin u => Arrived(r2, e, v2, n)
    PROVE  Link(l, r2, e, f, FALSE, u, v2, n)
<1>2. Len(d) \in Nat /\ Len(e) \in Nat /\ Len(e) <= Len(d)
  BY RestOf
<1>3. Sending(l, n) /\ UnderWay(l, e, f, n)
  BY UnderWayRest DEF Link
<1>4. ASSUME "gaveUp" \notin u
      PROVE  /\ Asking(l, e, f, FALSE) /\ PutsOff(f, FALSE, u)
             /\ "foreign" \notin u => InTime(l, e, f)
             /\ Holding(r2, n) /\ Coming(l, r2, e) /\ Together(l, r2, e, f, FALSE)
  <2>1. /\ Asking(l, d, f, o) /\ PutsOff(f, o, u)
        /\ "foreign" \notin u => InTime(l, d, f)
        /\ Together(l, r, d, f, o)
    BY <1>4 DEF Link, Agreed
  <2>2. Asking(l, e, f, FALSE) /\ ("foreign" \notin u => InTime(l, e, f))
    BY <2>1, AskingRest, InTimeRest
  <2>3. PutsOff(f, FALSE, u)
    BY <2>1 DEF PutsOff
  <2>4. Holding(r2, n) /\ Coming(l, r2, e)
    BY DEF Holding, Coming
  <2>5. Together(l, r2, e, f, FALSE)
    <3>1. BlockSize # 0 /\ l.phase = "send" => r.blockCf + Len(d) + l.bsLeft <= BlockSize
      BY <2>1 DEF Together
    <3>2. BlockSize # 0 /\ l.phase = "send" => r2.blockCf + Len(e) + l.bsLeft <= BlockSize
      BY <1>2, <3>1, Constants, TxFields, RxFields
    <3> QED
      BY <1>4, <3>2 DEF Together
  <2> QED
    BY <2>2, <2>3, <2>4, <2>5
<1> QED
  BY <1>3, <1>4 DEF Link, Agreed

\* A message is the sequence of its pieces.
LEMMA WholeSeq ==
    ASSUME NEW m \in 1..Len(Pieces)
    PROVE  /\ Whole(m) \in Seq(PieceType) /\ Len(Whole(m)) = Pieces[m]
           /\ \A i \in 1..Pieces[m] : Whole(m)[i] = <<m, i>>
<1>1. Pieces[m] \in Nat /\ m \in Nat
  BY Constants
<1>2. \A i \in 1..Pieces[m] : <<m, i>> \in PieceType
  BY <1>1 DEF PieceType
<1>3. Whole(m) \in [1..Pieces[m] -> PieceType]
  BY <1>2 DEF Whole
<1>4. Whole(m) \in Seq(PieceType)
  BY <1>1, <1>3, SeqDef
<1>5. Len(Whole(m)) = Pieces[m]
  BY <1>1, <1>3, <1>4, LenProperties
<1> QED
  BY <1>4, <1>5 DEF Whole

\* What the receiver holds after handle_cf took piece p.
Appended(r, b, p) == /\ Len(b) = Len(r.buf) + 1
                     /\ \A i \in 1..Len(r.buf) : b[i] = r.buf[i]
                     /\ b[Len(r.buf) + 1] = p

\* handle_cf stores a piece: it is of the same message and comes later.
LEMMA CfKept ==
    ASSUME NEW l \in TxType, NEW r \in RxType, NEW d \in DataQueue, NEW n \in Nat,
           Holding(r, n), Coming(l, r, d), r.phase = "recv",
           1 \in 1..Len(d), d[1].type = "CF", NEW b, Appended(r, b, d[1].piece)
    PROVE  /\ Msg(b) = Current(r) /\ b[1][2] = 1
           /\ \A i \in 1..Len(b) : b[i][1] = Current(r) /\ b[i][2] \in Nat
           /\ \A i, j \in 1..Len(b) : i < j => b[j][2] - b[i][2] >= j - i
<1>1. /\ Len(r.buf) \in Nat /\ Len(r.buf) >= 1 /\ Len(b) = Len(r.buf) + 1
      /\ r.buf[1][2] = 1
      /\ \A i \in 1..Len(r.buf) : /\ r.buf[i][1] = Current(r) /\ r.buf[i][2] \in Nat
                                  /\ b[i] = r.buf[i]
      /\ b[Len(b)] = d[1].piece
  BY RxFields DEF Holding, Appended
<1>2. /\ d[1].piece[1] = Current(r) /\ d[1].piece[2] \in Nat
      /\ r.buf[Len(r.buf)][2] < d[1].piece[2]
  BY DataFields DEF Coming
<1>3. Msg(b) = Current(r) /\ b[1][2] = 1
  BY <1>1 DEF Msg
<1>4. \A i \in 1..Len(b) : b[i][1] = Current(r) /\ b[i][2] \in Nat
  <2> SUFFICES ASSUME NEW i \in 1..Len(b) PROVE b[i][1] = Current(r) /\ b[i][2] \in Nat
    OBVIOUS
  <2>1. CASE i \in 1..Len(r.buf)
    BY <1>1, <2>1
  <2>2. CASE i = Len(b)
    BY <1>1, <1>2, <2>2
  <2> QED
    BY <1>1, <2>1, <2>2
<1>5. ASSUME NEW i \in 1..Len(b), NEW j \in 1..Len(b), i < j
      PROVE  b[j][2] - b[i][2] >= j - i
  <2>1. i \in 1..Len(r.buf) /\ b[i] = r.buf[i] /\ r.buf[i][2] \in Nat
    BY <1>1, <1>5
  <2>2. \A h \in 1..Len(r.buf) : i < h => r.buf[h][2] - r.buf[i][2] >= h - i
    BY <2>1 DEF Holding
  <2>3. CASE j \in 1..Len(r.buf)
    BY <1>1, <1>5, <2>1, <2>2, <2>3
  <2>4. CASE j = Len(b)
    <3> DEFINE x == r.buf[Len(r.buf)][2]
               y == r.buf[i][2]
               z == d[1].piece[2]
    <3>1. i \in Nat /\ j = Len(r.buf) + 1 /\ i <= Len(r.buf) /\ Len(r.buf) \in 1..Len(r.buf)
      BY <1>1, <2>1, <2>4
    <3>2. x \in Nat /\ y \in Nat /\ z \in Nat /\ x < z
      BY <1>1, <1>2, <2>1, <3>1
    <3>3. i < Len(r.buf) => x - y >= Len(r.buf) - i
      BY <2>2, <3>1
    <3>4. i = Len(r.buf) => x = y
      OBVIOUS
    <3>5. b[j][2] = z /\ b[i][2] = y
      BY <1>1, <2>1, <2>4
    <3> HIDE DEF x, y, z
    <3>6. z - y >= j - i
      BY <1>1, <3>1, <3>2, <3>3, <3>4
    <3> QED
      BY <3>5, <3>6
  <2> QED
    BY <1>1, <2>3, <2>4
<1> QED
  BY <1>3, <1>4, <1>5

\* A message that is complete is the whole message: no piece can be missing.
LEMMA CfCompletes ==
    ASSUME NEW l \in TxType, NEW r \in RxType, NEW d \in DataQueue, NEW n \in Nat,
           Holding(r, n), Coming(l, r, d), r.phase = "recv",
           1 \in 1..Len(d), d[1].type = "CF", Genuine(d[1], n),
           NEW b \in Buffers, Appended(r, b, d[1].piece), Len(b) = r.len
    PROVE  Current(r) \in 1..Len(Pieces) /\ Current(r) < n /\ b = Whole(Current(r))
<1> DEFINE m == Current(r)
<1>1. m \in 1..Len(Pieces) /\ m < n /\ r.len = Pieces[m] /\ Pieces[m] \in Nat
  BY Constants DEF Holding
<1>2. /\ b[1][2] = 1
      /\ \A i \in 1..Len(b) : b[i][1] = m /\ b[i][2] \in Nat
      /\ \A i, j \in 1..Len(b) : i < j => b[j][2] - b[i][2] >= j - i
  BY CfKept
<1>3. Len(b) = Pieces[m] /\ b[Len(b)] = d[1].piece /\ Len(b) \in Nat /\ Len(b) >= 1
  BY <1>1, RxFields DEF Appended
<1>4. b[Len(b)][2] <= Len(b)
  BY <1>1, <1>3 DEF Genuine, Coming
<1>5. ASSUME NEW i \in 1..Len(b)
      PROVE  b[i][2] = i
  <2> DEFINE x == b[i][2]
             z == b[Len(b)][2]
  <2>1. 1 < i => x - 1 >= i - 1
    BY <1>2, <1>3
  <2>2. i < Len(b) => z - x >= Len(b) - i
    BY <1>2, <1>3
  <2>3. x \in Nat /\ z \in Nat /\ z <= Len(b)
    BY <1>2, <1>3, <1>4
  <2>4. (i = 1 => x = 1) /\ (i = Len(b) => x = z)
    BY <1>2
  <2> HIDE DEF x, z
  <2>5. x = i
    BY <1>3, <2>1, <2>2, <2>3, <2>4
  <2> QED
    BY <2>5 DEF x
<1>6. \A i \in 1..Len(b) : b[i] = <<m, i>>
  <2>1. \A i \in 1..Len(b) : b[i] \in PieceType
    BY ElementOfSeq DEF Buffers
  <2> QED
    BY <1>2, <1>5, <2>1 DEF PieceType
<1>7. Whole(m) \in Seq(PieceType) /\ Len(Whole(m)) = Pieces[m]
      /\ \A i \in 1..Pieces[m] : Whole(m)[i] = <<m, i>>
  BY <1>1, WholeSeq
<1>8. b = Whole(m)
  BY <1>3, <1>6, <1>7, SeqEqual DEF Buffers
<1> QED
  BY <1>1, <1>8

\* The frame is taken, and neither completes the message nor the block.
LEMMA CfTaken ==
    ASSUME NEW l \in TxType, NEW r \in RxType, NEW d \in DataQueue,
           NEW f \in FcQueue, NEW o \in BOOLEAN, NEW u, NEW v, NEW n \in Nat,
           Link(l, r, d, f, o, u, v, n), r.phase = "recv",
           NEW e \in DataQueue, Popped(d, e), d[1].type = "CF",
           NEW r2 \in RxType, Appended(r, r2.buf, d[1].piece),
           r2.phase = "recv", r2.len = r.len, r2.functional = r.functional,
           Len(r2.buf) # r.len, r2.blockCf = r.blockCf + 1,
           BlockSize # 0 => r2.blockCf < BlockSize
    PROVE  Link(l, r2, e, f, FALSE, u, v, n)
<1>1. Rest(d, e, 1)
  BY DEF Popped, Rest
<1>2. /\ Len(d) \in Nat /\ Len(e) \in Nat /\ Len(d) = Len(e) + 1 /\ 1 \in 1..Len(d)
      /\ \A i \in 1..Len(e) : e[i] = d[i + 1] /\ i + 1 \in 1..Len(d)
      /\ \A i \in 1..Len(e) : \E j \in 1..Len(d) : e[i] = d[j]
  BY <1>1, RestOf DEF Popped
<1>3. Sending(l, n) /\ UnderWay(l, e, f, n)
  BY <1>1, UnderWayRest DEF Link
<1>4. ASSUME "gaveUp" \notin u
      PROVE  /\ Asking(l, e, f, FALSE) /\ PutsOff(f, FALSE, u)
             /\ "foreign" \notin u => InTime(l, e, f)
             /\ Holding(r2, n) /\ Coming(l, r2, e) /\ Together(l, r2, e, f, FALSE)
             /\ Arrived(r2, e, v, n)
  <2>1. /\ Asking(l, d, f, o) /\ PutsOff(f, o, u)
        /\ "foreign" \notin u => InTime(l, d, f)
        /\ Holding(r, n) /\ Coming(l, r, d) /\ Together(l, r, d, f, o)
        /\ Arrived(r, d, v, n) /\ UnderWay(l, d, f, n)
    BY <1>4 DEF Link, Agreed
  <2>2. Asking(l, e, f, FALSE) /\ ("foreign" \notin u => InTime(l, e, f))
    BY <1>1, <2>1, AskingRest, InTimeRest
  <2>3. PutsOff(f, FALSE, u)
    BY <2>1 DEF PutsOff
  <2>4. ~Answered(f, o)
    BY <1>2, <2>1 DEF Asking
  <2>5. /\ Current(r2) = Current(r) /\ r2.buf[1][2] = 1
        /\ \A i \in 1..Len(r2.buf) : r2.buf[i][1] = Current(r)
        /\ \A i, j \in 1..Len(r2.buf) : i < j => r2.buf[j][2] - r2.buf[i][2] >= j - i
    <3>1. r.phase = "recv" /\ 1 \in 1..Len(d) /\ d[1].type = "CF"
      BY <1>2
    <3>2. Appended(r, r2.buf, d[1].piece)
      OBVIOUS
    <3> DEFINE b == r2.buf
    <3> HIDE DEF b
    <3>3. /\ Msg(b) = Current(r) /\ b[1][2] = 1
          /\ \A i \in 1..Len(b) : b[i][1] = Current(r) /\ b[i][2] \in Nat
          /\ \A i, j \in 1..Len(b) : i < j => b[j][2] - b[i][2] >= j - i
      BY <2>1, <3>1, <3>2, CfKept DEF b
    <3> QED
      BY <3>3 DEF b, Current
  <2>6. Len(r2.buf) = Len(r.buf) + 1 /\ r2.buf[Len(r2.buf)] = d[1].piece
        /\ Len(r.buf) \in Nat /\ r.blockCf \in Nat
    BY RxFields DEF Appended
  <2>7. Holding(r2, n)
    <3>1. Len(r2.buf) >= 1 /\ Len(r2.buf) < r2.len
      BY <2>1, <2>6, RxFields DEF Holding
    <3> QED
      BY <2>1, <2>5, <3>1 DEF Holding
  <2>8. BlockEnd(r2) = BlockEnd(r)
    <3>1. r2.blockCf = r.blockCf + 1 /\ Len(r2.buf) = Len(r.buf) + 1 /\ BlockSize \in Nat
      BY <2>6, Constants
    <3> QED
      BY <2>6, <3>1 DEF BlockEnd
  <2>9. Coming(l, r2, e)
    <3>1. ASSUME NEW i \in 1..Len(e), e[i].type = "CF"
          PROVE  r2.buf[Len(r2.buf)][2] < e[i].piece[2]
      <4>1. 1 < i + 1 /\ i + 1 \in 1..Len(d) /\ e[i] = d[i + 1]
        BY <1>2
      <4>2. Before(d[1].piece, d[i + 1].piece)
        BY <1>2, <2>1, <4>1 DEF UnderWay, InOrder
      <4>3. d[1].piece[1] = Current(r) /\ d[i + 1].piece[1] = Current(r)
        BY <1>2, <2>1, <3>1, <4>1 DEF Coming
      <4>4. Current(r) \in Nat
        BY <1>2, <4>3, DataFields
      <4>5. d[1].piece[2] < d[i + 1].piece[2]
        BY <4>2, <4>3, <4>4 DEF Before
      <4> QED
        BY <2>6, <4>1, <4>5
    <3> QED
      BY <1>2, <2>1, <2>5, <2>8, <3>1 DEF Coming
  <2>10. Together(l, r2, e, f, FALSE)
    <3>1. Busy(l) /\ Current(r2) = l.msg => r2.buf[Len(r2.buf)][2] <= l.off
      <4>1. d[1].piece[1] = Current(r)
        BY <1>2, <2>1 DEF Coming
      <4> QED
        BY <1>2, <2>1, <2>5, <2>6, <4>1 DEF UnderWay, SentSoFar
    <3>2. BlockSize # 0 /\ l.phase = "send" => r.blockCf + Len(d) + l.bsLeft <= BlockSize
      BY <2>1 DEF Together
    <3>3. BlockSize # 0 /\ l.phase = "send" => r2.blockCf + Len(e) + l.bsLeft <= BlockSize
      BY <1>2, <2>6, <3>2, Constants, TxFields
    <3>4. ~Answered(f, FALSE)
      BY <2>4 DEF Answered
    <3> QED
      BY <2>1, <2>5, <2>8, <3>1, <3>3, <3>4 DEF Together
  <2>11. Arrived(r2, e, v, n)
    BY <1>2, <2>1, <2>5, ArrivedRest
  <2> QED
    BY <2>2, <2>3, <2>7, <2>9, <2>10, <2>11
<1> QED
  BY <1>3, <1>4 DEF Link, Agreed

\* Both halves are at the piece that the sender waits for a grant after.
AtGrant(l, r2, n) == /\ Holding(r2, n) /\ Current(r2) = l.msg
                     /\ Len(r2.buf) = l.off /\ r2.buf[Len(r2.buf)][2] = l.off
                     /\ r2.blockCf = 0

\* handle_cf sends the grant: nothing was lost in the block.
LEMMA CfGrants ==
    ASSUME NEW l \in TxType, NEW r \in RxType, NEW d \in DataQueue,
           NEW f \in FcQueue, NEW o \in BOOLEAN, NEW u, NEW v, NEW n \in Nat,
           Link(l, r, d, f, o, u, v, n), "gaveUp" \notin u, r.phase = "recv",
           NEW e \in DataQueue, Popped(d, e), d[1].type = "CF",
           NEW r2 \in RxType, Appended(r, r2.buf, d[1].piece),
           r2.phase = "recv", r2.len = r.len, r2.functional = r.functional,
           Len(r2.buf) # r.len, r2.blockCf = 0,
           BlockSize # 0, r.blockCf + 1 >= BlockSize
    PROVE  /\ l.phase = "wait" /\ Candidate(l, d[1]) /\ Len(e) = 0
           /\ AtGrant(l, r2, n) /\ Arrived(r2, e, v, n)
<1>1. /\ Asking(l, d, f, o) /\ Holding(r, n) /\ Coming(l, r, d)
      /\ Arrived(r, d, v, n) /\ UnderWay(l, d, f, n)
  BY DEF Link, Agreed
<1>2. /\ Len(d) \in Nat /\ Len(e) \in Nat /\ Len(d) = Len(e) + 1 /\ 1 \in 1..Len(d)
      /\ \A i \in 1..Len(e) : e[i] = d[i + 1] /\ i + 1 \in 1..Len(d)
      /\ \A i \in 1..Len(e) : \E j \in 1..Len(d) : e[i] = d[j]
  BY DataFields DEF Popped
<1>3. /\ Len(r2.buf) = Len(r.buf) + 1 /\ r2.buf[Len(r2.buf)] = d[1].piece
      /\ Len(r.buf) \in Nat /\ r.blockCf \in Nat /\ BlockSize \in Nat
      /\ Len(r.buf) >= 1 /\ d[1].piece[2] \in Nat /\ d[1].piece[1] \in Nat
  BY <1>1, <1>2, RxFields, DataFields, Constants DEF Appended, Holding
<1>4. /\ Current(r2) = Current(r) /\ r2.buf[1][2] = 1
      /\ \A i \in 1..Len(r2.buf) : r2.buf[i][1] = Current(r)
      /\ \A i, j \in 1..Len(r2.buf) : i < j => r2.buf[j][2] - r2.buf[i][2] >= j - i
  <2>1. Appended(r, r2.buf, d[1].piece)
    OBVIOUS
  <2> DEFINE b == r2.buf
  <2> HIDE DEF b
  <2>2. /\ Msg(b) = Current(r) /\ b[1][2] = 1
        /\ \A i \in 1..Len(b) : b[i][1] = Current(r) /\ b[i][2] \in Nat
        /\ \A i, j \in 1..Len(b) : i < j => b[j][2] - b[i][2] >= j - i
    BY <1>1, <1>2, <2>1, CfKept DEF b
  <2> QED
    BY <2>2 DEF b, Current
<1>5. Holding(r2, n)
  <2>1. Len(r2.buf) >= 1 /\ Len(r2.buf) < r2.len
    BY <1>1, <1>3, RxFields DEF Holding
  <2>2. r2.blockCf < BlockSize
    BY <1>3
  <2> QED
    BY <1>1, <1>4, <2>1, <2>2 DEF Holding
<1>6. BlockEnd(r) = Len(r.buf) + 1
  <2>1. r.blockCf < BlockSize
    BY <1>1 DEF Holding
  <2>2. r.blockCf + 1 = BlockSize
    BY <1>3, <2>1
  <2> QED
    BY <1>3, <2>2 DEF BlockEnd
<1>7. /\ d[1].piece[1] = Current(r)
      /\ \/ d[1].piece[2] < BlockEnd(r)
         \/ /\ d[1].piece[2] = BlockEnd(r)
            /\ d[1].piece[2] = r.len \/ Candidate(l, d[1])
  BY <1>1, <1>2 DEF Coming
<1>8. d[1].piece[2] >= Len(r.buf) + 1
  <2>1. 1 \in 1..Len(r2.buf) /\ Len(r2.buf) \in 1..Len(r2.buf) /\ 1 < Len(r2.buf)
    BY <1>3
  <2>2. r2.buf[Len(r2.buf)][2] - r2.buf[1][2] >= Len(r2.buf) - 1
    BY <1>4, <2>1
  <2>3. d[1].piece[2] - 1 >= Len(r2.buf) - 1
    BY <1>3, <1>4, <2>2
  <2> QED
    BY <1>3, <2>3
<1>9. d[1].piece[2] = Len(r.buf) + 1 /\ Candidate(l, d[1])
  BY <1>3, <1>6, <1>7, <1>8
<1>10. l.phase = "wait" /\ d[1].piece[1] = l.msg /\ d[1].piece[2] = l.off
  BY <1>9 DEF Candidate
<1>11. AtGrant(l, r2, n)
  BY <1>3, <1>4, <1>5, <1>7, <1>9, <1>10 DEF AtGrant
<1>12. ASSUME Len(e) # 0
       PROVE  FALSE
  <2>1. 1 \in 1..Len(d) /\ 2 \in 1..Len(d)
    BY <1>2, <1>12
  <2>2. Before(d[1].piece, d[2].piece)
    BY <1>1, <2>1 DEF UnderWay, InOrder
  <2>3. /\ d[2].piece[1] <= l.msg
        /\ d[2].piece[1] = l.msg => d[2].piece[2] <= l.off
    BY <1>1, <1>10, <2>1 DEF UnderWay, SentSoFar, Busy
  <2>4. d[2].piece[1] \in Nat /\ d[2].piece[2] \in Nat
    BY <2>1, DataFields
  <2> QED
    BY <1>3, <1>10, <2>2, <2>3, <2>4, TxFields DEF Before
<1>13. Arrived(r2, e, v, n)
  BY <1>1, <1>2, <1>4, ArrivedRest
<1> QED
  BY <1>9, <1>10, <1>11, <1>12, <1>13

\* handle_ff: the sender waits, and has sent nothing after it.
LEMMA FfGrants ==
    ASSUME NEW l \in TxType, NEW r \in RxType, NEW d \in DataQueue,
           NEW f \in FcQueue, NEW o \in BOOLEAN, NEW u, NEW v, NEW n \in Nat,
           Link(l, r, d, f, o, u, v, n), "gaveUp" \notin u,
           NEW e \in DataQueue, Popped(d, e), d[1].type = "FF",
           NEW r2 \in RxType, Len(r2.buf) = 1, r2.buf[1] = d[1].piece,
           r2.phase = "recv", r2.len = d[1].len, ~r2.functional, r2.blockCf = 0
    PROVE  /\ l.phase = "wait" /\ Candidate(l, d[1]) /\ Len(e) = 0
           /\ AtGrant(l, r2, n) /\ Arrived(r2, e, v, n)
<1>1. /\ Asking(l, d, f, o) /\ Arrived(r, d, v, n) /\ UnderWay(l, d, f, n)
  BY DEF Link, Agreed
<1>2. Len(d) \in Nat /\ Len(e) \in Nat /\ Len(d) = Len(e) + 1 /\ 1 \in 1..Len(d)
  BY DataFields DEF Popped
<1>3. Len(d) = 1 /\ l.phase = "wait" /\ l.off = 1 /\ d[1].piece[1] = l.msg
  BY <1>1, <1>2 DEF Asking
<1>e. Len(e) = 0
  <2>1. \A x, y \in Nat : x = y + 1 /\ x = 1 => y = 0
    OBVIOUS
  <2> QED
    BY <1>2, <1>3, <2>1
<1>4. Genuine(d[1], n)
  BY <1>1, <1>2 DEF UnderWay
<1>5. Current(r2) = d[1].piece[1]
  BY DEF Current, Msg
<1>6. Holding(r2, n)
  <2>1. Current(r2) \in 1..Len(Pieces) /\ Current(r2) < n
        /\ d[1].piece[2] = 1 /\ r2.len = Pieces[Current(r2)] /\ r2.len > 1
    BY <1>4, <1>5 DEF Genuine
  <2>2. Len(r2.buf) >= 1 /\ Len(r2.buf) < r2.len
    BY <2>1, RxFields
  <2>3. r2.buf[1][2] = 1 /\ \A i \in 1..Len(r2.buf) : i = 1 /\ r2.buf[i][1] = Current(r2)
    BY <1>5, <2>1
  <2>4. BlockSize # 0 => r2.blockCf < BlockSize
    BY Constants
  <2> QED
    BY <2>1, <2>2, <2>3, <2>4 DEF Holding
<1>7. AtGrant(l, r2, n)
  BY <1>3, <1>4, <1>5, <1>6 DEF AtGrant, Genuine
<1>8. Arrived(r2, e, v, n)
  <2>1. \A i \in 1..Len(v) : Msg(v[i]) < d[1].piece[1]
    BY <1>1, <1>2 DEF Arrived
  <2> QED
    BY <1>1, <1>5, <1>e, <2>1 DEF Arrived
<1> QED
  BY <1>3, <1>7, <1>8, <1>e DEF Candidate

\* The receiver answers: it grants, or a foreign one puts off or refuses.
\* The frame it answers is the last one, and the sender waits.
LastAsked(l, d, e) == l.phase = "wait" /\ Candidate(l, d[1]) /\ Len(e) = 0

\* A block has ended, or the message is given up.
Stopped(l, r, n) == /\ r.phase = "recv" => AtGrant(l, r, n)
                    /\ r.blockCf = 0

\* Only a foreign receiver puts off or refuses.
Admits(a, o, r, u, w) == /\ u \subseteq w /\ w \subseteq u \cup {"foreign"}
                         /\ a.status # "CTS" \/ o => "foreign" \in w
                         /\ o => a.status = "WAIT" /\ r.phase = "recv"

\* send_fc: the answer is the only one, and nothing is asked after it.
LEMMA Answers ==
    ASSUME NEW l \in TxType, NEW r \in RxType, NEW d \in DataQueue,
           NEW f \in FcQueue, NEW o \in BOOLEAN, NEW u, NEW v, NEW n \in Nat,
           Link(l, r, d, f, o, u, v, n),
           NEW e \in DataQueue, Popped(d, e),
           NEW f2 \in FcQueue, NEW a \in FcType, Pushed(f, f2, a), a.age = 0,
           NEW r2 \in RxType, NEW o2 \in BOOLEAN,
           NEW w, Admits(a, o2, r2, u, w),
           "gaveUp" \notin u =>
              LastAsked(l, d, e) /\ Stopped(l, r2, n) /\ Arrived(r2, e, v, n)
    PROVE  Link(l, r2, e, f2, o2, w, v, n)
<1>1. Rest(d, e, 1)
  BY DEF Popped, Rest
<1>2. Len(d) \in Nat /\ Len(e) \in Nat /\ Len(d) = Len(e) + 1 /\ 1 \in 1..Len(d)
  BY <1>1, RestOf DEF Popped
<1>3. UnderWay(l, e, f, n) /\ UnderWay(l, d, f, n) /\ Sending(l, n)
  BY <1>1, UnderWayRest DEF Link
<1>4. /\ Len(f) \in Nat /\ Len(f2) = Len(f) + 1
      /\ \A i \in 1..Len(f2) : \/ (i \in 1..Len(f) /\ f2[i] = f[i])
                               \/ (i = Len(f2) /\ f2[i] = a)
  BY FcFields DEF Pushed
<1>5. UnderWay(l, e, f2, n)
  <2>1. ASSUME NEW i \in 1..Len(f2)
        PROVE  f2[i].age <= MaxDelay
    <3>1. CASE i \in 1..Len(f) /\ f2[i] = f[i]
      BY <1>3, <3>1 DEF UnderWay
    <3>2. CASE f2[i] = a
      BY <3>2, Constants
    <3> QED
      BY <1>4, <3>1, <3>2
  <2> QED
    BY <1>3, <2>1 DEF UnderWay
<1>6. ASSUME "gaveUp" \notin w
      PROVE  /\ Asking(l, e, f2, o2) /\ PutsOff(f2, o2, w)
             /\ "foreign" \notin w => InTime(l, e, f2)
             /\ Holding(r2, n) /\ Coming(l, r2, e) /\ Together(l, r2, e, f2, o2)
             /\ Arrived(r2, e, v, n)
  <2>1. /\ Asking(l, d, f, o)
        /\ "foreign" \notin w => InTime(l, d, f)
    BY <1>6 DEF Link, Agreed, Admits
  <2>2. /\ l.phase = "wait" /\ Candidate(l, d[1]) /\ Len(e) = 0
        /\ r2.phase = "recv" => AtGrant(l, r2, n)
        /\ r2.blockCf = 0 /\ Arrived(r2, e, v, n)
    BY <1>6 DEF LastAsked, Stopped, Admits
  <2>3. Len(f) = 0 /\ Len(f2) = 1 /\ ~o /\ \A i \in 1..Len(f2) : f2[i] = a
    BY <1>2, <1>4, <2>1, <2>2 DEF Asking, Answered
  <2>4. Asking(l, e, f2, o2)
    BY <2>2, <2>3 DEF Asking, Admits
  <2>5. PutsOff(f2, o2, w)
    BY <2>3 DEF PutsOff, Admits
  <2>6. "foreign" \notin w => InTime(l, e, f2)
    <3>1. d[1].age <= MaxDelay /\ d[1].age \in Nat
      BY <1>2, <1>3, DataFields DEF UnderWay
    <3>2. ASSUME "foreign" \notin w
          PROVE  l.timer <= MaxDelay + 0
      <4>1. l.timer <= d[1].age
        BY <1>2, <2>1, <2>2, <3>2 DEF InTime
      <4> QED
        BY <3>1, <4>1, Constants, TxFields
    <3> QED
      BY <2>2, <2>3, <3>2 DEF InTime
  <2>7. Holding(r2, n) /\ Coming(l, r2, e)
    <3>1. Holding(r2, n)
      BY <2>2 DEF AtGrant, Holding
    <3>2. Coming(l, r2, e)
      BY <2>2 DEF Coming
    <3> QED
      BY <3>1, <3>2
  <2>8. Together(l, r2, e, f2, o2)
    <3>1. r2.phase = "recv" =>
            /\ Len(r2.buf) = l.off /\ Current(r2) = l.msg
            /\ r2.buf[Len(r2.buf)][2] <= l.off
      BY <2>2, TxFields DEF AtGrant
    <3> QED
      BY <2>2, <3>1 DEF Together, Admits
  <2> QED
    BY <2>2, <2>4, <2>5, <2>6, <2>7, <2>8
<1> QED
  BY <1>3, <1>5, <1>6 DEF Link, Agreed

\* The timer of the receiver is in none of this.
LEMMA RxSame ==
    ASSUME NEW l, NEW r, NEW d, NEW f, NEW o, NEW u, NEW v, NEW n,
           Link(l, r, d, f, o, u, v, n), NEW r2,
           r2.phase = r.phase, r2.buf = r.buf, r2.len = r.len,
           r2.blockCf = r.blockCf, r2.functional = r.functional
    PROVE  Link(l, r2, d, f, o, u, v, n)
<1>1. Current(r2) = Current(r) /\ BlockEnd(r2) = BlockEnd(r)
  BY DEF Current, BlockEnd
<1>2. Holding(r, n) => Holding(r2, n)
  BY <1>1 DEF Holding
<1>3. Coming(l, r, d) => Coming(l, r2, d)
  BY <1>1 DEF Coming
<1>4. Together(l, r, d, f, o) => Together(l, r2, d, f, o)
  BY <1>1 DEF Together
<1>5. Arrived(r, d, v, n) => Arrived(r2, d, v, n)
  BY <1>1 DEF Arrived
<1> QED
  BY <1>2, <1>3, <1>4, <1>5 DEF Link, Agreed

\* A foreign receiver that has put off its grant answers again.
LEMMA AnswersAgain ==
    ASSUME NEW l \in TxType, NEW r \in RxType, NEW d \in DataQueue,
           NEW f \in FcQueue, NEW u, NEW v, NEW n \in Nat,
           Link(l, r, d, f, TRUE, u, v, n), Len(f) = 0,
           NEW f2 \in FcQueue, NEW a \in FcType, Pushed(f, f2, a), a.age = 0,
           NEW o2 \in BOOLEAN, a.status = IF o2 THEN "WAIT" ELSE "CTS"
    PROVE  Link(l, r, d, f2, o2, u, v, n)
<1>1. Len(f2) = 1 /\ \A i \in 1..Len(f2) : f2[i] = a
  BY DEF Pushed
<1>2. Sending(l, n) /\ UnderWay(l, d, f2, n)
  BY <1>1, Constants DEF Link, UnderWay
<1>3. ASSUME "gaveUp" \notin u
      PROVE  /\ Asking(l, d, f2, o2) /\ PutsOff(f2, o2, u) /\ "foreign" \in u
             /\ Holding(r, n) /\ Coming(l, r, d) /\ Together(l, r, d, f2, o2)
             /\ Arrived(r, d, v, n)
  <2>1. /\ Asking(l, d, f, TRUE) /\ PutsOff(f, TRUE, u)
        /\ Holding(r, n) /\ Coming(l, r, d) /\ Together(l, r, d, f, TRUE)
        /\ Arrived(r, d, v, n)
    BY <1>3 DEF Link, Agreed
  <2>2. "foreign" \in u
    BY <2>1 DEF PutsOff
  <2>3. Asking(l, d, f2, o2)
    BY <1>1, <2>1 DEF Asking, Answered
  <2>4. Together(l, r, d, f2, o2)
    BY <1>1, <2>1 DEF Together, Answered
  <2> QED
    BY <2>1, <2>2, <2>3, <2>4 DEF PutsOff
<1> QED
  BY <1>2, <1>3 DEF Link, Agreed

\* A tick: every frame under way is older, and so is the wait for the grant.
LEMMA Ticks ==
    ASSUME NEW l \in TxType, NEW r \in RxType, NEW d \in DataQueue,
           NEW f \in FcQueue, NEW o \in BOOLEAN, NEW u, NEW v, NEW n \in Nat,
           Link(l, r, d, f, o, u, v, n),
           NEW l2 \in TxType, l2.phase = l.phase, l2.msg = l.msg, l2.off = l.off,
           l2.bsLeft = l.bsLeft, l2.timer <= l.timer + 1,
           NEW e \in DataQueue, Len(e) = Len(d),
           \A i \in 1..Len(d) : /\ e[i].type = d[i].type /\ e[i].piece = d[i].piece
                                /\ e[i].len = d[i].len
                                /\ e[i].age = d[i].age + 1 /\ e[i].age <= MaxDelay,
           NEW f2 \in FcQueue, Len(f2) = Len(f),
           \A i \in 1..Len(f) : /\ f2[i].status = f[i].status
                                /\ f2[i].age = f[i].age + 1 /\ f2[i].age <= MaxDelay
    PROVE  Link(l2, r, e, f2, o, u, v, n)
<1>1. Sending(l2, n)
  BY DEF Link, Sending, Busy
<1>2. UnderWay(l2, e, f2, n)
  <2>1. UnderWay(l, d, f, n)
    BY DEF Link
  <2>2. \A i \in 1..Len(e) : Genuine(e[i], n)
    BY <2>1 DEF UnderWay, Genuine
  <2>3. InOrder(e) /\ SentSoFar(l2, e)
    BY <2>1 DEF UnderWay, InOrder, SentSoFar, Busy
  <2> QED
    BY <2>2, <2>3 DEF UnderWay
<1>3. ASSUME "gaveUp" \notin u
      PROVE  /\ Asking(l2, e, f2, o) /\ PutsOff(f2, o, u)
             /\ "foreign" \notin u => InTime(l2, e, f2)
             /\ Holding(r, n) /\ Coming(l2, r, e) /\ Together(l2, r, e, f2, o)
             /\ Arrived(r, e, v, n)
  <2>1. /\ Asking(l, d, f, o) /\ PutsOff(f, o, u)
        /\ "foreign" \notin u => InTime(l, d, f)
        /\ Holding(r, n) /\ Coming(l, r, d) /\ Together(l, r, d, f, o)
        /\ Arrived(r, d, v, n)
    BY <1>3 DEF Link, Agreed
  <2>2. Answered(f2, o) = Answered(f, o)
    BY DEF Answered
  <2>3. \A i \in 1..Len(d) : Candidate(l2, e[i]) = Candidate(l, d[i])
    BY DEF Candidate
  <2>4. Asking(l2, e, f2, o)
    BY <2>1, <2>2, <2>3 DEF Asking
  <2>5. PutsOff(f2, o, u)
    BY <2>1 DEF PutsOff
  <2>6. "foreign" \notin u => InTime(l2, e, f2)
    <3> SUFFICES ASSUME "foreign" \notin u, l2.phase = "wait"
                 PROVE  /\ \A i \in 1..Len(e) : Candidate(l2, e[i]) => l2.timer <= e[i].age
                        /\ \A i \in 1..Len(f2) : l2.timer <= MaxDelay + f2[i].age
      BY DEF InTime
    <3>1. ASSUME NEW i \in 1..Len(e), Candidate(l2, e[i])
          PROVE  l2.timer <= e[i].age
      <4>1. l.timer <= d[i].age /\ d[i].age \in Nat /\ e[i].age = d[i].age + 1
        BY <2>1, <2>3, <3>1, DataFields DEF InTime
      <4> QED
        BY <4>1, TxFields
    <3>2. ASSUME NEW i \in 1..Len(f2)
          PROVE  l2.timer <= MaxDelay + f2[i].age
      <4>1. l.timer <= MaxDelay + f[i].age /\ f[i].age \in Nat /\ f2[i].age = f[i].age + 1
        BY <2>1, FcFields DEF InTime
      <4>2. MaxDelay \in Nat /\ l.timer \in Nat /\ l2.timer \in Nat /\ l2.timer <= l.timer + 1
        BY TxFields, Constants
      <4> QED
        BY <4>1, <4>2
    <3> QED
      BY <3>1, <3>2
  <2>7. Coming(l2, r, e)
    BY <2>1, <2>3 DEF Coming
  <2>8. Together(l2, r, e, f2, o)
    BY <2>1, <2>2 DEF Together, Busy
  <2>9. Arrived(r, e, v, n)
    BY <2>1 DEF Arrived
  <2> QED
    BY <2>1, <2>4, <2>5, <2>6, <2>7, <2>8, <2>9
<1> QED
  BY <1>1, <1>2, <1>3 DEF Link, Agreed

-----------------------------------------------------------------------------
(* Types, and what the handlers return.                                    *)

\* Both halves start with the right types.
LEMMA IdleTypes == TxIdle \in TxType /\ RxIdle \in RxType
<1>1. <<>> \in Buffers
  BY EmptySeq DEF Buffers
<1> QED
  BY <1>1 DEF TxIdle, RxIdle, TxType, RxType

\* So do the frames
LEMMA FrameTypes ==
    ASSUME NEW type \in {"SF", "FF", "CF"}, NEW m \in Nat, NEW i \in Nat,
           NEW len \in Nat, NEW sn \in Nat
    PROVE  /\ Frame(type, <<m, i>>, len, sn) \in DataType
           /\ Frame(type, <<m, i>>, len, sn).type = type
           /\ Frame(type, <<m, i>>, len, sn).piece[1] = m
           /\ Frame(type, <<m, i>>, len, sn).piece[2] = i
           /\ Frame(type, <<m, i>>, len, sn).len = len
           /\ Frame(type, <<m, i>>, len, sn).sn = sn
           /\ Frame(type, <<m, i>>, len, sn).age = 0
BY DEF Frame, DataType, PieceType

\* and the flow control frames.
LEMMA StatusTypes ==
    ASSUME NEW s \in {"CTS", "WAIT", "OVFLW"}
    PROVE  Status(s) \in FcType /\ Status(s).status = s /\ Status(s).age = 0
BY DEF Status, FcType

\* handle_fc, case by case.
LEMMA OnFcReturns ==
    ASSUME NEW l \in TxType, NEW s \in {"CTS", "WAIT", "OVFLW"}
    PROVE  /\ OnFc(l, s) \in TxType
           /\ l.phase # "wait" => OnFc(l, s) = l
           /\ l.phase = "wait" /\ s = "CTS" =>
                 /\ OnFc(l, s).phase = "send" /\ OnFc(l, s).bsLeft = BlockSize
                 /\ OnFc(l, s).msg = l.msg /\ OnFc(l, s).off = l.off
                 /\ OnFc(l, s).sn = l.sn /\ OnFc(l, s).stTimer = 0
           /\ l.phase = "wait" /\ s = "WAIT" =>
                 \/ OnFc(l, s) = TxIdle
                 \/ /\ OnFc(l, s).phase = "wait" /\ OnFc(l, s).bsLeft = l.bsLeft
                    /\ OnFc(l, s).msg = l.msg /\ OnFc(l, s).off = l.off
           /\ l.phase = "wait" /\ s = "OVFLW" => OnFc(l, s) = TxIdle
<1>1. CASE l.phase # "wait"
  BY <1>1 DEF OnFc
<1>2. CASE l.phase = "wait" /\ s = "CTS"
  <2>1. OnFc(l, s) = [l EXCEPT !.phase = "send", !.wft = 0, !.bsLeft = BlockSize,
                               !.stTimer = 0]
    BY <1>2 DEF OnFc
  <2>2. BlockSize \in Nat /\ 0 \in Nat /\ "send" \in {"idle", "wait", "send"}
    BY Constants
  <2>3. OnFc(l, s) \in TxType
    BY <2>1, <2>2, Zenon DEF TxType
  <2>4. /\ OnFc(l, s).phase = "send" /\ OnFc(l, s).bsLeft = BlockSize
        /\ OnFc(l, s).msg = l.msg /\ OnFc(l, s).off = l.off
        /\ OnFc(l, s).sn = l.sn /\ OnFc(l, s).stTimer = 0
    BY <2>1 DEF TxType
  <2> QED
    BY <1>2, <2>3, <2>4
<1>3. CASE l.phase = "wait" /\ s = "WAIT"
  <2>1. CASE l.wft + 1 > WftMax
    <3>1. OnFc(l, s) = TxIdle
      BY <1>3, <2>1 DEF OnFc, TxReset
    <3> QED
      BY <1>3, <3>1, IdleTypes
  <2>2. CASE ~(l.wft + 1 > WftMax)
    <3>1. OnFc(l, s) = [l EXCEPT !.wft = @ + 1, !.timer = 0]
      BY <1>3, <2>2 DEF OnFc
    <3>2. l.wft + 1 \in Nat /\ 0 \in Nat
      BY TxFields
    <3>3. OnFc(l, s) \in TxType
      BY <3>1, <3>2, Zenon DEF TxType
    <3>4. /\ OnFc(l, s).phase = l.phase /\ OnFc(l, s).bsLeft = l.bsLeft
          /\ OnFc(l, s).msg = l.msg /\ OnFc(l, s).off = l.off
      BY <3>1 DEF TxType
    <3> QED
      BY <1>3, <3>3, <3>4
  <2> QED
    BY <2>1, <2>2
<1>4. CASE l.phase = "wait" /\ s = "OVFLW"
  <2>1. OnFc(l, s) = TxIdle
    BY <1>4 DEF OnFc, TxReset
  <2> QED
    BY <1>4, <2>1, IdleTypes
<1> QED
  BY <1>1, <1>2, <1>3, <1>4

\* isotp_poll after a consecutive frame, case by case.
LEMMA AfterCfReturns ==
    ASSUME NEW l \in TxType, l.phase = "send"
    PROVE  /\ AfterCf(l) \in TxType /\ Advanced(l, AfterCf(l))
           /\ AfterCf(l).phase # "idle" =>
                 AfterCf(l).sn = (l.sn + 1) % SnMod /\ AfterCf(l).stTimer = 0
<1> DEFINE sent == [l EXCEPT !.off = @ + 1, !.sn = (@ + 1) % SnMod, !.stTimer = 0]
<1>t. l.sn \in Nat /\ l.bsLeft \in Nat /\ l.off \in Nat
  BY TxFields
<1>0. (l.sn + 1) % SnMod \in Nat
  BY <1>t, Constants
<1>1. /\ sent \in TxType /\ sent.off = l.off + 1 /\ sent.sn = (l.sn + 1) % SnMod
      /\ sent.stTimer = 0 /\ sent.msg = l.msg /\ sent.bsLeft = l.bsLeft
      /\ sent.phase = "send"
  <2>1. l.off + 1 \in Nat /\ 0 \in Nat
    BY <1>t
  <2>2. sent \in TxType
    BY <1>0, <2>1, Zenon DEF TxType
  <2> QED
    BY <2>2 DEF TxType
<1>2. CASE l.off + 1 = Pieces[l.msg]
  <2>1. AfterCf(l) = TxIdle
    BY <1>1, <1>2 DEF AfterCf, TxReset
  <2> QED
    BY <1>2, <2>1, IdleTypes DEF Advanced, TxIdle
<1>3. CASE l.off + 1 # Pieces[l.msg] /\ l.bsLeft = 1
  <2>1. AfterCf(l) = [sent EXCEPT !.bsLeft = 0, !.phase = "wait", !.timer = 0]
    BY <1>1, <1>3 DEF AfterCf
  <2> HIDE DEF sent
  <2>2. /\ AfterCf(l) \in TxType /\ AfterCf(l).phase = "wait"
        /\ AfterCf(l).bsLeft = 0 /\ AfterCf(l).timer = 0
        /\ AfterCf(l).msg = sent.msg /\ AfterCf(l).off = sent.off
        /\ AfterCf(l).sn = sent.sn /\ AfterCf(l).stTimer = sent.stTimer
    BY <1>1, <2>1 DEF TxType
  <2> QED
    BY <1>1, <1>3, <2>2 DEF Advanced
<1>4. CASE l.off + 1 # Pieces[l.msg] /\ l.bsLeft # 1 /\ l.bsLeft # 0
  <2>1. l.bsLeft > 1 /\ l.bsLeft - 1 \in Nat
    BY <1>4, <1>t
  <2>2. AfterCf(l) = [sent EXCEPT !.bsLeft = @ - 1]
    BY <1>1, <1>4, <2>1 DEF AfterCf
  <2> HIDE DEF sent
  <2>3. /\ AfterCf(l) \in TxType /\ AfterCf(l).phase = "send"
        /\ AfterCf(l).bsLeft = l.bsLeft - 1
        /\ AfterCf(l).msg = sent.msg /\ AfterCf(l).off = sent.off
        /\ AfterCf(l).sn = sent.sn /\ AfterCf(l).stTimer = sent.stTimer
    BY <1>1, <2>1, <2>2 DEF TxType
  <2> QED
    BY <1>1, <1>4, <2>3 DEF Advanced
<1>5. CASE l.off + 1 # Pieces[l.msg] /\ l.bsLeft = 0
  <2>1. AfterCf(l) = sent
    BY <1>1, <1>5 DEF AfterCf
  <2> HIDE DEF sent
  <2> QED
    BY <1>1, <1>5, <2>1 DEF Advanced
<1> QED
  BY <1>2, <1>3, <1>4, <1>5

\* rx_reset: the receiver is idle.
LEMMA RxResetReturns ==
    ASSUME NEW r \in RxType
    PROVE  /\ RxReset(r) \in RxType /\ RxReset(r).phase = "idle"
           /\ RxReset(r).blockCf = 0 /\ RxReset(r).complete = r.complete
<1>1. <<>> \in Buffers
  BY EmptySeq DEF Buffers
<1>2. RxReset(r) \in RxType
  BY <1>1 DEF RxReset, RxType
<1> QED
  BY <1>2 DEF RxReset, RxType

\* A buffer of one piece.
LEMMA OnePiece ==
    ASSUME NEW p \in PieceType
    PROVE  <<p>> \in Buffers /\ Len(<<p>>) = 1 /\ <<p>>[1] = p
BY DEF Buffers

\* handle_sf, a physical single frame: the message is complete.
LEMMA OnSfReturns ==
    ASSUME NEW r \in RxType, NEW g, g.piece \in PieceType, g.type = "SF"
    PROVE  /\ OnSf(r, g) \in RxType /\ OnSf(r, g).phase = "idle"
           /\ OnSf(r, g).blockCf = r.blockCf /\ OnSf(r, g).buf = <<g.piece>>
           /\ OnSf(r, g).complete /\ ~OnSf(r, g).functional
<1>1. OnSf(r, g) = [r EXCEPT !.buf = <<g.piece>>, !.len = 1, !.phase = "idle",
                             !.functional = FALSE, !.complete = TRUE]
  BY DEF OnSf
<1>2. <<g.piece>> \in Buffers /\ 1 \in Nat
  BY OnePiece
<1>3. OnSf(r, g) \in RxType
  BY <1>1, <1>2, Zenon DEF RxType
<1> QED
  BY <1>1, <1>3 DEF RxType

\* A broadcast is taken by an idle receiver only.
LEMMA OnBcReturns ==
    ASSUME NEW r \in RxType, ~r.complete, NEW g, g.piece \in PieceType, g.type = "BC"
    PROVE  /\ r.phase = "recv" => OnSf(r, g) = r
           /\ r.phase = "idle" =>
                 /\ OnSf(r, g) \in RxType /\ OnSf(r, g).phase = "idle"
                 /\ OnSf(r, g).blockCf = r.blockCf /\ OnSf(r, g).functional
                 /\ OnSf(r, g).sn = r.sn /\ OnSf(r, g).timer = r.timer
<1>1. r.phase = "recv" => OnSf(r, g) = r
  BY DEF OnSf
<1>2. ASSUME r.phase = "idle"
      PROVE  /\ OnSf(r, g) \in RxType /\ OnSf(r, g).phase = "idle"
             /\ OnSf(r, g).blockCf = r.blockCf /\ OnSf(r, g).functional
             /\ OnSf(r, g).sn = r.sn /\ OnSf(r, g).timer = r.timer
  <2>1. OnSf(r, g) = [r EXCEPT !.buf = <<g.piece>>, !.len = 1, !.phase = "idle",
                               !.functional = TRUE, !.complete = TRUE]
    BY <1>2 DEF OnSf
  <2>2. <<g.piece>> \in Buffers /\ 1 \in Nat
    BY OnePiece
  <2>3. OnSf(r, g) \in RxType
    BY <2>1, <2>2, Zenon DEF RxType
  <2> QED
    BY <2>1, <2>3 DEF RxType
<1> QED
  BY <1>1, <1>2

\* handle_ff: a reception begins, whatever was going on.
LEMMA OnFfReturns ==
    ASSUME NEW r \in RxType, NEW g \in DataType
    PROVE  /\ OnFf(r, g) \in RxType /\ OnFf(r, g).phase = "recv"
           /\ OnFf(r, g).blockCf = 0 /\ OnFf(r, g).buf = <<g.piece>>
           /\ OnFf(r, g).len = g.len /\ OnFf(r, g).sn = 1 /\ OnFf(r, g).timer = 0
           /\ OnFf(r, g).complete = r.complete /\ ~OnFf(r, g).functional
<1>1. <<g.piece>> \in Buffers /\ 1 \in Nat /\ g.len \in Nat /\ 0 \in Nat
  BY OnePiece, FrameFields
<1>2. OnFf(r, g) \in RxType
  BY <1>1, Zenon DEF OnFf, RxType
<1> QED
  BY <1>2 DEF OnFf, RxType

\* The frame is taken.
Taken(r, g, r2) == /\ Appended(r, r2.buf, g.piece)
                   /\ r2.sn = (r.sn + 1) % SnMod /\ r2.timer = 0
                   /\ r2.len = r.len /\ r2.functional = r.functional

\* handle_cf, case by case.
LEMMA OnCfReturns ==
    ASSUME NEW r \in RxType, NEW g \in DataType, NEW r2, r2 = OnCf(r, g)
    PROVE  /\ r2 \in RxType
           /\ \/ r.phase # "recv" /\ r2 = r
              \/ r.phase = "recv" /\ g.sn # r.sn /\ r2 = RxReset(r)
              \/ /\ r.phase = "recv" /\ g.sn = r.sn /\ Len(r.buf) + 1 = r.len
                 /\ Taken(r, g, r2) /\ r2.phase = "idle" /\ r2.complete
                 /\ r2.blockCf = r.blockCf + 1
              \/ /\ r.phase = "recv" /\ g.sn = r.sn /\ Len(r.buf) + 1 # r.len
                 /\ Taken(r, g, r2) /\ r2.phase = "recv"
                 /\ r2.complete = r.complete
                 /\ r2.blockCf = IF BlockSize # 0 /\ r.blockCf + 1 >= BlockSize
                                 THEN 0 ELSE r.blockCf + 1
<1>1. CASE r.phase # "recv"
  BY <1>1 DEF OnCf
<1>2. CASE r.phase = "recv" /\ g.sn # r.sn
  BY <1>2, RxResetReturns DEF OnCf
<1>3. CASE r.phase = "recv" /\ g.sn = r.sn
  <2> DEFINE taken == [r EXCEPT !.buf = Append(@, g.piece), !.sn = (@ + 1) % SnMod,
                                !.timer = 0, !.blockCf = @ + 1]
  <2>1. /\ Append(r.buf, g.piece) \in Buffers
        /\ Appended(r, Append(r.buf, g.piece), g.piece)
    BY RxFields, FrameFields, AppendProperties DEF Buffers, Appended
  <2>2. (r.sn + 1) % SnMod \in Nat /\ 0 \in Nat /\ r.blockCf + 1 \in Nat
    BY RxFields, Constants
  <2>3. taken \in RxType
    BY <2>1, <2>2, Zenon DEF RxType
  <2>4. /\ taken.buf = Append(r.buf, g.piece) /\ taken.sn = (r.sn + 1) % SnMod
        /\ taken.timer = 0 /\ taken.blockCf = r.blockCf + 1 /\ taken.len = r.len
        /\ taken.functional = r.functional /\ taken.phase = "recv"
        /\ taken.complete = r.complete
    BY <1>3, <2>3 DEF RxType
  <2>5. Taken(r, g, taken) /\ Len(taken.buf) = Len(r.buf) + 1
    BY <2>1, <2>4 DEF Taken, Appended
  <2>6. r2 = IF Len(taken.buf) = r.len
             THEN [taken EXCEPT !.complete = TRUE, !.phase = "idle"]
             ELSE IF BlockSize # 0 /\ taken.blockCf >= BlockSize
             THEN [taken EXCEPT !.blockCf = 0]
             ELSE taken
    BY <1>3 DEF OnCf
  <2> HIDE DEF taken
  <2>7. CASE Len(r.buf) + 1 = r.len
    <3>1. r2 = [taken EXCEPT !.complete = TRUE, !.phase = "idle"]
      BY <2>5, <2>6, <2>7
    <3>2. r2 \in RxType
      BY <2>3, <3>1, Zenon DEF RxType
    <3>3. /\ r2.buf = taken.buf /\ r2.sn = taken.sn /\ r2.timer = taken.timer
          /\ r2.len = taken.len /\ r2.functional = taken.functional
          /\ r2.phase = "idle" /\ r2.complete /\ r2.blockCf = taken.blockCf
      BY <2>3, <3>1 DEF RxType
    <3>4. Taken(r, g, r2)
      BY <2>5, <3>3 DEF Taken
    <3> QED
      BY <1>3, <2>4, <2>7, <3>2, <3>3, <3>4
  <2>8. CASE Len(r.buf) + 1 # r.len /\ BlockSize # 0 /\ r.blockCf + 1 >= BlockSize
    <3>1. r2 = [taken EXCEPT !.blockCf = 0]
      BY <2>4, <2>5, <2>6, <2>8
    <3>2. r2 \in RxType
      BY <2>2, <2>3, <3>1, Zenon DEF RxType
    <3>3. /\ r2.buf = taken.buf /\ r2.sn = taken.sn /\ r2.timer = taken.timer
          /\ r2.len = taken.len /\ r2.functional = taken.functional
          /\ r2.phase = "recv" /\ r2.complete = taken.complete /\ r2.blockCf = 0
      BY <2>3, <2>4, <3>1 DEF RxType
    <3>4. Taken(r, g, r2)
      BY <2>5, <3>3 DEF Taken
    <3> QED
      BY <1>3, <2>4, <2>8, <3>2, <3>3, <3>4
  <2>9. CASE Len(r.buf) + 1 # r.len /\ ~(BlockSize # 0 /\ r.blockCf + 1 >= BlockSize)
    <3>1. r2 = taken
      BY <2>4, <2>5, <2>6, <2>9
    <3> QED
      BY <1>3, <2>3, <2>4, <2>5, <2>9, <3>1
  <2> QED
    BY <2>7, <2>8, <2>9
<1> QED
  BY <1>1, <1>2, <1>3

-----------------------------------------------------------------------------
(* The actions.                                                            *)

\* The types of the variables, one by one.
LEMMA TypeFacts ==
    TypeOK => /\ tx \in TxType /\ rx \in RxType
              /\ data \in DataQueue /\ fc \in FcQueue
              /\ next \in Nat /\ delivered \in Seq(Buffers)
              /\ owed \in BOOLEAN
BY DEF TypeOK

\* Nothing is under way at first.
LEMMA LinkInit == Init => LinkInv
<1> SUFFICES ASSUME Init PROVE LinkInv
  OBVIOUS
<1>1. TypeOK /\ ~rx.complete
  <2>1. <<>> \in DataQueue /\ <<>> \in FcQueue /\ <<>> \in Seq(Buffers)
    BY EmptySeq DEF DataQueue, FcQueue
  <2>2. tx \in TxType /\ rx \in RxType
    BY IdleTypes DEF Init
  <2>3. data \in DataQueue /\ fc \in FcQueue /\ delivered \in Seq(Buffers)
    BY <2>1 DEF Init
  <2>4. next \in Nat \ {0} /\ upsets = {}
    BY DEF Init
  <2>5. owed \in BOOLEAN
    BY Zenon DEF Init
  <2> QED
    BY <2>2, <2>3, <2>4, <2>5 DEF Init, RxIdle, TypeOK
<1>2. /\ Len(data) = 0 /\ Len(fc) = 0 /\ Len(delivered) = 0
      /\ tx.phase = "idle" /\ tx.bsLeft = 0 /\ rx.phase = "idle" /\ ~owed
      /\ next = 1 /\ upsets = {}
  BY EmptySeq DEF Init, TxIdle, RxIdle
<1>3. Sending(tx, next)
  BY <1>2, Constants DEF Sending, Busy
<1>4. UnderWay(tx, data, fc, next)
  BY <1>2 DEF UnderWay, InOrder, SentSoFar
<1>5. Agreed(tx, rx, data, fc, owed, upsets, next)
  <2>1. Asking(tx, data, fc, owed) /\ PutsOff(fc, owed, upsets) /\ InTime(tx, data, fc)
    BY <1>2 DEF Asking, PutsOff, InTime, Answered
  <2>2. Holding(rx, next) /\ Coming(tx, rx, data) /\ Together(tx, rx, data, fc, owed)
    BY <1>2 DEF Holding, Coming, Together, Answered
  <2> QED
    BY <2>1, <2>2 DEF Agreed
<1>6. Arrived(rx, data, delivered, next)
  BY <1>2 DEF Arrived
<1> QED
  BY <1>1, <1>3, <1>4, <1>5, <1>6 DEF LinkInv, Link

\* The sender gives up: on a foreign receiver a grant may still come.
LEMMA TxGivesUp ==
    ASSUME NEW l \in TxType, NEW r \in RxType, NEW d \in DataQueue,
           NEW f \in FcQueue, NEW o \in BOOLEAN, NEW u, NEW v, NEW n \in Nat,
           Link(l, r, d, f, o, u, v, n), NEW w, u \subseteq w,
           "gaveUp" \notin w => /\ \A i \in 1..Len(d) : ~Candidate(l, d[i])
                                /\ ~Answered(f, o)
    PROVE  Link(TxIdle, r, d, f, o, w, v, n)
<1>1. TxIdle \in TxType /\ TxIdle.phase = "idle" /\ TxIdle.bsLeft = 0
  BY IdleTypes DEF TxIdle
<1>2. n <= n /\ n <= n + 1 /\ n <= Len(Pieces) + 1
  BY Constants DEF Link, Sending
<1> QED
  BY <1>1, <1>2, TxDropped

\* isotp_poll of the sender, after handle_fc.
LEMMA PollTxKeeps ==
    ASSUME TypeOK, NEW l \in TxType, NEW f \in FcQueue,
           Link(l, rx, data, f, owed, upsets, delivered, next), PollTx(l)
    PROVE  /\ tx' \in TxType /\ data' \in DataQueue
           /\ upsets' \subseteq {"fault", "foreign", "gaveUp"}
           /\ Link(tx', rx, data', f, owed, upsets', delivered, next)
<1>t. /\ rx \in RxType /\ data \in DataQueue /\ next \in Nat /\ owed \in BOOLEAN
      /\ upsets \subseteq {"fault", "foreign", "gaveUp"}
  BY DEF TypeOK
<1>i. TxIdle \in TxType /\ TxIdle.phase = "idle" /\ TxIdle.bsLeft = 0
  BY IdleTypes DEF TxIdle
<1>1. CASE l.phase = "wait" /\ l.timer >= NBs
  <2>1. tx' = TxIdle /\ upsets' = upsets \cup PutOff /\ data' = data
    BY <1>1 DEF PollTx, TxReset
  <2>2. ASSUME "gaveUp" \notin upsets'
        PROVE  (\A i \in 1..Len(data) : ~Candidate(l, data[i])) /\ ~Answered(f, owed)
    <3>1. "foreign" \notin upsets /\ "gaveUp" \notin upsets
      BY <2>1, <2>2 DEF PutOff
    <3>2. /\ PutsOff(f, owed, upsets) /\ InTime(l, data, f)
          /\ UnderWay(l, data, f, next)
      BY <3>1 DEF Link, Agreed
    <3>3. /\ 2 * MaxDelay < NBs /\ MaxDelay \in Nat /\ NBs \in Nat /\ l.timer \in Nat
      BY Constants, IsoTpTiming, TxFields
    <3>4. ASSUME NEW i \in 1..Len(data), Candidate(l, data[i])
          PROVE  FALSE
      <4>1. l.timer <= data[i].age /\ data[i].age <= MaxDelay /\ data[i].age \in Nat
        BY <1>1, <1>t, <3>2, <3>4, DataFields DEF InTime, UnderWay
      <4> QED
        BY <1>1, <3>3, <4>1
    <3>5. ASSUME NEW i \in 1..Len(f)
          PROVE  FALSE
      <4>1. l.timer <= MaxDelay + f[i].age /\ f[i].age <= MaxDelay /\ f[i].age \in Nat
        BY <1>1, <3>2, FcFields DEF InTime, UnderWay
      <4> QED
        BY <1>1, <3>3, <4>1
    <3>6. Len(f) = 0 /\ ~owed
      BY <3>1, <3>2, <3>5, FcFields DEF PutsOff
    <3> QED
      BY <3>4, <3>6 DEF Answered
  <2>3. Link(TxIdle, rx, data, f, owed, upsets', delivered, next)
    BY <1>t, <2>1, <2>2, TxGivesUp
  <2> QED
    BY <1>t, <1>i, <2>1, <2>3 DEF PutOff
<1>2. CASE l.phase = "send" /\ l.stTimer >= STmin
  <2> DEFINE g == Frame("CF", <<l.msg, l.off + 1>>, 0, l.sn)
  <2>1. /\ g \in DataType /\ g.type = "CF" /\ g.piece[1] = l.msg
        /\ g.piece[2] = l.off + 1 /\ g.age = 0
    <3>1. l.msg \in Nat /\ l.off + 1 \in Nat /\ 0 \in Nat /\ l.sn \in Nat
      BY TxFields
    <3> QED
      BY <3>1 DEF Frame, DataType, PieceType
  <2> HIDE DEF g
  <2>2. CASE data' = Append(data, g) /\ tx' = AfterCf(l) /\ upsets' = upsets
    <3>1. data' \in DataQueue /\ Pushed(data, data', g)
      BY <1>t, <2>1, <2>2, Pushing DEF DataQueue
    <3>2. tx' \in TxType /\ Advanced(l, tx')
      BY <1>2, <2>2, AfterCfReturns
    <3>3. Link(tx', rx, data', f, owed, upsets, delivered, next)
      BY <1>2, <1>t, <2>1, <3>1, <3>2, CfSent
    <3> QED
      BY <1>t, <2>2, <3>1, <3>2, <3>3
  <2>3. CASE Fault /\ tx' = TxReset(l) /\ data' = data
    <3>1. tx' = TxIdle /\ upsets' = upsets \cup {"fault"}
      BY <2>3 DEF TxReset, Fault
    <3>2. ASSUME "gaveUp" \notin upsets'
          PROVE  (\A i \in 1..Len(data) : ~Candidate(l, data[i])) /\ ~Answered(f, owed)
      <4>1. Asking(l, data, f, owed)
        BY <3>1, <3>2 DEF Link, Agreed
      <4> QED
        BY <1>2, <4>1 DEF Asking, Candidate
    <3>3. Link(TxIdle, rx, data, f, owed, upsets', delivered, next)
      BY <1>t, <3>1, <3>2, TxGivesUp
    <3> QED
      BY <1>t, <1>i, <2>3, <3>1, <3>3
  <2> QED
    BY <1>2, <2>2, <2>3 DEF PollTx, Put, g
<1>3. CASE ~(l.phase = "wait" /\ l.timer >= NBs) /\ ~(l.phase = "send" /\ l.stTimer >= STmin)
  <2>1. tx' = l /\ data' = data /\ upsets' = upsets
    BY <1>3 DEF PollTx
  <2> QED
    BY <1>t, <2>1
<1> QED
  BY <1>1, <1>2, <1>3

\* isotp_send keeps the invariant,
LEMMA SendKeeps == LinkInv /\ Send => LinkInv'
<1> SUFFICES ASSUME LinkInv, Send PROVE LinkInv'
  OBVIOUS
<1>t. TypeOK /\ ~rx.complete
      /\ Link(tx, rx, data, fc, owed, upsets, delivered, next)
  BY DEF LinkInv
<1>u. /\ tx \in TxType /\ rx \in RxType /\ data \in DataQueue /\ fc \in FcQueue
      /\ next \in Nat /\ owed \in BOOLEAN
  BY <1>t, TypeFacts
<1>n. /\ tx.phase = "idle" /\ next \in 1..Len(Pieces) /\ next' = next + 1
      /\ Pieces[next] \in Nat
      /\ UNCHANGED <<rx, fc, delivered, owed>>
  BY Constants DEF Send
<1>i. TxIdle \in TxType /\ TxIdle.phase = "idle" /\ TxIdle.bsLeft = 0
  BY IdleTypes DEF TxIdle
<1> DEFINE type == IF Pieces[next] = 1 THEN "SF" ELSE "FF"
           g == Frame(type, <<next, 1>>, Pieces[next], 0)
<1>g. /\ g \in DataType /\ g.type = type /\ g.piece[1] = next /\ g.piece[2] = 1
      /\ g.len = Pieces[next] /\ g.age = 0
  BY <1>n DEF Frame, DataType, PieceType
<1>1. CASE data' = Append(data, g) /\ tx' = (IF type = "SF" THEN TxReset(tx) ELSE Started)
           /\ upsets' = upsets
  <2>1. data' \in DataQueue /\ Pushed(data, data', g)
    BY <1>u, <1>g, <1>1, Pushing DEF DataQueue
  <2>2. /\ tx' \in TxType
        /\ \/ g.type = "SF" /\ Pieces[next] = 1 /\ tx'.phase = "idle" /\ tx'.bsLeft = 0
           \/ /\ g.type = "FF" /\ Pieces[next] # 1
              /\ tx'.phase = "wait" /\ tx'.msg = next /\ tx'.off = 1
              /\ tx'.bsLeft = 0 /\ tx'.timer = 0
    <3>1. CASE Pieces[next] = 1
      BY <1>g, <1>i, <1>1, <3>1 DEF TxReset
    <3>2. CASE Pieces[next] # 1
      <4>1. tx' = Started
        BY <1>1, <3>2
      <4>2. /\ Started \in TxType /\ Started.phase = "wait" /\ Started.msg = next
            /\ Started.off = 1 /\ Started.bsLeft = 0 /\ Started.timer = 0
        BY <1>u DEF Started, TxIdle, TxType
      <4> QED
        BY <1>g, <3>2, <4>1, <4>2
    <3> QED
      BY <3>1, <3>2
  <2> HIDE DEF g, type
  <2>3. Link(tx', rx, data', fc, owed, upsets, delivered, next + 1)
    BY <1>t, <1>u, <1>n, <1>g, <2>1, <2>2, FirstSent
  <2> QED
    BY <1>t, <1>n, <1>1, <1>u, <2>1, <2>2, <2>3 DEF LinkInv, TypeOK
<1>2. CASE Fault /\ tx' = TxReset(tx) /\ data' = data
  <2>1. tx' = TxIdle /\ upsets' = upsets \cup {"fault"}
    BY <1>2 DEF TxReset, Fault
  <2>2. ASSUME "gaveUp" \notin upsets'
        PROVE  (\A i \in 1..Len(data) : ~Candidate(tx, data[i])) /\ ~Answered(fc, owed)
    <3>1. Asking(tx, data, fc, owed)
      BY <1>t, <2>1, <2>2 DEF Link, Agreed
    <3> QED
      BY <1>n, <3>1 DEF Asking, Candidate
  <2>3. Link(TxIdle, rx, data, fc, owed, upsets', delivered, next + 1)
    <3>1. next + 1 \in Nat /\ next <= next + 1 /\ next + 1 <= next + 1
          /\ next + 1 <= Len(Pieces) + 1
      BY <1>n, Constants
    <3> QED
      BY <1>t, <1>u, <1>i, <2>1, <2>2, <3>1, TxDropped
  <2> QED
    BY <1>t, <1>n, <1>2, <1>u, <1>i, <2>1, <2>3 DEF LinkInv, TypeOK
<1> QED
  BY <1>1, <1>2 DEF Send, Put

\* so does a pass of the sender's task.
LEMMA TxKeeps == LinkInv /\ TxPass => LinkInv'
<1> SUFFICES ASSUME LinkInv, TxPass PROVE LinkInv'
  OBVIOUS
<1>t. TypeOK /\ ~rx.complete
      /\ Link(tx, rx, data, fc, owed, upsets, delivered, next)
  BY DEF LinkInv
<1>u. /\ tx \in TxType /\ rx \in RxType /\ data \in DataQueue /\ fc \in FcQueue
      /\ next \in Nat /\ owed \in BOOLEAN
  BY <1>t, TypeFacts
<1>n. UNCHANGED <<rx, next, delivered, owed>>
  BY DEF TxPass, TxFrame, TxNoFrame, app
<1>q. ASSUME tx' \in TxType, data' \in DataQueue, fc' \in FcQueue,
             upsets' \subseteq {"fault", "foreign", "gaveUp"},
             Link(tx', rx, data', fc', owed, upsets', delivered, next)
      PROVE  LinkInv'
  BY <1>t, <1>n, <1>q DEF LinkInv, TypeOK
<1>1. CASE TxNoFrame
  <2>1. PollTx(tx) /\ fc' = fc
    BY <1>1 DEF TxNoFrame
  <2>2. /\ tx' \in TxType /\ data' \in DataQueue
        /\ upsets' \subseteq {"fault", "foreign", "gaveUp"}
        /\ Link(tx', rx, data', fc, owed, upsets', delivered, next)
    BY <1>t, <1>u, <2>1, PollTxKeeps
  <2> QED
    BY <1>q, <1>u, <2>1, <2>2
<1>2. CASE TxFrame
  <2> DEFINE s == Head(fc).status
             l == OnFc(tx, s)
             f == Tail(fc)
  <2>1. fc # <<>> /\ fc' = f
    BY <1>2 DEF TxFrame
  <2>2. f \in FcQueue /\ Popped(fc, f) /\ Head(fc) = fc[1]
        /\ s \in {"CTS", "WAIT", "OVFLW"}
    <3>1. Tail(fc) \in FcQueue /\ Popped(fc, Tail(fc)) /\ Head(fc) = fc[1]
          /\ Head(fc) \in FcType
      BY <1>u, <2>1, Popping DEF FcQueue
    <3> QED
      BY <3>1 DEF FcType
  <2>3. \/ /\ s = "WAIT" /\ tx.phase = "wait" /\ l = TxIdle
           /\ tx' = l /\ upsets' = upsets \cup PutOff /\ data' = data
        \/ ~(s = "WAIT" /\ tx.phase = "wait" /\ l = TxIdle) /\ PollTx(l)
    BY <1>2 DEF TxFrame
  <2>4. /\ l \in TxType
        /\ tx.phase # "wait" => l = tx
        /\ tx.phase = "wait" /\ s = "CTS" =>
              /\ l.phase = "send" /\ l.bsLeft = BlockSize
              /\ l.msg = tx.msg /\ l.off = tx.off
        /\ tx.phase = "wait" /\ s = "WAIT" =>
              \/ l = TxIdle
              \/ /\ l.phase = "wait" /\ l.bsLeft = tx.bsLeft
                 /\ l.msg = tx.msg /\ l.off = tx.off
        /\ tx.phase = "wait" /\ s = "OVFLW" => l = TxIdle
    BY <1>u, <2>2, OnFcReturns
  <2> HIDE DEF l, f, s
  <2>5. Link(tx, rx, data, f, owed, upsets, delivered, next)
    BY <1>t, <1>u, <2>2, FcLost
  <2>6. s = fc[1].status
    BY <2>2 DEF s
  <2>7. CASE s = "WAIT" /\ tx.phase = "wait" /\ l = TxIdle
    <3>1. tx' = TxIdle /\ upsets' = upsets \cup PutOff /\ data' = data
      BY <2>3, <2>7
    <3>2. "gaveUp" \in upsets'
      <4>1. "gaveUp" \notin upsets => PutsOff(fc, owed, upsets)
        BY <1>t DEF Link, Agreed
      <4>2. 1 \in 1..Len(fc)
        BY <1>u, <2>2, FcFields DEF Popped
      <4>3. "gaveUp" \notin upsets => "foreign" \in upsets
        BY <2>6, <2>7, <4>1, <4>2 DEF PutsOff
      <4> QED
        BY <3>1, <4>3 DEF PutOff
    <3>3. Link(TxIdle, rx, data, f, owed, upsets', delivered, next)
      BY <1>u, <2>2, <2>5, <3>1, <3>2, TxGivesUp
    <3>4. upsets' \subseteq {"fault", "foreign", "gaveUp"}
      BY <1>t, <3>1 DEF TypeOK, PutOff
    <3> QED
      BY <1>q, <1>u, <2>1, <2>2, <3>1, <3>3, <3>4, IdleTypes
  <2>8. CASE ~(s = "WAIT" /\ tx.phase = "wait" /\ l = TxIdle)
    <3>1. PollTx(l)
      BY <2>3, <2>8
    <3>2. Link(l, rx, data, f, owed, upsets, delivered, next)
      <4>1. CASE tx.phase # "wait"
        BY <2>4, <2>5, <4>1
      <4>2. CASE tx.phase = "wait" /\ s = "CTS"
        BY <1>t, <1>u, <2>2, <2>4, <2>6, <4>2, GrantTaken
      <4>3. CASE tx.phase = "wait" /\ s = "WAIT"
        BY <1>t, <1>u, <2>2, <2>4, <2>6, <2>8, <4>3, WaitTaken
      <4>4. CASE tx.phase = "wait" /\ s = "OVFLW"
        <5>1. ASSUME "gaveUp" \notin upsets
              PROVE  (\A i \in 1..Len(data) : ~Candidate(tx, data[i])) /\ ~Answered(f, owed)
          <6>1. Asking(tx, data, fc, owed)
            BY <1>t, <5>1 DEF Link, Agreed
          <6>2. Len(fc) = 1 /\ Len(f) = 0 /\ 1 \in 1..Len(fc)
            BY <1>u, <2>2, <6>1, FcFields DEF Popped, Asking
          <6>3. ~owed /\ Answered(fc, owed)
            <7>1. fc[1].status # "WAIT"
              BY <2>6, <4>4
            <7>2. ~owed
              BY <6>1, <6>2, <7>1 DEF Asking
            <7> QED
              BY <6>2, <7>2 DEF Answered
          <6> QED
            BY <6>1, <6>2, <6>3 DEF Asking, Answered
        <5>2. Link(TxIdle, rx, data, f, owed, upsets, delivered, next)
          BY <1>u, <2>2, <2>5, <5>1, TxGivesUp
        <5> QED
          BY <2>4, <4>4, <5>2
      <4> QED
        BY <2>2, <4>1, <4>2, <4>3, <4>4
    <3>3. /\ tx' \in TxType /\ data' \in DataQueue
          /\ upsets' \subseteq {"fault", "foreign", "gaveUp"}
          /\ Link(tx', rx, data', f, owed, upsets', delivered, next)
      BY <1>t, <2>2, <2>4, <3>1, <3>2, PollTxKeeps
    <3> QED
      BY <1>q, <2>1, <2>2, <3>3
  <2> QED
    BY <2>7, <2>8
<1> QED
  BY <1>1, <1>2 DEF TxPass

\* After the sender gave up, what reaches the receiver is not judged.
LEMMA Loose ==
    ASSUME NEW l \in TxType, NEW r, NEW d \in DataQueue, NEW f \in FcQueue,
           NEW o, NEW u, NEW v, NEW n \in Nat, Link(l, r, d, f, o, u, v, n),
           NEW e \in DataQueue, NEW k, Rest(d, e, k), NEW f2,
           f2 = f \/ (\E a \in FcType : a.age = 0 /\ Pushed(f, f2, a)),
           NEW r2, NEW o2, NEW w, "gaveUp" \in w, NEW v2
    PROVE  Link(l, r2, e, f2, o2, w, v2, n)
<1>1. Sending(l, n) /\ UnderWay(l, e, f, n)
  BY UnderWayRest DEF Link
<1>2. \A i \in 1..Len(f2) : f2[i].age <= MaxDelay
  <2>1. CASE f2 = f
    BY <1>1, <2>1 DEF UnderWay
  <2>2. CASE \E a \in FcType : a.age = 0 /\ Pushed(f, f2, a)
    <3>1. PICK a \in FcType : a.age = 0 /\ Pushed(f, f2, a)
      BY <2>2
    <3>2. ASSUME NEW i \in 1..Len(f2)
          PROVE  f2[i] = a \/ (i \in 1..Len(f) /\ f2[i] = f[i])
      BY <3>1, FcFields DEF Pushed
    <3> QED
      BY <1>1, <3>1, <3>2, Constants DEF UnderWay
  <2> QED
    BY <2>1, <2>2
<1>3. UnderWay(l, e, f2, n)
  BY <1>1, <1>2 DEF UnderWay
<1> QED
  BY <1>1, <1>3 DEF Link, Agreed

\* The next message is delivered.
Newest(m, v, e) ==
    /\ \A i \in 1..Len(v) : Msg(v[i]) < m
    /\ \A j \in 1..Len(e) : e[j].type # "CF" => m < e[j].piece[1]

\* A whole message is delivered after those before it.
LEMMA ArrivedMore ==
    ASSUME NEW r, NEW d \in DataQueue, NEW v, NEW n \in Nat, Arrived(r, d, v, n),
           Len(v) \in Nat, NEW e \in DataQueue, Rest(d, e, 1),
           NEW m \in 1..Len(Pieces), m < n, NEW v2, Pushed(v, v2, Whole(m)),
           Newest(m, v, e), NEW r2, r2.phase = "idle"
    PROVE  Arrived(r2, e, v2, n)
<1>0. \A j \in 1..Len(e) : \E i \in 1..Len(d) : e[j] = d[i]
  BY RestOf
<1>1. /\ Len(v2) = Len(v) + 1
      /\ \A i \in 1..Len(v2) : \/ (i \in 1..Len(v) /\ v2[i] = v[i])
                               \/ (i = Len(v2) /\ v2[i] = Whole(m))
  BY DEF Pushed
<1>2. Msg(Whole(m)) = m
  BY WholeFirst
<1>3. \A i \in 1..Len(v2) : \E h \in 1..Len(Pieces) : h < n /\ v2[i] = Whole(h)
  BY <1>1 DEF Arrived
<1>4. ASSUME NEW i \in 1..Len(v2), NEW j \in 1..Len(v2), i < j
      PROVE  Msg(v2[i]) < Msg(v2[j])
  <2>1. i \in 1..Len(v) /\ v2[i] = v[i]
    BY <1>1, <1>4
  <2>2. CASE j \in 1..Len(v) /\ v2[j] = v[j]
    BY <1>4, <2>1, <2>2 DEF Arrived
  <2>3. CASE v2[j] = Whole(m)
    BY <1>2, <2>1, <2>3 DEF Newest
  <2> QED
    BY <1>1, <2>2, <2>3
<1>5. ASSUME NEW i \in 1..Len(v2), NEW j \in 1..Len(e), e[j].type # "CF"
      PROVE  Msg(v2[i]) < e[j].piece[1]
  <2>1. CASE i \in 1..Len(v) /\ v2[i] = v[i]
    <3>1. PICK h \in 1..Len(d) : e[j] = d[h]
      BY <1>0
    <3> QED
      BY <1>5, <2>1, <3>1 DEF Arrived
  <2>2. CASE v2[i] = Whole(m)
    BY <1>2, <1>5, <2>2 DEF Newest
  <2> QED
    BY <1>1, <2>1, <2>2
<1> QED
  BY <1>3, <1>4, <1>5 DEF Arrived

\* isotp_poll of the receiver: nothing, or the reception is given up.
LEMMA PollRxReturns ==
    ASSUME NEW r \in RxType
    PROVE  /\ PollRx(r) = r \/ PollRx(r) = RxReset(r)
           /\ r.phase # "recv" \/ r.timer < NCr => PollRx(r) = r
           /\ PollRx(r) \in RxType
<1>1. (r.phase = "recv" /\ r.timer >= NCr) \/ PollRx(r) = r
  BY DEF PollRx
<1>2. PollRx(r) = r \/ PollRx(r) = RxReset(r)
  BY DEF PollRx
<1>3. r.phase # "recv" \/ r.timer < NCr => PollRx(r) = r
  BY <1>1, RxFields, Constants
<1> QED
  BY <1>2, <1>3, RxResetReturns

\* isotp_receive: a complete physical message is delivered.
LEMMA CollectReturns ==
    ASSUME NEW r \in RxType, delivered \in Seq(Buffers), Collect(r)
    PROVE  /\ rx' \in RxType /\ ~rx'.complete /\ delivered' \in Seq(Buffers)
           /\ rx'.phase = r.phase /\ rx'.buf = r.buf /\ rx'.len = r.len
           /\ rx'.sn = r.sn /\ rx'.blockCf = r.blockCf /\ rx'.timer = r.timer
           /\ rx'.functional = r.functional
           /\ ~r.complete => delivered' = delivered
           /\ r.complete /\ ~r.functional =>
                 /\ delivered' = Append(delivered, r.buf)
                 /\ Pushed(delivered, delivered', r.buf)
           /\ r.functional => delivered' = delivered
<1>1. rx' = [r EXCEPT !.complete = FALSE]
  BY DEF Collect
<1>2. rx' \in RxType
  BY <1>1, Zenon DEF RxType
<1>3. /\ ~rx'.complete
      /\ rx'.phase = r.phase /\ rx'.buf = r.buf /\ rx'.len = r.len
      /\ rx'.sn = r.sn /\ rx'.blockCf = r.blockCf /\ rx'.timer = r.timer
      /\ rx'.functional = r.functional
  BY <1>1 DEF RxType
<1>4. r.buf \in Buffers
  BY RxFields
<1>5. Append(delivered, r.buf) \in Seq(Buffers)
      /\ Pushed(delivered, Append(delivered, r.buf), r.buf)
  BY <1>4, Pushing
<1>6. CASE r.complete /\ ~r.functional
  <2>1. delivered' = Append(delivered, r.buf)
    BY <1>6 DEF Collect
  <2> QED
    BY <1>2, <1>3, <1>5, <1>6, <2>1
<1>7. CASE ~(r.complete /\ ~r.functional)
  <2>1. delivered' = delivered
    BY <1>7 DEF Collect
  <2> QED
    BY <1>2, <1>3, <1>7, <2>1
<1> QED
  BY <1>6, <1>7

\* The receiver keeps its types on any frame.
LEMMA OnCanFrameTypes ==
    ASSUME NEW r \in RxType, NEW g \in DataType
    PROVE  /\ OnCanFrame(r, g) \in RxType
           /\ g.type = "SF" => OnCanFrame(r, g) = OnSf(r, g)
           /\ g.type = "FF" => OnCanFrame(r, g) = OnFf(r, g)
           /\ g.type = "CF" => OnCanFrame(r, g) = OnCf(r, g)
<1>1. /\ g.type = "SF" => OnCanFrame(r, g) = OnSf(r, g)
      /\ g.type = "FF" => OnCanFrame(r, g) = OnFf(r, g)
      /\ g.type = "CF" => OnCanFrame(r, g) = OnCf(r, g)
  BY DEF OnCanFrame
<1>2. g.type = "SF" => OnSf(r, g) \in RxType
  BY OnSfReturns, FrameFields
<1>3. OnFf(r, g) \in RxType /\ OnCf(r, g) \in RxType
  BY OnFfReturns, OnCfReturns
<1> QED
  BY <1>1, <1>2, <1>3, FrameFields

\* Frame g is the last one of the message that is in r2 now.
Completes(g, r2) ==
    \/ g.type = "SF" /\ r2.buf = <<g.piece>>
    \/ /\ g.type = "CF" /\ rx.phase = "recv"
       /\ Appended(rx, r2.buf, g.piece) /\ Len(r2.buf) = rx.len

\* A single frame, or the last consecutive frame, is delivered.
LEMMA Delivers ==
    ASSUME LinkInv, data # <<>>, "gaveUp" \notin upsets,
           NEW r2 \in RxType, r2.phase = "idle", r2.blockCf <= rx.blockCf + 1,
           Completes(data[1], r2), NEW v2, Pushed(delivered, v2, r2.buf)
    PROVE  Link(tx, r2, Tail(data), fc, FALSE, upsets, v2, next)
<1> DEFINE e == Tail(data)
           g == data[1]
<1>t. TypeOK /\ Link(tx, rx, data, fc, owed, upsets, delivered, next)
  BY DEF LinkInv
<1>u. /\ tx \in TxType /\ rx \in RxType /\ data \in DataQueue /\ fc \in FcQueue
      /\ next \in Nat /\ owed \in BOOLEAN /\ Len(delivered) \in Nat
  BY <1>t, TypeFacts, LenProperties
<1>1. e \in DataQueue /\ Popped(data, e)
  BY <1>u, Popping DEF DataQueue
<1> HIDE DEF e
<1>2. Rest(data, e, 1)
  BY <1>1 DEF Popped, Rest
<1>3. /\ Len(data) \in Nat /\ Len(e) \in Nat /\ Len(data) = Len(e) + 1 /\ 1 \in 1..Len(data)
      /\ \A i \in 1..Len(e) : e[i] = data[i + 1] /\ i + 1 \in 1..Len(data)
      /\ \A i \in 1..Len(e) : \E j \in 1..Len(data) : e[i] = data[j]
  BY <1>1, <1>2, <1>u, RestOf DEF Popped
<1>4. /\ Asking(tx, data, fc, owed) /\ Holding(rx, next) /\ Coming(tx, rx, data)
      /\ Arrived(rx, data, delivered, next) /\ UnderWay(tx, data, fc, next)
  BY <1>t DEF Link, Agreed
<1>5. Genuine(g, next) /\ g.piece \in PieceType /\ g.piece[1] \in Nat
      /\ g.piece[2] \in Nat /\ g.piece = <<g.piece[1], g.piece[2]>>
  <2>1. Genuine(g, next)
    BY <1>3, <1>4 DEF UnderWay
  <2>2. g \in DataType
    BY <1>u, <1>3, ElementOfSeq DEF DataQueue
  <2> QED
    BY <2>1, <2>2, FrameFields
<1> DEFINE m == g.piece[1]
<1>6. m \in 1..Len(Pieces) /\ m < next
  BY <1>5 DEF Genuine
<1>m. m = g.piece[1] /\ g = data[1]
  OBVIOUS
<1>h. \/ g.type = "SF" /\ r2.buf = <<g.piece>>
      \/ /\ g.type = "CF" /\ rx.phase = "recv"
         /\ Appended(rx, r2.buf, g.piece) /\ Len(r2.buf) = rx.len
  BY DEF Completes
<1> HIDE DEF m, g
<1>7. /\ r2.buf = Whole(m)
      /\ \A i \in 1..Len(delivered) : Msg(delivered[i]) < m
  <2>1. CASE g.type = "SF" /\ r2.buf = <<g.piece>>
    <3>1. Pieces[m] = 1 /\ g.piece = <<m, 1>>
      BY <1>5, <1>m, <2>1 DEF Genuine
    <3>2. /\ Whole(m) \in Seq(PieceType) /\ Len(Whole(m)) = 1
          /\ Whole(m)[1] = <<m, 1>>
      <4>1. /\ Whole(m) \in Seq(PieceType) /\ Len(Whole(m)) = Pieces[m]
            /\ \A i \in 1..Pieces[m] : Whole(m)[i] = <<m, i>>
        BY <1>6, WholeSeq
      <4>2. 1 \in 1..Pieces[m]
        BY <3>1
      <4> QED
        BY <3>1, <4>1, <4>2
    <3>3. /\ <<g.piece>> \in Seq(PieceType) /\ Len(<<g.piece>>) = 1
          /\ <<g.piece>>[1] = g.piece
      BY <1>5, OnePiece DEF Buffers
    <3>4. <<g.piece>> = Whole(m)
      BY <3>1, <3>2, <3>3, SeqEqual
    <3>5. \A i \in 1..Len(delivered) : Msg(delivered[i]) < m
      BY <1>3, <1>4, <1>m, <2>1 DEF Arrived
    <3> QED
      BY <2>1, <3>4, <3>5
  <2>2. CASE /\ g.type = "CF" /\ rx.phase = "recv"
             /\ Appended(rx, r2.buf, g.piece) /\ Len(r2.buf) = rx.len
    <3>1. r2.buf \in Buffers
      BY RxFields
    <3>2. r2.buf = Whole(Current(rx))
      BY <1>u, <1>3, <1>4, <1>5, <1>m, <2>2, <3>1, CfCompletes
    <3>3. Current(rx) = m
      BY <1>3, <1>4, <1>m, <2>2 DEF Coming
    <3>4. \A i \in 1..Len(delivered) : Msg(delivered[i]) < m
      BY <1>4, <2>2, <3>3 DEF Arrived
    <3> QED
      BY <3>2, <3>3, <3>4
  <2> QED
    BY <1>h, <2>1, <2>2
<1>8. ASSUME NEW j \in 1..Len(e), e[j].type # "CF"
      PROVE  m < e[j].piece[1]
  <2>1. j + 1 \in 1..Len(data) /\ 1 < j + 1 /\ e[j] = data[j + 1]
    BY <1>3
  <2>2. Genuine(e[j], next) /\ Before(g.piece, e[j].piece)
    BY <1>3, <1>4, <1>m, <2>1 DEF UnderWay, InOrder
  <2>3. e[j].type \in {"SF", "FF"} /\ e[j].piece[1] \in Nat /\ g.piece[2] >= 1
    <3>1. e[j].type \in {"SF", "FF", "CF"} /\ e[j].piece[1] \in Nat
      BY <1>1, DataFields
    <3>2. g.type \in {"SF", "CF"}
      BY <1>h
    <3>3. g.piece[2] = 1 \/ g.piece[2] \in 2..Pieces[m]
      BY <1>5, <1>m, <3>2 DEF Genuine
    <3>4. g.piece[2] >= 1
      BY <1>5, <1>6, <1>m, <3>3, Constants
    <3> QED
      BY <1>8, <3>1, <3>4
  <2>4. e[j].piece[2] = 1
    BY <2>2, <2>3 DEF Genuine
  <2> QED
    BY <1>5, <1>m, <2>2, <2>3, <2>4 DEF Before
<1>9. Arrived(r2, e, v2, next)
  <2>1. Pushed(delivered, v2, Whole(m))
    BY <1>7
  <2>2. Newest(m, delivered, e)
    BY <1>7, <1>8 DEF Newest
  <2>3. Arrived(rx, data, delivered, next)
    BY <1>4
  <2> QED
    BY <1>u, <1>1, <1>2, <1>6, <2>1, <2>2, <2>3, ArrivedMore
<1>10. r2.blockCf + Len(e) <= rx.blockCf + Len(data)
  BY <1>u, <1>3, RxFields
<1>11. Answered(fc, FALSE) => r2.blockCf = 0
  BY <1>3, <1>4 DEF Asking, Answered
<1>12. Link(tx, r2, e, fc, FALSE, upsets, v2, next)
  BY <1>t, <1>u, <1>1, <1>2, <1>9, <1>10, <1>11, RxStops
<1> QED
  BY <1>12 DEF e

\* A pass of the receiver's task with a frame keeps the invariant,
LEMMA RxFrameKeeps == LinkInv /\ RxFrame => LinkInv'
<1> SUFFICES ASSUME LinkInv, RxFrame PROVE LinkInv'
  OBVIOUS
<1> DEFINE e == Tail(data)
           g == Head(data)
           l == OnCanFrame(rx, g)
<1>t. TypeOK /\ ~rx.complete
      /\ Link(tx, rx, data, fc, owed, upsets, delivered, next)
  BY DEF LinkInv
<1>u. /\ tx \in TxType /\ rx \in RxType /\ data \in DataQueue /\ fc \in FcQueue
      /\ next \in Nat /\ owed \in BOOLEAN /\ delivered \in Seq(Buffers)
      /\ upsets \subseteq {"fault", "foreign", "gaveUp"}
  BY <1>t, TypeFacts DEF TypeOK
<1>n. data # <<>> /\ data' = e /\ UNCHANGED <<tx, next>>
  BY DEF RxFrame
<1>1. e \in DataQueue /\ Popped(data, e) /\ g = data[1] /\ g \in DataType
  BY <1>u, <1>n, Popping DEF DataQueue
<1>2. Rest(data, e, 1) /\ 1 \in 1..Len(data)
      /\ Len(data) \in Nat /\ Len(e) \in Nat /\ Len(data) = Len(e) + 1
  BY <1>u, <1>1, DataFields DEF Popped, Rest
<1>3. /\ l \in RxType
      /\ g.type = "SF" => l = OnSf(rx, g)
      /\ g.type = "FF" => l = OnFf(rx, g)
      /\ g.type = "CF" => l = OnCf(rx, g)
  BY <1>u, <1>1, OnCanFrameTypes
<1>4. PollRx(l) = l
  <2>1. l.phase # "recv" \/ l.timer = 0
    <3>1. CASE g.type = "SF"
      BY <1>u, <1>1, <1>3, <3>1, OnSfReturns, FrameFields
    <3>2. CASE g.type = "FF"
      BY <1>u, <1>1, <1>3, <3>2, OnFfReturns
    <3>3. CASE g.type = "CF"
      <4>1. l.phase = "recv" => Taken(rx, g, l)
        BY <1>u, <1>1, <1>3, <3>3, OnCfReturns, RxResetReturns
      <4> QED
        BY <4>1, <1>3, RxFields DEF Taken
    <3> QED
      BY <1>1, <3>1, <3>2, <3>3, FrameFields
  <2> QED
    BY <1>3, <2>1, PollRxReturns, Constants
<1> HIDE DEF l, e, g
<1>5. \/ /\ ~Grants(rx, g) /\ Collect(l) /\ owed' = (owed /\ l.phase = "recv")
         /\ fc' = fc /\ upsets' = upsets
      \/ /\ Grants(rx, g) /\ Collect(l) /\ owed' = FALSE
         /\ fc' = Append(fc, Status("CTS")) /\ upsets' = upsets
      \/ /\ Grants(rx, g) /\ Collect(l) /\ owed' = TRUE
         /\ fc' = Append(fc, Status("WAIT")) /\ upsets' = upsets \cup {"foreign"}
      \/ /\ Grants(rx, g) /\ Collect(RxReset(l)) /\ owed' = FALSE
         /\ fc' = Append(fc, Status("OVFLW")) /\ upsets' = upsets \cup {"foreign"}
  BY <1>4 DEF RxFrame, Put, l, e, g
<1>6. RxReset(l) \in RxType /\ RxReset(l).phase = "idle" /\ RxReset(l).blockCf = 0
      /\ RxReset(l).complete = l.complete
  BY <1>3, RxResetReturns
<1>7. rx' \in RxType /\ ~rx'.complete /\ delivered' \in Seq(Buffers)
  BY <1>u, <1>3, <1>5, <1>6, CollectReturns
<1>8. \/ fc' = fc
      \/ \E a \in FcType : a.age = 0 /\ Pushed(fc, fc', a) /\ fc' \in FcQueue
  <2>1. \A s \in {"CTS", "WAIT", "OVFLW"} :
           /\ Status(s) \in FcType /\ Status(s).age = 0
           /\ Pushed(fc, Append(fc, Status(s)), Status(s))
           /\ Append(fc, Status(s)) \in FcQueue
    BY <1>u, StatusTypes, Pushing DEF FcQueue
  <2> QED
    BY <1>5, <2>1
<1>9. /\ fc' \in FcQueue /\ owed' \in BOOLEAN
      /\ upsets' \subseteq {"fault", "foreign", "gaveUp"}
  <2>1. owed' = FALSE \/ owed' = TRUE
    BY <1>u, <1>5
  <2> QED
    BY <1>u, <1>5, <1>8, <2>1
<1>q. ASSUME Link(tx, rx', e, fc', owed', upsets', delivered', next)
      PROVE  LinkInv'
  BY <1>q, <1>n, <1>t, <1>u, <1>1, <1>7, <1>9 DEF LinkInv, TypeOK
<1>10. CASE "gaveUp" \in upsets
  <2>1. "gaveUp" \in upsets'
    BY <1>5, <1>10
  <2>2. Link(tx, rx', e, fc', owed', upsets', delivered', next)
    BY <1>t, <1>u, <1>1, <1>2, <1>8, <2>1, Loose
  <2> QED
    BY <1>q, <2>2
<1>11. CASE "gaveUp" \notin upsets
  <2>0. /\ Asking(tx, data, fc, owed) /\ Holding(rx, next) /\ Coming(tx, rx, data)
        /\ Arrived(rx, data, delivered, next)
    BY <1>t, <1>11 DEF Link, Agreed
  <2>1. ~Answered(fc, owed) /\ ~owed
    BY <1>2, <2>0 DEF Asking, Answered
  <2>2. ASSUME Grants(rx, g), ~l.complete, l.blockCf = 0,
               tx.phase = "wait", Candidate(tx, data[1]), Len(e) = 0,
               l.phase = "recv" => AtGrant(tx, l, next), Arrived(l, e, delivered, next)
        PROVE  LinkInv'
    <3>1. PICK s \in {"CTS", "WAIT", "OVFLW"} :
             /\ fc' = Append(fc, Status(s))
             /\ s = "OVFLW" => Collect(RxReset(l)) /\ owed' = FALSE
             /\ s # "OVFLW" => Collect(l) /\ owed' = (s = "WAIT")
             /\ s = "CTS" => upsets' = upsets
             /\ s # "CTS" => upsets' = upsets \cup {"foreign"}
      BY <1>5, <2>2
    <3>2. /\ Status(s) \in FcType /\ Status(s).age = 0 /\ Status(s).status = s
          /\ Pushed(fc, fc', Status(s))
      BY <1>u, <3>1, StatusTypes, Pushing DEF FcQueue
    <3>3. /\ delivered' = delivered /\ rx'.blockCf = 0
          /\ rx'.phase = "recv" => s # "OVFLW" /\ AtGrant(tx, rx', next)
      <4>1. CASE s = "OVFLW"
        BY <1>u, <1>6, <2>2, <3>1, <4>1, CollectReturns
      <4>2. CASE s # "OVFLW"
        <5>1. /\ delivered' = delivered /\ rx'.blockCf = 0 /\ rx'.phase = l.phase
              /\ rx'.buf = l.buf /\ rx'.len = l.len /\ rx'.functional = l.functional
          BY <1>u, <1>3, <2>2, <3>1, <4>2, CollectReturns
        <5>2. AtGrant(tx, l, next) => AtGrant(tx, rx', next)
          BY <2>2, <5>1 DEF AtGrant, Holding, Current
        <5> QED
          BY <2>2, <4>2, <5>1, <5>2
      <4> QED
        BY <4>1, <4>2
    <3>4. Arrived(rx', e, delivered, next)
      <4>1. CASE s = "OVFLW"
        <5>1. rx'.phase = "idle"
          BY <1>u, <1>6, <3>1, <4>1, CollectReturns
        <5> QED
          BY <2>2, <5>1, ArrivedRest
      <4>2. CASE s # "OVFLW"
        <5>1. rx'.phase = l.phase /\ rx'.buf = l.buf
          BY <1>u, <1>3, <3>1, <4>2, CollectReturns
        <5> QED
          BY <2>2, <5>1 DEF Arrived, Current
      <4> QED
        BY <4>1, <4>2
    <3>5. owed' = (s = "WAIT") /\ (owed' => rx'.phase = "recv")
      <4>1. l.phase = "recv"
        BY <1>u, <1>1, <1>3, <2>2, OnFfReturns, OnCfReturns, RxResetReturns
        DEF Grants
      <4> QED
        BY <1>u, <1>3, <3>1, <4>1, CollectReturns
    <3>6. Link(tx, rx', e, fc', owed', upsets', delivered', next)
      <4>1. /\ upsets \subseteq upsets' /\ upsets' \subseteq upsets \cup {"foreign"}
            /\ s # "CTS" => "foreign" \in upsets'
        BY <3>1
      <4>2. Link(tx, rx', e, fc', owed', upsets', delivered, next)
        <5> DEFINE a == Status(s)
                   r2 == rx'
                   f2 == fc'
                   o2 == owed'
                   w == upsets'
        <5>1. /\ f2 \in FcQueue /\ a \in FcType /\ Pushed(fc, f2, a) /\ a.age = 0
              /\ r2 \in RxType /\ o2 \in BOOLEAN
          BY <1>7, <1>9, <3>2
        <5>3. Admits(a, o2, r2, upsets, w)
          BY <1>9, <3>2, <3>5, <4>1 DEF Admits
        <5>5. "gaveUp" \notin upsets =>
                 /\ LastAsked(tx, data, e) /\ Stopped(tx, r2, next)
                 /\ Arrived(r2, e, delivered, next)
          BY <2>2, <3>3, <3>4 DEF LastAsked, Stopped
        <5> HIDE DEF a, r2, f2, o2, w
        <5>6. Link(tx, r2, e, f2, o2, w, delivered, next)
          <6>1. /\ Link(tx, rx, data, fc, owed, upsets, delivered, next)
                /\ e \in DataQueue /\ Popped(data, e)
            BY <1>t, <1>1
          <6> QED
            BY <1>u, <5>1, <5>3, <5>5, <6>1, Answers
        <5> QED
          BY <5>6 DEF r2, f2, o2, w
      <4>3. delivered' = delivered
        BY <3>3
      <4> QED
        BY <4>2, <4>3
    <3> QED
      BY <1>q, <3>6
  <2>3. CASE g.type = "SF"
    <3>1. /\ l.phase = "idle" /\ l.blockCf = rx.blockCf /\ l.buf = <<g.piece>>
          /\ l.complete /\ ~l.functional
      BY <1>u, <1>1, <1>3, <2>3, OnSfReturns, FrameFields
    <3>2. Collect(l) /\ owed' = FALSE /\ fc' = fc /\ upsets' = upsets
      BY <1>5, <2>1, <2>3 DEF Grants
    <3>3. /\ rx'.phase = "idle" /\ rx'.blockCf = rx.blockCf /\ rx'.buf = <<g.piece>>
          /\ Pushed(delivered, delivered', rx'.buf)
      BY <1>u, <1>3, <3>1, <3>2, CollectReturns
    <3>4. rx'.blockCf <= rx.blockCf + 1
      BY <1>u, <3>3, RxFields
    <3>5. Link(tx, rx', e, fc, FALSE, upsets, delivered', next)
      <4> DEFINE r2 == rx'
                 v2 == delivered'
      <4>1. /\ r2 \in RxType /\ r2.phase = "idle" /\ r2.blockCf <= rx.blockCf + 1
            /\ Pushed(delivered, v2, r2.buf)
        BY <1>7, <3>3, <3>4
      <4>2. Completes(data[1], r2)
        BY <1>1, <2>3, <3>3 DEF Completes
      <4>3. data # <<>>
        BY <1>n
      <4> HIDE DEF r2, v2
      <4>4. Link(tx, r2, Tail(data), fc, FALSE, upsets, v2, next)
        BY <1>11, <4>1, <4>2, <4>3, Delivers
      <4> QED
        BY <4>4 DEF e, r2, v2
    <3> QED
      BY <1>q, <3>2, <3>5
  <2>4. CASE g.type = "FF"
    <3>1. /\ l.phase = "recv" /\ l.blockCf = 0 /\ l.buf = <<g.piece>>
          /\ l.len = g.len /\ l.complete = rx.complete /\ ~l.functional
      BY <1>u, <1>1, <1>3, <2>4, OnFfReturns
    <3>2. Len(l.buf) = 1 /\ l.buf[1] = data[1].piece
      BY <1>1, <3>1, OnePiece, FrameFields
    <3>3. /\ tx.phase = "wait" /\ Candidate(tx, data[1]) /\ Len(e) = 0
          /\ AtGrant(tx, l, next) /\ Arrived(l, e, delivered, next)
      <4>1. data[1].type = "FF" /\ l.len = data[1].len
        BY <1>1, <2>4, <3>1
      <4>2. l \in RxType /\ l.phase = "recv" /\ ~l.functional /\ l.blockCf = 0
        BY <1>3, <3>1
      <4>3. /\ Link(tx, rx, data, fc, owed, upsets, delivered, next)
            /\ e \in DataQueue /\ Popped(data, e)
        BY <1>t, <1>1
      <4> QED
        BY <1>u, <1>11, <3>2, <4>1, <4>2, <4>3, FfGrants
    <3>4. Grants(rx, g)
      BY <2>4 DEF Grants
    <3> QED
      BY <1>t, <2>2, <3>1, <3>3, <3>4
  <2>5. CASE g.type = "CF"
    <3>0. \/ rx.phase # "recv" /\ l = rx
          \/ rx.phase = "recv" /\ g.sn # rx.sn /\ l = RxReset(rx)
          \/ /\ rx.phase = "recv" /\ g.sn = rx.sn /\ Len(rx.buf) + 1 = rx.len
             /\ Taken(rx, g, l) /\ l.phase = "idle" /\ l.complete
             /\ l.blockCf = rx.blockCf + 1
          \/ /\ rx.phase = "recv" /\ g.sn = rx.sn /\ Len(rx.buf) + 1 # rx.len
             /\ Taken(rx, g, l) /\ l.phase = "recv"
             /\ l.complete = rx.complete
             /\ l.blockCf = IF BlockSize # 0 /\ rx.blockCf + 1 >= BlockSize
                            THEN 0 ELSE rx.blockCf + 1
      BY <1>u, <1>1, <1>3, <2>5, OnCfReturns
    <3>r. rx.blockCf \in Nat /\ Len(rx.buf) \in Nat /\ rx.phase \in {"idle", "recv"}
      BY <1>u, RxFields
    <3>1. CASE l.phase = "idle" /\ ~l.complete /\ l.blockCf <= rx.blockCf
               /\ ~Grants(rx, g)
      <4>1. Collect(l) /\ owed' = FALSE /\ fc' = fc /\ upsets' = upsets
        BY <1>5, <2>1, <3>1
      <4>2. /\ rx'.phase = "idle" /\ rx'.blockCf = l.blockCf
            /\ delivered' = delivered
        BY <1>u, <1>3, <3>1, <4>1, CollectReturns
      <4>3. Arrived(rx', e, delivered, next)
        BY <1>u, <1>1, <1>2, <2>0, <4>2, RestOf, ArrivedRest
      <4>4. rx'.blockCf + Len(e) <= rx.blockCf + Len(data)
        BY <1>2, <1>7, <3>r, <3>1, <4>2, RxFields
      <4>5. ~Answered(fc, FALSE)
        BY <2>1 DEF Answered
      <4>6. Link(tx, rx', e, fc, FALSE, upsets, delivered, next)
        BY <1>t, <1>u, <1>1, <1>2, <1>7, <4>2, <4>3, <4>4, <4>5, RxStops
      <4> QED
        BY <1>q, <4>1, <4>2, <4>6
    <3>2. CASE rx.phase # "recv" /\ l = rx
      <4>1. ~Grants(rx, g)
        BY <2>5, <3>2 DEF Grants
      <4> QED
        BY <1>t, <3>r, <3>1, <3>2, <4>1
    <3>3. CASE rx.phase = "recv" /\ g.sn # rx.sn /\ l = RxReset(rx)
      <4>1. ~Grants(rx, g)
        BY <2>5, <3>3 DEF Grants
      <4>2. l.phase = "idle" /\ ~l.complete /\ l.blockCf = 0
        BY <1>t, <1>u, <3>3, RxResetReturns
      <4> QED
        BY <3>r, <3>1, <4>1, <4>2
    <3>4. CASE /\ rx.phase = "recv" /\ g.sn = rx.sn /\ Len(rx.buf) + 1 = rx.len
               /\ Taken(rx, g, l) /\ l.phase = "idle" /\ l.complete
               /\ l.blockCf = rx.blockCf + 1
      <4>1. ~(Len(rx.buf) + 1 < rx.len)
        BY <3>r, <3>4
      <4>2. ~Grants(rx, g)
        BY <2>5, <4>1 DEF Grants
      <4>3. Collect(l) /\ owed' = FALSE /\ fc' = fc /\ upsets' = upsets
        BY <1>5, <2>1, <4>2
      <4>4. ~l.functional /\ Appended(rx, l.buf, g.piece) /\ Len(l.buf) = rx.len
        BY <2>0, <3>4 DEF Taken, Appended, Holding
      <4>5. /\ rx'.phase = "idle" /\ rx'.blockCf = rx.blockCf + 1 /\ rx'.buf = l.buf
            /\ Pushed(delivered, delivered', rx'.buf)
        BY <1>u, <1>3, <3>4, <4>3, <4>4, CollectReturns
      <4>6. Link(tx, rx', e, fc, FALSE, upsets, delivered', next)
        <5> DEFINE r2 == rx'
                   v2 == delivered'
        <5>1. /\ r2 \in RxType /\ r2.phase = "idle" /\ r2.blockCf <= rx.blockCf + 1
              /\ Pushed(delivered, v2, r2.buf)
          BY <1>7, <3>r, <4>5
        <5>2. Completes(data[1], r2)
          BY <1>1, <2>5, <3>4, <4>4, <4>5 DEF Completes
        <5>3. data # <<>>
          BY <1>n
        <5> HIDE DEF r2, v2
        <5>4. Link(tx, r2, Tail(data), fc, FALSE, upsets, v2, next)
          BY <1>11, <5>1, <5>2, <5>3, Delivers
        <5> QED
          BY <5>4 DEF e, r2, v2
      <4> QED
        BY <1>q, <4>3, <4>6
    <3>5. CASE /\ rx.phase = "recv" /\ g.sn = rx.sn /\ Len(rx.buf) + 1 # rx.len
               /\ Taken(rx, g, l) /\ l.phase = "recv" /\ l.complete = rx.complete
               /\ l.blockCf = IF BlockSize # 0 /\ rx.blockCf + 1 >= BlockSize
                              THEN 0 ELSE rx.blockCf + 1
      <4>1. /\ Appended(rx, l.buf, data[1].piece) /\ l.len = rx.len
            /\ l.functional = rx.functional /\ Len(l.buf) # rx.len
        BY <1>1, <3>5 DEF Taken, Appended
      <4>2. Len(rx.buf) + 1 < rx.len
        BY <1>u, <2>0, <3>r, <3>5, RxFields DEF Holding
      <4>3. CASE BlockSize # 0 /\ rx.blockCf + 1 >= BlockSize
        <5>1. Grants(rx, g)
          BY <2>5, <3>5, <4>2, <4>3 DEF Grants
        <5>2. l.blockCf = 0
          BY <3>5, <4>3
        <5>3. /\ tx.phase = "wait" /\ Candidate(tx, data[1]) /\ Len(e) = 0
              /\ AtGrant(tx, l, next) /\ Arrived(l, e, delivered, next)
          BY <1>t, <1>u, <1>1, <1>3, <1>11, <2>5, <3>5, <4>1, <4>3, <5>2, CfGrants
        <5> QED
          BY <1>t, <2>2, <3>5, <5>1, <5>2, <5>3
      <4>4. CASE ~(BlockSize # 0 /\ rx.blockCf + 1 >= BlockSize)
        <5>1. ~Grants(rx, g)
          BY <2>5, <4>4 DEF Grants
        <5>2. Collect(l) /\ owed' = FALSE /\ fc' = fc /\ upsets' = upsets
          BY <1>5, <2>1, <5>1
        <5>3. l.blockCf = rx.blockCf + 1 /\ (BlockSize # 0 => l.blockCf < BlockSize)
          BY <3>r, <3>5, <4>4, Constants
        <5>4. Link(tx, l, e, fc, FALSE, upsets, delivered, next)
          BY <1>t, <1>u, <1>1, <1>3, <2>5, <3>5, <4>1, <5>3, CfTaken
        <5>5. /\ rx'.phase = l.phase /\ rx'.buf = l.buf /\ rx'.len = l.len
              /\ rx'.blockCf = l.blockCf /\ rx'.functional = l.functional
              /\ delivered' = delivered
          BY <1>t, <1>u, <1>3, <3>5, <5>2, CollectReturns
        <5>6. Link(tx, rx', e, fc, FALSE, upsets, delivered, next)
          BY <5>4, <5>5, RxSame
        <5> QED
          BY <1>q, <5>2, <5>5, <5>6
      <4> QED
        BY <4>3, <4>4
    <3> QED
      BY <3>0, <3>2, <3>3, <3>4, <3>5
  <2> QED
    BY <1>1, <2>3, <2>4, <2>5, FrameFields
<1> QED
  BY <1>10, <1>11

-----------------------------------------------------------------------------
(* The other passes, losses and time.                                      *)

\* A pass that takes nothing of a message: the reception goes on or stops.
LEMMA RxQuiet ==
    ASSUME LinkInv, NEW l \in RxType, Collect(l), l.functional \/ ~l.complete,
           owed' = (owed /\ l.phase = "recv"),
           UNCHANGED <<tx, data, fc, next, upsets>>,
           \/ /\ l.phase = rx.phase /\ l.buf = rx.buf /\ l.len = rx.len
              /\ l.blockCf = rx.blockCf /\ l.functional = rx.functional
           \/ l.phase = "idle" /\ l.blockCf \in {0, rx.blockCf}
    PROVE  LinkInv'
<1>t. TypeOK /\ Link(tx, rx, data, fc, owed, upsets, delivered, next)
  BY DEF LinkInv
<1>u. /\ tx \in TxType /\ rx \in RxType /\ data \in DataQueue /\ fc \in FcQueue
      /\ next \in Nat /\ owed \in BOOLEAN /\ delivered \in Seq(Buffers)
  BY <1>t, TypeFacts
<1>1. /\ rx' \in RxType /\ ~rx'.complete /\ delivered' = delivered
      /\ rx'.phase = l.phase /\ rx'.buf = l.buf /\ rx'.len = l.len
      /\ rx'.blockCf = l.blockCf /\ rx'.functional = l.functional
  BY <1>u, CollectReturns
<1>2. owed' \in BOOLEAN
  BY <1>u
<1>3. Link(tx, rx', data, fc, owed', upsets, delivered, next)
  <2>1. CASE l.phase = "recv"
    <3>1. owed' = owed
      BY <1>u, <2>1
    <3>2. /\ rx'.phase = rx.phase /\ rx'.buf = rx.buf /\ rx'.len = rx.len
          /\ rx'.blockCf = rx.blockCf /\ rx'.functional = rx.functional
      BY <1>1, <2>1
    <3>3. Link(tx, rx', data, fc, owed, upsets, delivered, next)
      BY <1>t, <3>2, RxSame
    <3> QED
      BY <3>1, <3>3
  <2>2. CASE l.phase = "idle"
    <3>1. owed' = FALSE
      BY <2>2
    <3>2. Rest(data, data, 0) /\ Len(data) \in Nat
      BY <1>u, DataFields DEF Rest
    <3>3. l.blockCf = 0 \/ l.blockCf = rx.blockCf
      OBVIOUS
    <3>4. rx'.phase = "idle" /\ rx'.blockCf + Len(data) <= rx.blockCf + Len(data)
      <4>1. rx.blockCf \in Nat
        BY <1>u, RxFields
      <4> QED
        BY <1>1, <2>2, <3>2, <3>3, <4>1
    <3>5. "gaveUp" \notin upsets /\ Answered(fc, FALSE) => rx'.blockCf = 0
      <4>1. "gaveUp" \notin upsets => Together(tx, rx, data, fc, owed)
        BY <1>t DEF Link, Agreed
      <4> QED
        BY <1>1, <3>3, <4>1 DEF Together, Answered
    <3>6. "gaveUp" \notin upsets => Arrived(rx', data, delivered, next)
      <4>1. \A i \in 1..Len(data) : \E j \in 1..Len(data) : data[i] = data[j]
        OBVIOUS
      <4>2. "gaveUp" \notin upsets => Arrived(rx, data, delivered, next)
        BY <1>t DEF Link
      <4>3. rx'.phase # "recv"
        BY <3>4
      <4> QED
        BY <4>1, <4>2, <4>3, ArrivedRest
    <3>7. Link(tx, rx', data, fc, FALSE, upsets, delivered, next)
      BY <1>t, <1>u, <1>1, <3>2, <3>4, <3>5, <3>6, RxStops
    <3> QED
      BY <3>1, <3>7
  <2> QED
    BY <2>1, <2>2, RxFields
<1> QED
  BY <1>t, <1>1, <1>2, <1>3 DEF LinkInv, TypeOK

\* so does a pass without one,
LEMMA RxNoFrameKeeps == LinkInv /\ RxNoFrame => LinkInv'
<1> SUFFICES ASSUME LinkInv, RxNoFrame PROVE LinkInv'
  OBVIOUS
<1>u. rx \in RxType /\ ~rx.complete /\ owed \in BOOLEAN
  BY TypeFacts DEF LinkInv
<1>1. /\ Collect(PollRx(rx)) /\ ~owed /\ owed' = owed
      /\ UNCHANGED <<tx, data, fc, next, upsets>>
  BY DEF RxNoFrame, env
<1>2. PollRx(rx) \in RxType /\ (PollRx(rx) = rx \/ PollRx(rx) = RxReset(rx))
  BY <1>u, PollRxReturns
<1>3. ~PollRx(rx).complete
      /\ \/ PollRx(rx) = rx
         \/ PollRx(rx).phase = "idle" /\ PollRx(rx).blockCf = 0
  BY <1>u, <1>2, RxResetReturns
<1>4. owed' = (owed /\ PollRx(rx).phase = "recv")
  <2>1. owed = FALSE /\ owed' = FALSE
    BY <1>u, <1>1
  <2> QED
    BY <2>1
<1> DEFINE l == PollRx(rx)
<1> HIDE DEF l
<1>5. /\ l \in RxType /\ Collect(l) /\ (l.functional \/ ~l.complete)
      /\ owed' = (owed /\ l.phase = "recv")
      /\ \/ /\ l.phase = rx.phase /\ l.buf = rx.buf /\ l.len = rx.len
            /\ l.blockCf = rx.blockCf /\ l.functional = rx.functional
         \/ l.phase = "idle" /\ l.blockCf \in {0, rx.blockCf}
  BY <1>1, <1>2, <1>3, <1>4 DEF l
<1> QED
  BY <1>1, <1>5, RxQuiet

\* a pass with a broadcast,
LEMMA BroadcastKeeps == LinkInv /\ Broadcast => LinkInv'
<1> SUFFICES ASSUME LinkInv, Broadcast PROVE LinkInv'
  OBVIOUS
<1>u. rx \in RxType /\ ~rx.complete /\ owed \in BOOLEAN
  BY TypeFacts DEF LinkInv
<1> DEFINE g == Frame("BC", <<0, 1>>, 1, 0)
           b == OnSf(rx, g)
           l == PollRx(b)
<1>1. g.piece \in PieceType /\ g.type = "BC"
  BY DEF Frame, PieceType
<1>2. OnCanFrame(rx, g) = b
  BY <1>1 DEF OnCanFrame
<1>3. /\ Collect(l) /\ owed' = (owed /\ l.phase = "recv")
      /\ UNCHANGED <<tx, data, fc, next, upsets>>
  BY <1>2 DEF Broadcast
<1>4. /\ rx.phase = "recv" => b = rx
      /\ rx.phase = "idle" =>
            /\ b \in RxType /\ b.phase = "idle"
            /\ b.blockCf = rx.blockCf /\ b.functional
  <2> HIDE DEF g
  <2> QED
    BY <1>u, <1>1, OnBcReturns
<1> HIDE DEF b, g
<1>5. b \in RxType
  BY <1>u, <1>4, RxFields
<1>6. l \in RxType /\ (l = b \/ l = RxReset(b)) /\ (b.phase # "recv" => l = b)
  BY <1>5, PollRxReturns
<1> HIDE DEF l
<1>7. /\ l.functional \/ ~l.complete
      /\ \/ /\ l.phase = rx.phase /\ l.buf = rx.buf /\ l.len = rx.len
            /\ l.blockCf = rx.blockCf /\ l.functional = rx.functional
         \/ l.phase = "idle" /\ l.blockCf \in {0, rx.blockCf}
  <2>1. CASE rx.phase = "recv"
    <3>1. l = rx \/ l = RxReset(rx)
      BY <1>4, <1>6, <2>1
    <3> QED
      BY <1>u, <3>1, RxResetReturns
  <2>2. CASE rx.phase = "idle"
    BY <1>4, <1>6, <2>2
  <2> QED
    BY <1>u, <2>1, <2>2, RxFields
<1> QED
  BY <1>3, <1>6, <1>7, RxQuiet

\* a late answer of a foreign receiver,
LEMMA PeerAnswersKeeps == LinkInv /\ PeerAnswers => LinkInv'
<1> SUFFICES ASSUME LinkInv, PeerAnswers PROVE LinkInv'
  OBVIOUS
<1>t. TypeOK /\ ~rx.complete
      /\ Link(tx, rx, data, fc, owed, upsets, delivered, next)
  BY DEF LinkInv
<1>u. /\ tx \in TxType /\ rx \in RxType /\ data \in DataQueue /\ fc \in FcQueue
      /\ next \in Nat
  BY <1>t, TypeFacts
<1>1. /\ owed = TRUE /\ fc = <<>> /\ rx' = [rx EXCEPT !.timer = 0]
      /\ UNCHANGED <<tx, data, next, delivered, upsets>>
  BY <1>t DEF PeerAnswers, app, TypeOK
<1>2. PICK o \in BOOLEAN :
         /\ fc' = Append(fc, Status(IF o THEN "WAIT" ELSE "CTS")) /\ owed' = o
  BY DEF PeerAnswers, Put
<1> DEFINE s == IF o THEN "WAIT" ELSE "CTS"
           a == Status(s)
<1>3. a \in FcType /\ a.status = s /\ a.age = 0
      /\ fc' \in FcQueue /\ Pushed(fc, fc', a) /\ Len(fc) = 0
  <2>1. s \in {"CTS", "WAIT", "OVFLW"}
    OBVIOUS
  <2>2. a \in FcType /\ a.status = s /\ a.age = 0
    BY <2>1, StatusTypes
  <2> QED
    BY <1>u, <1>1, <1>2, <2>2, Pushing, Empty DEF FcQueue
<1>4. a.status = IF o THEN "WAIT" ELSE "CTS"
  BY <1>3
<1>5. /\ rx' \in RxType /\ ~rx'.complete
      /\ rx'.phase = rx.phase /\ rx'.buf = rx.buf /\ rx'.len = rx.len
      /\ rx'.blockCf = rx.blockCf /\ rx'.functional = rx.functional
  <2>1. rx' \in RxType
    BY <1>u, <1>1, Zenon DEF RxType
  <2> QED
    BY <1>t, <1>u, <1>1, <2>1 DEF RxType
<1> HIDE DEF a, s
<1>6. Link(tx, rx, data, fc', o, upsets, delivered, next)
  <2>1. Link(tx, rx, data, fc, TRUE, upsets, delivered, next)
    BY <1>t, <1>1
  <2> QED
    BY <1>u, <1>3, <1>4, <2>1, AnswersAgain
<1>7. Link(tx, rx', data, fc', o, upsets, delivered, next)
  BY <1>5, <1>6, RxSame
<1> QED
  BY <1>t, <1>1, <1>2, <1>3, <1>5, <1>7 DEF LinkInv, TypeOK

\* a frame that is lost
LEMMA LoseKeeps == LinkInv /\ Lose => LinkInv'
<1> SUFFICES ASSUME LinkInv, Lose PROVE LinkInv'
  OBVIOUS
<1>t. TypeOK /\ ~rx.complete
      /\ Link(tx, rx, data, fc, owed, upsets, delivered, next)
  BY DEF LinkInv
<1>u. /\ tx \in TxType /\ rx \in RxType /\ data \in DataQueue /\ fc \in FcQueue
      /\ next \in Nat /\ owed \in BOOLEAN
  BY <1>t, TypeFacts
<1>1. /\ upsets' = upsets \cup {"fault"}
      /\ UNCHANGED <<tx, rx, next, delivered, owed>>
  BY DEF Lose, Fault, app
<1>2. upsets \subseteq upsets' /\ upsets' \subseteq upsets \cup {"fault"}
      /\ upsets' \subseteq {"fault", "foreign", "gaveUp"}
  BY <1>t, <1>1 DEF TypeOK
<1>3. CASE data # <<>> /\ data' = Tail(data) /\ fc' = fc
  <2>1. data' \in DataQueue /\ Popped(data, data')
    BY <1>u, <1>3, Popping DEF DataQueue
  <2>2. Link(tx, rx, data', fc, owed, upsets', delivered, next)
    BY <1>t, <1>u, <1>2, <2>1, DataLost
  <2> QED
    BY <1>t, <1>1, <1>2, <1>3, <2>1, <2>2 DEF LinkInv, TypeOK
<1>4. CASE fc # <<>> /\ fc' = Tail(fc) /\ data' = data
  <2>1. fc' \in FcQueue /\ Popped(fc, fc')
    BY <1>u, <1>4, Popping DEF FcQueue
  <2>2. Link(tx, rx, data, fc', owed, upsets, delivered, next)
    BY <1>t, <1>u, <2>1, FcLost
  <2>3. Link(tx, rx, data, fc', owed, upsets', delivered, next)
    BY <1>1, <2>2 DEF Link, Agreed, PutsOff
  <2> QED
    BY <1>t, <1>1, <1>2, <1>4, <2>1, <2>3 DEF LinkInv, TypeOK
<1> QED
  BY <1>3, <1>4 DEF Lose

\* What time does to the channels.
LEMMA OlderData ==
    ASSUME NEW d \in DataQueue, ~Overdue(d),
           \A i \in 1..Len(d) : d[i].age <= MaxDelay
    PROVE  /\ Older(d) \in DataQueue /\ Len(Older(d)) = Len(d)
           /\ \A i \in 1..Len(d) :
                 /\ Older(d)[i].type = d[i].type /\ Older(d)[i].piece = d[i].piece
                 /\ Older(d)[i].len = d[i].len /\ Older(d)[i].sn = d[i].sn
                 /\ Older(d)[i].age = d[i].age + 1 /\ Older(d)[i].age <= MaxDelay
<1>1. DOMAIN d = 1..Len(d) /\ Len(d) \in Nat /\ \A i \in 1..Len(d) : d[i] \in DataType
  BY LenProperties, ElementOfSeq DEF DataQueue
<1>2. ASSUME NEW i \in 1..Len(d)
      PROVE  /\ Older(d)[i] \in DataType
             /\ Older(d)[i].type = d[i].type /\ Older(d)[i].piece = d[i].piece
             /\ Older(d)[i].len = d[i].len /\ Older(d)[i].sn = d[i].sn
             /\ Older(d)[i].age = d[i].age + 1 /\ Older(d)[i].age <= MaxDelay
  <2>1. Older(d)[i] = [d[i] EXCEPT !.age = d[i].age + 1]
    BY <1>1 DEF Older
  <2>2. d[i].age \in Nat /\ d[i].age < MaxDelay
    BY <1>1, Constants, DataFields DEF Overdue
  <2>3. d[i].age + 1 \in Nat /\ d[i] \in DataType
    BY <1>1, <2>2
  <2>4. Older(d)[i] \in DataType
    BY <2>1, <2>3, Zenon DEF DataType
  <2> QED
    BY <1>1, <2>1, <2>2, <2>4, Constants DEF DataType
<1>3. Older(d) \in [1..Len(d) -> DataType]
  BY <1>1, <1>2 DEF Older
<1>4. Older(d) \in DataQueue /\ Len(Older(d)) = Len(d)
  <2>1. Older(d) \in Seq(DataType)
    <3>1. \E n \in Nat : Older(d) \in [1..n -> DataType]
      BY <1>1, <1>3
    <3>2. Seq(DataType) = UNION {[1..n -> DataType] : n \in Nat}
      BY SeqDef
    <3> QED
      BY <3>1, <3>2
  <2> QED
    BY <1>1, <1>3, <2>1, LenProperties DEF DataQueue
<1> QED
  BY <1>2, <1>4

\* Flow control frames get older, and are no others.
LEMMA OlderFc ==
    ASSUME NEW f \in FcQueue, ~Overdue(f),
           \A i \in 1..Len(f) : f[i].age <= MaxDelay
    PROVE  /\ Older(f) \in FcQueue /\ Len(Older(f)) = Len(f)
           /\ \A i \in 1..Len(f) :
                 /\ Older(f)[i].status = f[i].status
                 /\ Older(f)[i].age = f[i].age + 1 /\ Older(f)[i].age <= MaxDelay
<1>1. DOMAIN f = 1..Len(f) /\ Len(f) \in Nat /\ \A i \in 1..Len(f) : f[i] \in FcType
  BY LenProperties, ElementOfSeq DEF FcQueue
<1>2. ASSUME NEW i \in 1..Len(f)
      PROVE  /\ Older(f)[i] \in FcType /\ Older(f)[i].status = f[i].status
             /\ Older(f)[i].age = f[i].age + 1 /\ Older(f)[i].age <= MaxDelay
  <2>1. Older(f)[i] = [f[i] EXCEPT !.age = f[i].age + 1]
    BY <1>1 DEF Older
  <2>2. f[i].age \in Nat /\ f[i].age < MaxDelay
    BY <1>1, Constants, FcFields DEF Overdue
  <2>3. f[i].age + 1 \in Nat /\ f[i] \in FcType
    BY <1>1, <2>2
  <2>4. Older(f)[i] \in FcType
    BY <2>1, <2>3, Zenon DEF FcType
  <2> QED
    BY <1>1, <2>1, <2>2, <2>4, Constants DEF FcType
<1>3. Older(f) \in [1..Len(f) -> FcType]
  BY <1>1, <1>2 DEF Older
<1>4. Older(f) \in FcQueue /\ Len(Older(f)) = Len(f)
  <2>1. Older(f) \in Seq(FcType)
    <3>1. \E n \in Nat : Older(f) \in [1..n -> FcType]
      BY <1>1, <1>3
    <3>2. Seq(FcType) = UNION {[1..n -> FcType] : n \in Nat}
      BY SeqDef
    <3> QED
      BY <3>1, <3>2
  <2> QED
    BY <1>1, <1>3, <2>1, LenProperties DEF FcQueue
<1> QED
  BY <1>2, <1>4

\* What it does to the timers.
LEMMA TimersRun ==
    ASSUME TypeOK, Tick
    PROVE  /\ tx' \in TxType /\ rx' \in RxType
           /\ tx'.phase = tx.phase /\ tx'.msg = tx.msg /\ tx'.off = tx.off
           /\ tx'.sn = tx.sn /\ tx'.bsLeft = tx.bsLeft
           /\ tx'.timer = Upto(tx.timer, NBs)
           /\ tx'.stTimer = Upto(tx.stTimer, STmin + 1)
           /\ rx'.phase = rx.phase /\ rx'.buf = rx.buf /\ rx'.len = rx.len
           /\ rx'.sn = rx.sn /\ rx'.blockCf = rx.blockCf
           /\ rx'.functional = rx.functional /\ rx'.complete = rx.complete
           /\ rx'.timer = Upto(rx.timer, NCr)
<1>u. tx \in TxType /\ rx \in RxType
  BY TypeFacts
<1> DEFINE t == Upto(tx.timer, NBs)
           s == Upto(tx.stTimer, STmin + 1)
           q == Upto(rx.timer, NCr)
<1>1. tx' = [tx EXCEPT !.timer = t, !.stTimer = s] /\ rx' = [rx EXCEPT !.timer = q]
  BY DEF Tick
<1>2. t \in Nat /\ s \in Nat /\ q \in Nat
  BY <1>u, TxFields, RxFields DEF Upto
<1> HIDE DEF t, s, q
<1>3. tx' \in TxType /\ rx' \in RxType
  BY <1>u, <1>1, <1>2, Zenon DEF TxType, RxType
<1>4. tx' = [phase |-> tx.phase, msg |-> tx.msg, off |-> tx.off, sn |-> tx.sn,
             bsLeft |-> tx.bsLeft, wft |-> tx.wft, timer |-> t, stTimer |-> s]
  BY <1>u, <1>1 DEF TxType
<1>5. rx' = [phase |-> rx.phase, buf |-> rx.buf, len |-> rx.len, sn |-> rx.sn,
             blockCf |-> rx.blockCf, timer |-> q, complete |-> rx.complete,
             functional |-> rx.functional]
  BY <1>u, <1>1 DEF RxType
<1>6. /\ tx'.phase = tx.phase /\ tx'.msg = tx.msg /\ tx'.off = tx.off
      /\ tx'.sn = tx.sn /\ tx'.bsLeft = tx.bsLeft /\ tx'.timer = t /\ tx'.stTimer = s
  BY <1>4
<1>7. /\ rx'.phase = rx.phase /\ rx'.buf = rx.buf /\ rx'.len = rx.len
      /\ rx'.sn = rx.sn /\ rx'.blockCf = rx.blockCf
      /\ rx'.functional = rx.functional /\ rx'.complete = rx.complete
      /\ rx'.timer = q
  BY <1>5
<1> QED
  BY <1>3, <1>6, <1>7 DEF t, s, q

\* and a tick.
LEMMA TickKeeps == LinkInv /\ Tick => LinkInv'
<1> SUFFICES ASSUME LinkInv, Tick PROVE LinkInv'
  OBVIOUS
<1>t. TypeOK /\ ~rx.complete
      /\ Link(tx, rx, data, fc, owed, upsets, delivered, next)
  BY DEF LinkInv
<1>u. /\ tx \in TxType /\ rx \in RxType /\ data \in DataQueue /\ fc \in FcQueue
      /\ next \in Nat /\ owed \in BOOLEAN
  BY <1>t, TypeFacts
<1>1. /\ data' = Older(data) /\ fc' = Older(fc) /\ ~Overdue(data) /\ ~Overdue(fc)
      /\ UNCHANGED <<next, delivered, owed, upsets>>
  BY DEF Tick, app, env
<1>2. /\ \A i \in 1..Len(data) : data[i].age <= MaxDelay
      /\ \A i \in 1..Len(fc) : fc[i].age <= MaxDelay
  BY <1>t DEF Link, UnderWay
<1>3. /\ data' \in DataQueue /\ Len(data') = Len(data)
      /\ \A i \in 1..Len(data) :
            /\ data'[i].type = data[i].type /\ data'[i].piece = data[i].piece
            /\ data'[i].len = data[i].len
            /\ data'[i].age = data[i].age + 1 /\ data'[i].age <= MaxDelay
  BY <1>u, <1>1, <1>2, OlderData
<1>4. /\ fc' \in FcQueue /\ Len(fc') = Len(fc)
      /\ \A i \in 1..Len(fc) :
            /\ fc'[i].status = fc[i].status
            /\ fc'[i].age = fc[i].age + 1 /\ fc'[i].age <= MaxDelay
  BY <1>u, <1>1, <1>2, OlderFc
<1>5. /\ tx' \in TxType /\ tx'.phase = tx.phase /\ tx'.msg = tx.msg
      /\ tx'.off = tx.off /\ tx'.bsLeft = tx.bsLeft /\ tx'.timer <= tx.timer + 1
  BY <1>t, <1>u, TimersRun, TxFields DEF Upto
<1>6. Link(tx', rx, data', fc', owed, upsets, delivered, next)
  <2> DEFINE l2 == tx'
             e == data'
             f2 == fc'
  <2>1. /\ l2 \in TxType /\ l2.phase = tx.phase /\ l2.msg = tx.msg /\ l2.off = tx.off
        /\ l2.bsLeft = tx.bsLeft /\ l2.timer <= tx.timer + 1
    BY <1>5
  <2>2. /\ e \in DataQueue /\ Len(e) = Len(data)
        /\ \A i \in 1..Len(data) :
              /\ e[i].type = data[i].type /\ e[i].piece = data[i].piece
              /\ e[i].len = data[i].len
              /\ e[i].age = data[i].age + 1 /\ e[i].age <= MaxDelay
    BY <1>3
  <2>3. /\ f2 \in FcQueue /\ Len(f2) = Len(fc)
        /\ \A i \in 1..Len(fc) : /\ f2[i].status = fc[i].status
                                 /\ f2[i].age = fc[i].age + 1 /\ f2[i].age <= MaxDelay
    BY <1>4
  <2> HIDE DEF l2, e, f2
  <2>4. Link(l2, rx, e, f2, owed, upsets, delivered, next)
    BY <1>t, <1>u, <2>1, <2>2, <2>3, Ticks
  <2> QED
    BY <2>4 DEF l2, e, f2
<1>7. /\ rx' \in RxType /\ ~rx'.complete
      /\ rx'.phase = rx.phase /\ rx'.buf = rx.buf /\ rx'.len = rx.len
      /\ rx'.blockCf = rx.blockCf /\ rx'.functional = rx.functional
  BY <1>t, TimersRun
<1>8. Link(tx', rx', data', fc', owed, upsets, delivered, next)
  BY <1>6, <1>7, RxSame
<1> QED
  BY <1>t, <1>1, <1>3, <1>4, <1>5, <1>7, <1>8 DEF LinkInv, TypeOK

-----------------------------------------------------------------------------
(* The link keeps its invariant.                                           *)

\* Every step keeps it.
LEMMA LinkKept == LinkInv /\ [Next]_vars => LinkInv'
<1> SUFFICES ASSUME LinkInv, [Next]_vars PROVE LinkInv'
  OBVIOUS
<1>1. CASE Send
  BY <1>1, SendKeeps
<1>2. CASE TxPass
  BY <1>2, TxKeeps
<1>3. CASE RxFrame
  BY <1>3, RxFrameKeeps
<1>4. CASE RxNoFrame
  BY <1>4, RxNoFrameKeeps
<1>5. CASE PeerAnswers
  BY <1>5, PeerAnswersKeeps
<1>6. CASE Lose
  BY <1>6, LoseKeeps
<1>7. CASE Broadcast
  BY <1>7, BroadcastKeeps
<1>8. CASE Tick
  BY <1>8, TickKeeps
<1>9. CASE UNCHANGED vars
  <2>1. UNCHANGED <<tx, rx, data, fc, next, delivered, owed, upsets>>
    BY <1>9 DEF vars, app, env
  <2> QED
    BY <2>1 DEF LinkInv, TypeOK
<1> QED
  BY <1>1, <1>2, <1>3, <1>4, <1>5, <1>6, <1>7, <1>8, <1>9 DEF Next, RxPass

(* Whatever is lost, delayed, refused or broadcast, and whatever the       *)
(* receiver answers: what is on the bus is in the order it was sent in,    *)
(* there is at most one question under way, or its answer, and what the    *)
(* receiver holds are pieces of one message (isotp.c:199-346, 376-475).    *)
THEOREM LinkHolds == Spec => []LinkInv
<1>1. Init => LinkInv
  BY LinkInit
<1>2. LinkInv /\ [Next]_vars => LinkInv'
  BY LinkKept
<1> QED
  BY <1>1, <1>2, PTL DEF Spec

(* The fields of both halves, the frames and the counters have their types. *)
THEOREM TypeCorrect == Spec => []TypeOK
BY LinkHolds, PTL DEF LinkInv

\* What LinkInv says of delivered is MessagesIntact.
LEMMA LinkIntact == LinkInv => MessagesIntact
<1> SUFFICES ASSUME LinkInv, "gaveUp" \notin upsets
             PROVE  /\ \A i \in DOMAIN delivered :
                          \E m \in 1..next - 1 : delivered[i] = Whole(m)
                    /\ \A i, j \in DOMAIN delivered :
                          i < j => delivered[i][1][1] < delivered[j][1][1]
  BY DEF MessagesIntact
<1>1. Arrived(rx, data, delivered, next) /\ next \in Nat
  BY TypeFacts DEF LinkInv, Link
<1>2. DOMAIN delivered = 1..Len(delivered)
  BY LenProperties, TypeFacts DEF LinkInv
<1>3. ASSUME NEW i \in DOMAIN delivered
      PROVE  \E m \in 1..next - 1 : delivered[i] = Whole(m)
  <2>1. PICK m \in 1..Len(Pieces) : m < next /\ delivered[i] = Whole(m)
    BY <1>1, <1>2 DEF Arrived
  <2>2. m \in 1..next - 1
    BY <1>1, <2>1, Constants
  <2> QED
    BY <2>1, <2>2
<1>4. \A i, j \in DOMAIN delivered :
         i < j => delivered[i][1][1] < delivered[j][1][1]
  BY <1>1, <1>2 DEF Arrived, Msg
<1> QED
  BY <1>3, <1>4

(* Every message isotp_receive returns is one that was sent, whole, once    *)
(* and in its order, unless the sender has given up on a grant that still   *)
(* comes (handle_sf, handle_ff, handle_cf, isotp.c:199-305).                *)
THEOREM Intact == Spec => []MessagesIntact
BY LinkHolds, LinkIntact, PTL

-----------------------------------------------------------------------------
(* With nothing lost, refused or put off: facts about the invariant.       *)

\* The last frame under way is the one that was sent last.
LEMMA LastOne ==
    ASSUME NEW l \in TxType, NEW r, NEW d \in DataQueue, NEW f, NEW n \in Nat,
           NEW done, Sending(l, n), UnderWay(l, d, f, n), Trail(l, r, d, done),
           Busy(l), Len(d) # 0
    PROVE  /\ Len(d) \in 1..Len(d) /\ At(d[Len(d)].piece, l.msg, l.off)
           /\ l.off \in 1..Pieces[l.msg] - 1 /\ Pieces[l.msg] \in Nat
           /\ d[Len(d)].type = IF l.off = 1 THEN "FF" ELSE "CF"
<1>1. Len(d) \in Nat /\ Len(d) \in 1..Len(d) /\ d[Len(d)].type \in {"SF", "FF", "CF"}
  BY DataFields
<1>2. /\ l.off \in 1..Pieces[l.msg] - 1 /\ Pieces[l.msg] \in Nat
      /\ l.off \in Nat /\ l.off >= 1
  BY Constants, TxFields DEF Sending
<1>3. At(d[Len(d)].piece, l.msg, l.off)
  <2>1. Len(d) < l.off + Len(d) /\ l.off + Len(d) - Len(d) = l.off
    BY <1>1, <1>2
  <2>2. At(d[Len(d)].piece, l.msg, l.off + Len(d) - Len(d))
    BY <1>1, <2>1 DEF Trail
  <2> QED
    BY <2>1, <2>2
<1>4. Genuine(d[Len(d)], n)
  BY <1>1 DEF UnderWay
<1>5. d[Len(d)].type = IF l.off = 1 THEN "FF" ELSE "CF"
  BY <1>1, <1>2, <1>3, <1>4 DEF Genuine, At
<1> QED
  BY <1>1, <1>2, <1>3, <1>5

\* After the first grant, what is not under way is in the buffer.
LEMMA Held ==
    ASSUME NEW l \in TxType, NEW r \in RxType, NEW d \in DataQueue, NEW f,
           NEW n \in Nat, NEW o, NEW done,
           Sending(l, n), UnderWay(l, d, f, n), Asking(l, d, f, o),
           Trail(l, r, d, done),
           l.phase = "send" \/ (l.phase = "wait" /\ l.off > 1)
    PROVE  /\ r.phase = "recv" /\ done + 1 = l.msg
           /\ Len(r.buf) + Len(d) = l.off
<1>1. Len(d) \in Nat /\ l.off \in Nat /\ l.off >= 1 /\ Busy(l)
  BY DataFields, TxFields, Constants DEF Sending, Busy
<1>2. Len(d) < l.off
  <2>1. ASSUME Len(d) >= l.off
        PROVE  FALSE
    <3> DEFINE i == Len(d) + 1 - l.off
    <3>1. i \in 1..Len(d) /\ Len(d) < l.off + i /\ l.off + i - Len(d) = 1
      BY <1>1, <2>1
    <3>2. At(d[i].piece, l.msg, l.off + i - Len(d))
      BY <1>1, <3>1 DEF Trail
    <3>3. d[i].type = "CF" /\ Genuine(d[i], n)
      BY <3>1 DEF Asking, UnderWay
    <3> HIDE DEF i
    <3>4. d[i].piece[2] = 1
      BY <3>1, <3>2 DEF At
    <3> QED
      BY <3>3, <3>4 DEF Genuine
  <2> QED
    BY <1>1, <2>1
<1> QED
  BY <1>1, <1>2 DEF Trail

\* N_Bs does not expire.
LEMMA GrantInTime ==
    ASSUME NEW l \in TxType, NEW r, NEW d \in DataQueue, NEW f \in FcQueue,
           NEW n \in Nat, NEW done, Sending(l, n), UnderWay(l, d, f, n),
           InTime(l, d, f), Trail(l, r, d, done), GrantComes(l, d, f),
           l.phase = "wait"
    PROVE  l.timer < NBs
<1>1. /\ 2 * MaxDelay < NBs /\ MaxDelay \in Nat /\ NBs \in Nat /\ l.timer \in Nat
  BY Constants, IsoTpTiming, TxFields
<1>2. CASE Len(d) # 0
  <2>1. /\ Len(d) \in 1..Len(d) /\ At(d[Len(d)].piece, l.msg, l.off)
        /\ d[Len(d)].type = IF l.off = 1 THEN "FF" ELSE "CF"
    BY <1>2, LastOne DEF Busy
  <2>2. Candidate(l, d[Len(d)])
    BY <2>1 DEF Candidate, At
  <2>3. l.timer <= d[Len(d)].age /\ d[Len(d)].age <= MaxDelay
        /\ d[Len(d)].age \in Nat
    BY <2>1, <2>2, DataFields DEF InTime, UnderWay
  <2> QED
    BY <1>1, <2>3
<1>3. CASE Len(d) = 0
  <2>1. 1 \in 1..Len(f)
    BY <1>3, FcFields DEF GrantComes
  <2>2. l.timer <= MaxDelay + f[1].age /\ f[1].age <= MaxDelay /\ f[1].age \in Nat
    BY <2>1, FcFields DEF InTime, UnderWay
  <2> QED
    BY <1>1, <2>2
<1> QED
  BY <1>2, <1>3

\* N_Cr does not expire.
LEMMA NoStall ==
    ASSUME NEW l \in TxType, NEW r \in RxType, NEW d \in DataQueue,
           NEW f \in FcQueue, NEW n \in Nat, NEW done,
           UnderWay(l, d, f, n), Flow(l, r, d, f, done, n), r.phase = "recv"
    PROVE  r.timer < NCr
<1>1. /\ 2 * MaxDelay + STmin + 1 < NCr /\ MaxDelay \in Nat /\ STmin \in Nat
      /\ NCr \in Nat /\ r.timer \in Nat /\ l.stTimer \in Nat
  BY Constants, IsoTpTiming, TxFields, RxFields
<1>2. CASE Len(d) # 0
  <2>1. 1 \in 1..Len(d)
    BY <1>2, DataFields
  <2>2. /\ r.timer <= MaxDelay + STmin + 1 + d[1].age
        /\ d[1].age <= MaxDelay /\ d[1].age \in Nat
    BY <1>2, <2>1, DataFields DEF Flow, Pace, UnderWay
  <2> QED
    BY <1>1, <2>2
<1>3. CASE Len(d) = 0 /\ l.phase = "send"
  BY <1>1, <1>3 DEF Flow, Pace
<1>4. CASE Len(d) = 0 /\ l.phase = "wait"
  <2>1. 1 \in 1..Len(f)
    BY <1>4, FcFields DEF Flow, GrantComes
  <2>2. r.timer <= f[1].age /\ f[1].age <= MaxDelay /\ f[1].age \in Nat
    BY <1>4, <2>1, FcFields DEF Flow, Pace, UnderWay
  <2> QED
    BY <1>1, <2>2
<1>5. CASE Len(d) = 0 /\ l.phase = "idle"
  BY <1>5 DEF Flow, NoneMissing, Busy
<1> QED
  BY <1>2, <1>3, <1>4, <1>5, TxFields

\* The fields of the receiver the invariant is about.
LEMMA FlowSame ==
    ASSUME NEW l, NEW r, NEW d, NEW f, NEW done, NEW n,
           Flow(l, r, d, f, done, n), NEW r2, r2.phase = r.phase, r2.sn = r.sn,
           r2.blockCf = r.blockCf,
           r.phase = "recv" => r2.buf = r.buf /\ r2.timer = r.timer
    PROVE  Flow(l, r2, d, f, done, n)
<1>1. NoneMissing(l, r2, d, done, n)
  BY DEF Flow, NoneMissing
<1>2. Trail(l, r2, d, done) /\ InBlock(l, r2, d)
  BY DEF Flow, Trail, InBlock
<1>3. Numbers(l, r2, d) /\ Pace(l, r2, d, f)
  BY DEF Flow, Numbers, Pace
<1> QED
  BY <1>1, <1>2, <1>3 DEF Flow

\* In such a run nobody puts off a grant.
LEMMA Calm ==
    ASSUME NEW l, NEW r, NEW d, NEW f, NEW o \in BOOLEAN, NEW v, NEW n,
           Link(l, r, d, f, o, {}, v, n)
    PROVE  /\ o = FALSE /\ \A i \in 1..Len(f) : f[i].status = "CTS"
           /\ Sending(l, n) /\ UnderWay(l, d, f, n) /\ Asking(l, d, f, FALSE)
           /\ InTime(l, d, f) /\ Holding(r, n) /\ Coming(l, r, d)
           /\ Together(l, r, d, f, FALSE)
<1>1. Agreed(l, r, d, f, o, {}, n)
  BY DEF Link
<1>2. PutsOff(f, o, {})
  BY <1>1 DEF Agreed
<1>3. ~o /\ \A i \in 1..Len(f) : f[i].status = "CTS"
  BY <1>2 DEF PutsOff
<1>4. o = FALSE
  BY <1>3
<1> QED
  BY <1>1, <1>3, <1>4 DEF Link, Agreed

-----------------------------------------------------------------------------
(* The sending half.                                                       *)

\* Frame g joins those under way.
LEMMA Joined ==
    ASSUME NEW d \in DataQueue, NEW e \in DataQueue, NEW g, Pushed(d, e, g)
    PROVE  /\ Len(d) \in Nat /\ Len(e) = Len(d) + 1 /\ e[Len(e)] = g
           /\ \A i \in 1..Len(d) : e[i] = d[i]
           /\ \A i \in 1..Len(e) : \/ (i \in 1..Len(d) /\ e[i] = d[i])
                                   \/ (i = Len(e) /\ e[i] = g)
           /\ e[1] = IF Len(d) = 0 THEN g ELSE d[1]
           /\ \A i \in 1..Len(e) - 1 :
                 \/ i \in 1..Len(d) - 1 /\ e[i] = d[i] /\ e[i + 1] = d[i + 1]
                 \/ i = Len(d) /\ Len(d) # 0 /\ e[i] = d[Len(d)] /\ e[i + 1] = g
<1>1. Len(d) \in Nat
  BY DataFields
<1> QED
  BY <1>1 DEF Pushed

\* isotp_send
LEMMA FirstFlows ==
    ASSUME NEW l \in TxType, NEW r \in RxType, NEW d \in DataQueue,
           NEW f \in FcQueue, NEW done \in Nat, NEW n \in 1..Len(Pieces),
           Flow(l, r, d, f, done, n), l.phase = "idle",
           NEW e \in DataQueue, NEW g \in DataType, Pushed(d, e, g),
           g.piece[1] = n, g.piece[2] = 1, NEW l2 \in TxType,
           \/ g.type = "SF" /\ Pieces[n] = 1 /\ l2.phase = "idle"
           \/ /\ g.type = "FF" /\ l2.phase = "wait" /\ l2.msg = n
              /\ l2.off = 1 /\ l2.sn = 1
    PROVE  Flow(l2, r, e, f, done, n + 1)
<1>0. /\ Len(d) \in Nat /\ Len(e) = Len(d) + 1 /\ e[Len(e)] = g
      /\ \A i \in 1..Len(d) : e[i] = d[i]
      /\ e[1] = IF Len(d) = 0 THEN g ELSE d[1]
      /\ \A i \in 1..Len(e) - 1 :
            \/ i \in 1..Len(d) - 1 /\ e[i] = d[i] /\ e[i + 1] = d[i + 1]
            \/ i = Len(d) /\ Len(d) # 0 /\ e[i] = d[Len(d)] /\ e[i + 1] = g
      /\ n \in Nat
  BY Joined, Constants
<1>1. /\ Len(d) = 0 => r.phase = "idle" /\ done = n - 1
      /\ Len(d) # 0 => At(d[Len(d)].piece, n - 1, Pieces[n - 1])
  BY DEF Flow, NoneMissing, Busy
<1>2. NoneMissing(l2, r, e, done, n + 1)
  <2>1. r.phase = "recv" => \A i \in 1..Len(r.buf) : At(r.buf[i], done + 1, i)
    BY DEF Flow, NoneMissing
  <2>2. At(e[1].piece, done + 1, IF r.phase = "recv" THEN Len(r.buf) + 1 ELSE 1)
    <3>1. CASE Len(d) = 0
      BY <1>0, <1>1, <3>1 DEF At
    <3>2. CASE Len(d) # 0
      BY <1>0, <3>2 DEF Flow, NoneMissing
    <3> QED
      BY <3>1, <3>2
  <2>3. ASSUME NEW i \in 1..Len(e) - 1
        PROVE  Follows(e[i].piece, e[i + 1].piece)
    <3>1. CASE i \in 1..Len(d) - 1 /\ e[i] = d[i] /\ e[i + 1] = d[i + 1]
      BY <3>1 DEF Flow, NoneMissing
    <3>2. CASE Len(d) # 0 /\ e[i] = d[Len(d)] /\ e[i + 1] = g
      BY <1>0, <1>1, <3>2 DEF At, Follows
    <3> QED
      BY <1>0, <3>1, <3>2
  <2>4. ~Busy(l2) => At(e[Len(e)].piece, n + 1 - 1, Pieces[n + 1 - 1])
    BY <1>0 DEF At, Busy
  <2> QED
    BY <1>0, <2>1, <2>2, <2>3, <2>4 DEF NoneMissing
<1>3. Trail(l2, r, e, done)
  <2>1. ASSUME Busy(l2), NEW i \in 1..Len(e), Len(e) < l2.off + i
        PROVE  At(e[i].piece, l2.msg, l2.off + i - Len(e))
    <3>1. l2.off = 1 /\ i = Len(e) /\ l2.msg = n
      BY <1>0, <2>1 DEF Busy
    <3> QED
      BY <1>0, <3>1 DEF At
  <2>2. Busy(l2) => ~(Len(e) < l2.off)
    BY <1>0 DEF Busy
  <2> QED
    BY <2>1, <2>2 DEF Trail
<1>4. InBlock(l2, r, e) /\ GrantComes(l2, e, f)
  BY <1>0 DEF InBlock, GrantComes
<1>5. Numbers(l2, r, e)
  <2>1. \A i \in 1..Len(e) - 1 : e[i].type = "CF" /\ e[i + 1].type = "CF"
          => e[i + 1].sn = (e[i].sn + 1) % SnMod
    <3> SUFFICES ASSUME NEW i \in 1..Len(e) - 1, e[i].type = "CF", e[i + 1].type = "CF"
                 PROVE  e[i + 1].sn = (e[i].sn + 1) % SnMod
      OBVIOUS
    <3>1. i \in 1..Len(d) - 1 /\ e[i] = d[i] /\ e[i + 1] = d[i + 1]
      BY <1>0
    <3> QED
      BY <3>1 DEF Flow, Numbers
  <2>2. r.phase = "recv" => (e[1].type = "CF" => e[1].sn = r.sn)
    BY <1>0, <1>1 DEF Flow, Numbers
  <2>3. Busy(l2) => e[Len(e)].type = "FF" /\ l2.sn = 1
    BY <1>0 DEF Busy
  <2> QED
    BY <1>0, <2>1, <2>2, <2>3 DEF Numbers
<1>6. Pace(l2, r, e, f)
  <2>1. r.phase = "recv" => r.timer <= MaxDelay + STmin + 1 + e[1].age
    BY <1>0, <1>1 DEF Flow, Pace
  <2> QED
    BY <1>0, <2>1 DEF Pace
<1> QED
  BY <1>2, <1>3, <1>4, <1>5, <1>6 DEF Flow

\* handle_fc: the block is granted.
LEMMA GrantFlows ==
    ASSUME NEW l \in TxType, NEW r \in RxType, NEW d \in DataQueue,
           NEW f \in FcQueue, NEW v, NEW n \in Nat, NEW done \in Nat,
           Link(l, r, d, f, FALSE, {}, v, n), Flow(l, r, d, f, done, n),
           l.phase = "wait", NEW f2, Popped(f, f2), Len(f2) \in Nat,
           NEW l2 \in TxType, l2.phase = "send", l2.bsLeft = BlockSize,
           l2.msg = l.msg, l2.off = l.off, l2.sn = l.sn, l2.stTimer = 0
    PROVE  Flow(l2, r, d, f2, done, n)
<1>1. /\ Asking(l, d, f, FALSE) /\ Together(l, r, d, f, FALSE)
      /\ UnderWay(l, d, f, n) /\ Sending(l, n)
  BY Calm
<1>2. Len(f) \in Nat /\ Len(f) # 0 /\ 1 \in 1..Len(f)
  BY FcFields DEF Popped
<1>3. Answered(f, FALSE) /\ Len(d) = 0 /\ r.blockCf = 0
  BY <1>1, <1>2 DEF Asking, Together, Answered
<1>4. NoneMissing(l2, r, d, done, n) /\ Trail(l2, r, d, done)
  BY DEF Flow, NoneMissing, Trail, Busy
<1>5. InBlock(l2, r, d) /\ GrantComes(l2, d, f2)
  BY <1>3, Constants DEF InBlock, GrantComes
<1>6. Numbers(l2, r, d)
  BY DEF Flow, Numbers, Busy
<1>7. Pace(l2, r, d, f2)
  <2>1. f[1].age \in Nat /\ f[1].age <= MaxDelay
    BY <1>1, <1>2, FcFields DEF UnderWay
  <2>2. r.phase = "recv" => r.timer <= f[1].age
    BY <1>3 DEF Flow, Pace
  <2> QED
    BY <1>3, <2>1, <2>2, Constants, RxFields DEF Pace
<1> QED
  BY <1>4, <1>5, <1>6, <1>7 DEF Flow

\* What AfterCf counts and restarts.
Counted(l, l2) ==
    l2.phase # "idle" => l2.sn = (l.sn + 1) % SnMod /\ l2.stTimer = 0

\* isotp_poll: the next consecutive frame.
LEMMA CfFlows ==
    ASSUME NEW l \in TxType, NEW r \in RxType, NEW d \in DataQueue,
           NEW f \in FcQueue, NEW v, NEW n \in Nat, NEW done \in Nat,
           Link(l, r, d, f, FALSE, {}, v, n), Flow(l, r, d, f, done, n),
           l.phase = "send",
           NEW e \in DataQueue, NEW g \in DataType, Pushed(d, e, g),
           g.type = "CF", g.piece[1] = l.msg, g.piece[2] = l.off + 1,
           g.sn = l.sn, NEW l2 \in TxType, Advanced(l, l2), Counted(l, l2)
    PROVE  Flow(l2, r, e, f, done, n)
<1>0. /\ Len(d) \in Nat /\ Len(e) = Len(d) + 1 /\ e[Len(e)] = g
      /\ \A i \in 1..Len(d) : e[i] = d[i]
      /\ e[1] = IF Len(d) = 0 THEN g ELSE d[1]
      /\ \A i \in 1..Len(e) - 1 :
            \/ i \in 1..Len(d) - 1 /\ e[i] = d[i] /\ e[i + 1] = d[i + 1]
            \/ i = Len(d) /\ Len(d) # 0 /\ e[i] = d[Len(d)] /\ e[i + 1] = g
  BY Joined
<1>1. /\ Asking(l, d, f, FALSE) /\ UnderWay(l, d, f, n) /\ Sending(l, n) /\ Busy(l)
  BY Calm DEF Busy
<1>2. /\ l.off \in 1..Pieces[l.msg] - 1 /\ l.off \in Nat /\ l.msg = n - 1
      /\ l.msg \in Nat /\ Pieces[l.msg] \in Nat /\ l.bsLeft \in Nat
      /\ BlockSize # 0 => l.bsLeft \in 1..BlockSize
      /\ BlockSize \in Nat
  BY <1>1, Constants, TxFields DEF Sending
<1>3. r.phase = "recv" /\ done + 1 = l.msg /\ Len(r.buf) + Len(d) = l.off
  BY <1>1, Held DEF Flow
<1>4. Len(d) # 0 => At(d[Len(d)].piece, l.msg, l.off)
  BY <1>1, LastOne DEF Flow
<1>5. Len(r.buf) \in Nat /\ r.blockCf \in Nat /\ r.timer \in Nat /\ l.stTimer \in Nat
  BY RxFields, TxFields
<1>6. NoneMissing(l2, r, e, done, n)
  <2>1. \A i \in 1..Len(r.buf) : At(r.buf[i], done + 1, i)
    BY <1>3 DEF Flow, NoneMissing
  <2>2. At(e[1].piece, done + 1, Len(r.buf) + 1)
    <3>1. CASE Len(d) = 0
      BY <1>0, <1>2, <1>3, <1>5, <3>1 DEF At
    <3>2. CASE Len(d) # 0
      BY <1>0, <1>3, <3>2 DEF Flow, NoneMissing
    <3> QED
      BY <3>1, <3>2
  <2>3. ASSUME NEW i \in 1..Len(e) - 1
        PROVE  Follows(e[i].piece, e[i + 1].piece)
    <3>1. CASE i \in 1..Len(d) - 1 /\ e[i] = d[i] /\ e[i + 1] = d[i + 1]
      BY <3>1 DEF Flow, NoneMissing
    <3>2. CASE Len(d) # 0 /\ e[i] = d[Len(d)] /\ e[i + 1] = g
      <4>1. /\ e[i].piece[1] = l.msg /\ e[i].piece[2] = l.off
            /\ e[i + 1].piece[1] = l.msg /\ e[i + 1].piece[2] = l.off + 1
        BY <1>4, <3>2 DEF At
      <4>2. l.off # Pieces[l.msg]
        BY <1>2
      <4> QED
        BY <4>1, <4>2 DEF Follows
    <3> QED
      BY <1>0, <3>1, <3>2
  <2>4. ~Busy(l2) => At(e[Len(e)].piece, n - 1, Pieces[n - 1])
    BY <1>0, <1>2 DEF At, Busy, Advanced
  <2> QED
    BY <1>0, <1>3, <2>1, <2>2, <2>3, <2>4 DEF NoneMissing
<1>7. Trail(l2, r, e, done)
  <2>1. Busy(l2) => l2.msg = l.msg /\ l2.off = l.off + 1
    BY DEF Busy, Advanced
  <2>2. ASSUME Busy(l2), NEW i \in 1..Len(e), Len(e) < l2.off + i
        PROVE  At(e[i].piece, l2.msg, l2.off + i - Len(e))
    <3>1. CASE i \in 1..Len(d)
      <4>1. /\ e[i] = d[i] /\ Len(d) < l.off + i
            /\ l2.off + i - Len(e) = l.off + i - Len(d)
        <5>1. i \in Nat /\ l2.off = l.off + 1 /\ Len(e) = Len(d) + 1
              /\ Len(e) < l2.off + i /\ Len(d) \in Nat /\ l.off \in Nat
              /\ e[i] = d[i]
          BY <1>0, <1>2, <2>1, <2>2, <3>1
        <5> QED
          BY <5>1
      <4>2. At(d[i].piece, l.msg, l.off + i - Len(d))
        BY <1>1, <3>1, <4>1 DEF Flow, Trail
      <4> QED
        BY <2>1, <2>2, <4>1, <4>2
    <3>2. CASE i = Len(e)
      BY <1>0, <1>2, <2>1, <2>2, <3>2 DEF At
    <3> QED
      BY <1>0, <3>1, <3>2
  <2>3. Busy(l2) => Len(r.buf) + Len(e) = l2.off
    <3>1. /\ Len(e) = Len(d) + 1 /\ Len(r.buf) + Len(d) = l.off
          /\ Len(d) \in Nat /\ Len(r.buf) \in Nat /\ l.off \in Nat
      BY <1>0, <1>2, <1>3, <1>5
    <3> DEFINE a == Len(r.buf)
               b == Len(d)
               c == Len(e)
               x == l.off
    <3>2. c = b + 1 /\ a + b = x /\ b \in Nat /\ a \in Nat /\ x \in Nat
      BY <3>1
    <3> HIDE DEF a, b, c, x
    <3>3. a + c = x + 1
      BY <3>2
    <3>4. Busy(l2) => a + c = l2.off
      BY <2>1, <3>3 DEF x
    <3> QED
      BY <3>4 DEF a, c
  <2> QED
    BY <1>3, <2>1, <2>2, <2>3 DEF Trail
<1>8. InBlock(l2, r, e) /\ GrantComes(l2, e, f)
  <2>1. BlockSize # 0 => r.blockCf + Len(d) + l.bsLeft = BlockSize
    BY <1>1 DEF Flow, InBlock
  <2>2. /\ Len(e) = Len(d) + 1 /\ Len(d) \in Nat /\ r.blockCf \in Nat
        /\ l.bsLeft \in Nat /\ BlockSize \in Nat
        /\ BlockSize # 0 => l.bsLeft >= 1
    BY <1>0, <1>2, <1>5
  <2>3. l2.phase = "idle" \/ (l2.phase = "wait" /\ l.bsLeft = 1)
        \/ (l2.phase = "send" /\ l.bsLeft # 1
              /\ (l.bsLeft # 0 => l2.bsLeft = l.bsLeft - 1))
    BY <2>2 DEF Advanced
  <2>4. InBlock(l2, r, e)
    <3>1. CASE l2.phase = "idle"
      BY <3>1 DEF InBlock
    <3>2. CASE l2.phase = "wait" /\ l.bsLeft = 1
      BY <2>1, <2>2, <3>2 DEF InBlock
    <3>3. CASE /\ l2.phase = "send" /\ l.bsLeft # 1
               /\ l.bsLeft # 0 => l2.bsLeft = l.bsLeft - 1
      <4>1. BlockSize # 0 => /\ r.blockCf + Len(d) + l.bsLeft = BlockSize
                             /\ l2.bsLeft = l.bsLeft - 1
        BY <2>1, <2>2, <3>3
      <4> DEFINE a == r.blockCf
                 b == Len(d)
                 c == Len(e)
                 h == l.bsLeft
                 k == l2.bsLeft
      <4>2. /\ c = b + 1 /\ a \in Nat /\ b \in Nat /\ h \in Nat
            /\ BlockSize # 0 => a + b + h = BlockSize /\ k = h - 1
        BY <2>2, <4>1
      <4> HIDE DEF a, b, c, h, k
      <4>3. BlockSize # 0 => a + c + k = BlockSize
        BY <4>2
      <4>4. BlockSize # 0 => r.blockCf + Len(e) + l2.bsLeft = BlockSize
        BY <4>3 DEF a, c, k
      <4> QED
        BY <3>3, <4>4 DEF InBlock
    <3> QED
      BY <2>3, <3>1, <3>2, <3>3
  <2> QED
    BY <2>2, <2>4 DEF GrantComes
<1>9. Numbers(l2, r, e)
  <2>1. ASSUME NEW i \in 1..Len(e) - 1, e[i].type = "CF", e[i + 1].type = "CF"
        PROVE  e[i + 1].sn = (e[i].sn + 1) % SnMod
    <3>1. CASE i \in 1..Len(d) - 1 /\ e[i] = d[i] /\ e[i + 1] = d[i + 1]
      BY <2>1, <3>1 DEF Flow, Numbers
    <3>2. CASE Len(d) # 0 /\ e[i] = d[Len(d)] /\ e[i + 1] = g
      BY <1>1, <2>1, <3>2 DEF Flow, Numbers
    <3> QED
      BY <1>0, <3>1, <3>2
  <2>2. e[1].type = "CF" => e[1].sn = r.sn
    <3>1. CASE Len(d) = 0
      BY <1>0, <1>1, <3>1 DEF Flow, Numbers
    <3>2. CASE Len(d) # 0
      BY <1>0, <1>3, <3>2 DEF Flow, Numbers
    <3> QED
      BY <3>1, <3>2
  <2>3. Busy(l2) => l2.sn = (e[Len(e)].sn + 1) % SnMod
    BY <1>0 DEF Busy, Counted
  <2> QED
    BY <1>0, <2>1, <2>2, <2>3 DEF Numbers
<1>10. Pace(l2, r, e, f)
  <2>1. l2.phase = "send" => l2.stTimer <= STmin + 1
    BY Constants DEF Counted
  <2>2. r.timer <= MaxDelay + STmin + 1 + e[1].age
    <3>1. CASE Len(d) = 0
      <4>1. r.timer <= MaxDelay + l.stTimer /\ l.stTimer <= STmin + 1
        BY <1>3, <3>1 DEF Flow, Pace
      <4>2. e[1] = g /\ g.age \in Nat
        BY <1>0, <3>1, FrameFields
      <4> QED
        BY <1>5, <4>1, <4>2, Constants
    <3>2. CASE Len(d) # 0
      BY <1>0, <1>3, <3>2 DEF Flow, Pace
    <3> QED
      BY <3>1, <3>2
  <2> QED
    BY <1>0, <2>1, <2>2 DEF Pace
<1> QED
  BY <1>6, <1>7, <1>8, <1>9, <1>10 DEF Flow

\* isotp_poll, send side
LEMMA PollTxFlows ==
    ASSUME TypeOK, upsets = {}, upsets' = {},
           NEW l \in TxType, NEW f \in FcQueue, NEW v, NEW done \in Nat,
           Link(l, rx, data, f, FALSE, {}, v, next),
           Flow(l, rx, data, f, done, next), PollTx(l)
    PROVE  Flow(tx', rx, data', f, done, next)
<1>t. rx \in RxType /\ data \in DataQueue /\ next \in Nat
  BY TypeFacts
<1>1. l.phase = "wait" => l.timer < NBs
  BY <1>t, Calm, GrantInTime DEF Flow
<1>2. CASE l.phase = "send" /\ l.stTimer >= STmin
  <2> DEFINE g == Frame("CF", <<l.msg, l.off + 1>>, 0, l.sn)
  <2>1. data' = Append(data, g) /\ tx' = AfterCf(l)
    <3>1. ~Fault
      BY DEF Fault
    <3> QED
      BY <1>2, <3>1 DEF PollTx, Put
  <2>2. /\ g \in DataType /\ g.type = "CF" /\ g.piece[1] = l.msg
        /\ g.piece[2] = l.off + 1 /\ g.sn = l.sn
    <3>1. l.msg \in Nat /\ l.off + 1 \in Nat /\ 0 \in Nat /\ l.sn \in Nat
      BY TxFields
    <3> QED
      BY <3>1 DEF Frame, DataType, PieceType
  <2> HIDE DEF g
  <2>3. data' \in DataQueue /\ Pushed(data, data', g)
    BY <1>t, <2>1, <2>2, Pushing DEF DataQueue
  <2>4. tx' \in TxType /\ Advanced(l, tx') /\ Counted(l, tx')
    <3>1. /\ AfterCf(l) \in TxType /\ Advanced(l, AfterCf(l))
          /\ Counted(l, AfterCf(l))
      BY <1>2, AfterCfReturns DEF Counted
    <3> QED
      BY <2>1, <3>1
  <2> DEFINE e == data'
             l2 == tx'
  <2>5. /\ e \in DataQueue /\ Pushed(data, e, g) /\ l2 \in TxType
        /\ Advanced(l, l2) /\ Counted(l, l2) /\ l.phase = "send"
    BY <1>2, <2>3, <2>4
  <2> HIDE DEF e, l2
  <2>6. Flow(l2, rx, e, f, done, next)
    BY <1>t, <2>2, <2>5, CfFlows
  <2> QED
    BY <2>6 DEF e, l2
<1>3. CASE ~(l.phase = "send" /\ l.stTimer >= STmin)
  <2>1. ~(l.phase = "wait" /\ l.timer >= NBs)
    BY <1>1, Constants, TxFields
  <2>2. tx' = l /\ data' = data
    BY <1>3, <2>1 DEF PollTx
  <2> QED
    BY <2>2
<1> QED
  BY <1>2, <1>3

\* A pass of the sender's task keeps the flow,
LEMMA TxFlows == LinkInv /\ FlowInv /\ TxPass => FlowInv'
<1> SUFFICES ASSUME LinkInv, FlowInv, TxPass, upsets' = {}
             PROVE  Flow(tx', rx', data', fc', Len(delivered'), next')
  BY DEF FlowInv
<1>n. UNCHANGED <<rx, next, delivered, owed>>
  BY DEF TxPass, TxFrame, TxNoFrame, app
<1>u. /\ tx \in TxType /\ rx \in RxType /\ data \in DataQueue /\ fc \in FcQueue
      /\ next \in Nat /\ owed \in BOOLEAN /\ Len(delivered) \in Nat /\ TypeOK
  BY TypeFacts, LenProperties DEF LinkInv
<1>1. upsets = {}
  <2>1. ASSUME NEW l, PollTx(l)
        PROVE  upsets \subseteq upsets'
    BY <2>1 DEF PollTx, Fault
  <2> QED
    BY <2>1 DEF TxPass, TxFrame, TxNoFrame
<1>2. /\ Flow(tx, rx, data, fc, Len(delivered), next)
      /\ Link(tx, rx, data, fc, FALSE, {}, delivered, next)
      /\ \A i \in 1..Len(fc) : fc[i].status = "CTS"
      /\ Asking(tx, data, fc, FALSE)
  <2>1. Link(tx, rx, data, fc, owed, {}, delivered, next)
    BY <1>1 DEF LinkInv
  <2>2. /\ owed = FALSE /\ \A i \in 1..Len(fc) : fc[i].status = "CTS"
        /\ Asking(tx, data, fc, FALSE)
    BY <1>u, <2>1, Calm
  <2> QED
    BY <1>1, <2>1, <2>2 DEF FlowInv
<1>3. CASE TxNoFrame
  <2>1. PollTx(tx) /\ fc' = fc
    BY <1>3 DEF TxNoFrame
  <2>2. Flow(tx', rx, data', fc, Len(delivered), next)
    BY <1>u, <1>1, <1>2, <2>1, PollTxFlows
  <2> QED
    BY <1>n, <2>1, <2>2
<1>4. CASE TxFrame
  <2> DEFINE l == OnFc(tx, "CTS")
             f == Tail(fc)
  <2>1. fc # <<>> /\ fc' = f
    BY <1>4 DEF TxFrame
  <2>2. f \in FcQueue /\ Popped(fc, f) /\ Head(fc).status = "CTS"
        /\ 1 \in 1..Len(fc) /\ Len(f) \in Nat
    <3>1. f \in FcQueue /\ Popped(fc, f) /\ Head(fc) = fc[1]
      BY <1>u, <2>1, Popping DEF FcQueue
    <3>2. 1 \in 1..Len(fc) /\ Len(f) \in Nat
      BY <1>u, <3>1, FcFields DEF Popped
    <3> QED
      BY <1>2, <3>1, <3>2
  <2>3. PollTx(l)
    BY <1>4, <2>2 DEF TxFrame
  <2>4. tx.phase = "wait"
    BY <1>2, <2>2 DEF Asking, Answered
  <2>5. /\ l \in TxType /\ l.phase = "send" /\ l.bsLeft = BlockSize
        /\ l.msg = tx.msg /\ l.off = tx.off /\ l.sn = tx.sn /\ l.stTimer = 0
    BY <1>u, <2>4, OnFcReturns
  <2> HIDE DEF l, f
  <2>6. fc[1].status = "CTS"
    BY <1>2, <2>2
  <2>7. Link(l, rx, data, f, FALSE, {}, delivered, next)
    BY <1>u, <1>2, <2>2, <2>4, <2>5, <2>6, GrantTaken
  <2>8. Flow(l, rx, data, f, Len(delivered), next)
    BY <1>u, <1>2, <2>2, <2>4, <2>5, GrantFlows
  <2>9. Flow(tx', rx, data', f, Len(delivered), next)
    BY <1>u, <1>1, <2>2, <2>3, <2>5, <2>7, <2>8, PollTxFlows
  <2> QED
    BY <1>n, <2>1, <2>9
<1> QED
  BY <1>3, <1>4 DEF TxPass

\* so does isotp_send.
LEMMA SendFlows == LinkInv /\ FlowInv /\ Send => FlowInv'
<1> SUFFICES ASSUME LinkInv, FlowInv, Send, upsets' = {}
             PROVE  Flow(tx', rx', data', fc', Len(delivered'), next')
  BY DEF FlowInv
<1>u. /\ tx \in TxType /\ rx \in RxType /\ data \in DataQueue /\ fc \in FcQueue
      /\ next \in Nat /\ Len(delivered) \in Nat
  BY TypeFacts, LenProperties DEF LinkInv
<1> DEFINE type == IF Pieces[next] = 1 THEN "SF" ELSE "FF"
           g == Frame(type, <<next, 1>>, Pieces[next], 0)
<1>n. /\ tx.phase = "idle" /\ next \in 1..Len(Pieces) /\ next' = next + 1
      /\ Pieces[next] \in Nat
      /\ UNCHANGED <<rx, fc, delivered, owed>>
  BY Constants DEF Send
<1>1. data' = Append(data, g) /\ tx' = (IF type = "SF" THEN TxReset(tx) ELSE Started)
      /\ upsets = {}
  <2>1. ~Fault
    BY DEF Fault
  <2> QED
    BY <2>1 DEF Send, Put
<1>g. g \in DataType /\ g.type = type /\ g.piece[1] = next /\ g.piece[2] = 1
  BY <1>n DEF Frame, DataType, PieceType
<1>2. data' \in DataQueue /\ Pushed(data, data', g)
  BY <1>u, <1>g, <1>1, Pushing DEF DataQueue
<1>3. /\ tx' \in TxType
      /\ \/ g.type = "SF" /\ Pieces[next] = 1 /\ tx'.phase = "idle"
         \/ /\ g.type = "FF" /\ tx'.phase = "wait" /\ tx'.msg = next
            /\ tx'.off = 1 /\ tx'.sn = 1
  <2>1. CASE Pieces[next] = 1
    BY <1>g, <1>1, <2>1, IdleTypes DEF TxReset, TxIdle
  <2>2. CASE Pieces[next] # 1
    <3>1. tx' = Started
      BY <1>1, <2>2
    <3>2. /\ Started \in TxType /\ Started.phase = "wait" /\ Started.msg = next
          /\ Started.off = 1 /\ Started.sn = 1
      BY <1>u DEF Started, TxIdle, TxType
    <3> QED
      BY <1>g, <2>2, <3>1, <3>2
  <2> QED
    BY <2>1, <2>2
<1> HIDE DEF g, type
<1>4. Flow(tx, rx, data, fc, Len(delivered), next)
  BY <1>1 DEF FlowInv
<1> DEFINE e == data'
           l2 == tx'
<1>5. /\ e \in DataQueue /\ Pushed(data, e, g) /\ l2 \in TxType
      /\ \/ g.type = "SF" /\ Pieces[next] = 1 /\ l2.phase = "idle"
         \/ /\ g.type = "FF" /\ l2.phase = "wait" /\ l2.msg = next
            /\ l2.off = 1 /\ l2.sn = 1
  BY <1>2, <1>3
<1> HIDE DEF e, l2
<1>6. Flow(l2, rx, e, fc, Len(delivered), next + 1)
  BY <1>u, <1>n, <1>g, <1>4, <1>5, FirstFlows
<1> QED
  BY <1>n, <1>6 DEF e, l2

-----------------------------------------------------------------------------
(* The receiving half.                                                     *)

\* The first frame under way is taken.
LEMMA Gone ==
    ASSUME NEW d \in DataQueue, NEW e \in DataQueue, Popped(d, e)
    PROVE  /\ Len(d) \in Nat /\ Len(e) \in Nat /\ Len(d) = Len(e) + 1
           /\ Len(d) # 0 /\ 1 \in 1..Len(d)
           /\ \A i \in 1..Len(e) : e[i] = d[i + 1] /\ i + 1 \in 1..Len(d)
           /\ Len(e) # 0 => /\ e[1] = d[1 + 1] /\ 1 \in 1..Len(d) - 1
                            /\ e[Len(e)] = d[Len(d)]
           /\ Len(e) = 0 => Len(d) = 1
           /\ \A i \in 1..Len(e) - 1 :
                 /\ e[i] = d[i + 1] /\ e[i + 1] = d[i + 1 + 1]
                 /\ i + 1 \in 1..Len(d) - 1
<1>1. Len(d) \in Nat /\ Len(e) \in Nat
  BY DataFields
<1> QED
  BY <1>1 DEF Popped

\* The rest of the frames under way still follow one another,
LEMMA FollowsStill ==
    ASSUME NEW d \in DataQueue, NEW e \in DataQueue, Popped(d, e),
           \A i \in 1..Len(d) - 1 : Follows(d[i].piece, d[i + 1].piece)
    PROVE  \A i \in 1..Len(e) - 1 : Follows(e[i].piece, e[i + 1].piece)
<1> SUFFICES ASSUME NEW i \in 1..Len(e) - 1
             PROVE  Follows(e[i].piece, e[i + 1].piece)
  OBVIOUS
<1>1. /\ e[i] = d[i + 1] /\ e[i + 1] = d[i + 1 + 1] /\ i + 1 \in 1..Len(d) - 1
  BY Gone
<1>2. Follows(d[i + 1].piece, d[i + 1 + 1].piece)
  BY <1>1
<1> QED
  BY <1>1, <1>2

NumbersRun(d) == \A i \in 1..Len(d) - 1 : d[i].type = "CF" /\ d[i + 1].type = "CF"
                    => d[i + 1].sn = (d[i].sn + 1) % SnMod

\* and so do their sequence numbers.
LEMMA NumbersStill ==
    ASSUME NEW d \in DataQueue, NEW e \in DataQueue, Popped(d, e), NumbersRun(d)
    PROVE  NumbersRun(e)
<1> SUFFICES ASSUME NEW i \in 1..Len(e) - 1, e[i].type = "CF", e[i + 1].type = "CF"
             PROVE  e[i + 1].sn = (e[i].sn + 1) % SnMod
  BY DEF NumbersRun
<1>1. /\ e[i] = d[i + 1] /\ e[i + 1] = d[i + 1 + 1] /\ i + 1 \in 1..Len(d) - 1
  BY Gone
<1>2. d[i + 1 + 1].sn = (d[i + 1].sn + 1) % SnMod
  BY <1>1 DEF NumbersRun
<1> QED
  BY <1>1, <1>2

\* The frame ends its message, which is delivered.
LEMMA EndFlows ==
    ASSUME NEW l \in TxType, NEW r \in RxType, NEW d \in DataQueue,
           NEW f \in FcQueue, NEW v, NEW n \in Nat, NEW done \in Nat,
           Link(l, r, d, f, FALSE, {}, v, n), Flow(l, r, d, f, done, n),
           NEW e \in DataQueue, Popped(d, e),
           At(d[1].piece, done + 1, Pieces[done + 1]),
           done + 1 \in 1..Len(Pieces), NEW r2, r2.phase = "idle"
    PROVE  Flow(l, r2, e, f, done + 1, n)
<1>0. /\ Len(d) \in Nat /\ Len(e) \in Nat /\ Len(d) = Len(e) + 1
      /\ Len(d) # 0 /\ 1 \in 1..Len(d)
      /\ \A i \in 1..Len(e) : e[i] = d[i + 1] /\ i + 1 \in 1..Len(d)
      /\ Len(e) # 0 => /\ e[1] = d[1 + 1] /\ 1 \in 1..Len(d) - 1
                       /\ e[Len(e)] = d[Len(d)]
      /\ Len(e) = 0 => Len(d) = 1
  BY Gone
<1>1. /\ Asking(l, d, f, FALSE) /\ UnderWay(l, d, f, n) /\ Sending(l, n)
      /\ NoneMissing(l, r, d, done, n) /\ Trail(l, r, d, done)
  BY Calm DEF Flow
<1>2. ASSUME Busy(l) PROVE l.off < Len(d) /\ Len(e) # 0
  <2>1. /\ l.off \in Nat /\ l.off >= 1 /\ l.off <= Pieces[l.msg] - 1
        /\ Pieces[l.msg] \in Nat
    BY <1>1, <1>2, Constants, TxFields DEF Sending
  <2>2. Len(r.buf) \in Nat
    BY RxFields
  <2>3. ASSUME Len(d) < l.off PROVE FALSE
    <3>1. r.phase = "recv" /\ done + 1 = l.msg /\ Len(r.buf) + Len(d) = l.off
      BY <1>1, <1>2, <2>3 DEF Trail
    <3>2. Len(r.buf) + 1 = Pieces[l.msg]
      BY <1>0, <1>1, <3>1 DEF NoneMissing, At
    <3> DEFINE a == Len(r.buf)
               b == Len(d)
               p == Pieces[l.msg]
               x == l.off
    <3>3. a + b = x /\ a + 1 = p /\ a \in Nat
      BY <2>2, <3>1, <3>2
    <3>4. x <= p - 1 /\ p \in Nat /\ x \in Nat
      BY <2>1
    <3>5. b \in Nat /\ b # 0
      BY <1>0
    <3> HIDE DEF a, b, p, x
    <3> QED
      BY <3>3, <3>4, <3>5
  <2>4. ASSUME Len(d) = l.off PROVE FALSE
    <3>1. Len(d) < l.off + 1 /\ l.off + 1 - Len(d) = 1
      BY <1>0, <2>1, <2>4
    <3>2. At(d[1].piece, l.msg, l.off + 1 - Len(d))
      BY <1>0, <1>1, <1>2, <3>1 DEF Trail
    <3>3. Pieces[l.msg] = 1
      BY <3>1, <3>2 DEF At
    <3> QED
      BY <2>1, <3>3
  <2> QED
    BY <1>0, <2>1, <2>3, <2>4
<1>3. l.phase = "idle" \/ (l.phase = "wait" /\ l.off = 1)
  <2>1. ASSUME l.phase = "send" \/ (l.phase = "wait" /\ l.off > 1) PROVE FALSE
    <3>1. Len(r.buf) + Len(d) = l.off
      BY <1>1, <2>1, Held
    <3>2. l.off < Len(d)
      BY <1>2, <2>1 DEF Busy
    <3> DEFINE a == Len(r.buf)
               b == Len(d)
    <3>3. a + b < b /\ a \in Nat /\ b \in Nat
      BY <1>0, <3>1, <3>2, RxFields
    <3> HIDE DEF a, b
    <3> QED
      BY <3>3
  <2>2. Busy(l) => l.off \in Nat /\ l.off >= 1
    BY <1>1, Constants, TxFields DEF Sending
  <2> QED
    BY <2>1, <2>2, TxFields DEF Busy
<1>4. NoneMissing(l, r2, e, done + 1, n)
  <2>1. Len(e) # 0 => At(e[1].piece, done + 1 + 1, 1)
    <3>1. Len(e) # 0 => Follows(d[1].piece, e[1].piece)
      BY <1>0, <1>1 DEF NoneMissing
    <3> QED
      BY <3>1 DEF Follows, At
  <2>2. \A i \in 1..Len(e) - 1 : Follows(e[i].piece, e[i + 1].piece)
    BY <1>1, FollowsStill DEF NoneMissing
  <2>3. ~Busy(l) => IF Len(e) = 0 THEN done + 1 = n - 1
                    ELSE At(e[Len(e)].piece, n - 1, Pieces[n - 1])
    BY <1>0, <1>1 DEF NoneMissing, At
  <2> QED
    BY <2>1, <2>2, <2>3 DEF NoneMissing
<1>5. Trail(l, r2, e, done + 1)
  <2>1. ASSUME Busy(l), NEW i \in 1..Len(e), Len(e) < l.off + i
        PROVE  At(e[i].piece, l.msg, l.off + i - Len(e))
    <3>1. /\ e[i] = d[i + 1] /\ i + 1 \in 1..Len(d) /\ l.off \in Nat
          /\ Len(d) < l.off + (i + 1) /\ l.off + (i + 1) - Len(d) = l.off + i - Len(e)
      BY <1>0, <2>1, TxFields
    <3>2. At(d[i + 1].piece, l.msg, l.off + (i + 1) - Len(d))
      BY <1>1, <2>1, <3>1 DEF Trail
    <3> QED
      BY <3>1, <3>2
  <2>2. Busy(l) => ~(Len(e) < l.off)
    BY <1>0, <1>2, TxFields
  <2> QED
    BY <2>1, <2>2 DEF Trail
<1>6. InBlock(l, r2, e) /\ GrantComes(l, e, f)
  BY <1>2, <1>3 DEF InBlock, GrantComes, Busy
<1>7. Numbers(l, r2, e)
  <2>1. NumbersRun(e)
    BY NumbersStill DEF Flow, Numbers, NumbersRun
  <2>2. Busy(l) => IF e[Len(e)].type = "CF" THEN l.sn = (e[Len(e)].sn + 1) % SnMod
                   ELSE l.sn = 1
    BY <1>0, <1>2 DEF Flow, Numbers
  <2> QED
    BY <1>2, <2>1, <2>2 DEF Numbers, NumbersRun
<1>8. Pace(l, r2, e, f)
  BY DEF Flow, Pace
<1> QED
  BY <1>4, <1>5, <1>6, <1>7, <1>8 DEF Flow

\* handle_ff: the reception starts, and the sender waits for the grant.
LEMMA FfFlows ==
    ASSUME NEW l \in TxType, NEW r \in RxType, NEW d \in DataQueue,
           NEW f \in FcQueue, NEW v, NEW n \in Nat, NEW done \in Nat,
           Link(l, r, d, f, FALSE, {}, v, n), Flow(l, r, d, f, done, n),
           NEW e \in DataQueue, Popped(d, e), d[1].type = "FF",
           NEW f2 \in FcQueue, Len(f2) # 0,
           NEW r2 \in RxType, r2.phase = "recv", Len(r2.buf) = 1,
           r2.buf[1] = d[1].piece, r2.sn = 1, r2.timer = 0
    PROVE  Flow(l, r2, e, f2, done, n)
<1>0. /\ Len(d) \in Nat /\ Len(e) \in Nat /\ Len(d) = Len(e) + 1
      /\ 1 \in 1..Len(d)
  BY Gone
<1>1. /\ Asking(l, d, f, FALSE) /\ UnderWay(l, d, f, n) /\ Sending(l, n)
      /\ NoneMissing(l, r, d, done, n) /\ Trail(l, r, d, done)
  BY Calm DEF Flow
<1>2. /\ l.phase = "wait" /\ l.off = 1 /\ d[1].piece[1] = l.msg
      /\ Len(e) = 0 /\ Len(d) = 1
  BY <1>0, <1>1 DEF Asking
<1>3. d[1].piece[2] = 1 /\ Len(r.buf) \in Nat
  BY <1>0, <1>1, RxFields DEF UnderWay, Genuine
<1>4. d[1].piece[1] = done + 1
  BY <1>2, <1>1 DEF NoneMissing, At
<1>5. NoneMissing(l, r2, e, done, n) /\ Trail(l, r2, e, done)
  <2>1. \A i \in 1..Len(r2.buf) : At(r2.buf[i], done + 1, i)
    BY <1>3, <1>4 DEF At
  <2>2. Busy(l) /\ done + 1 = l.msg /\ Len(r2.buf) + Len(e) = l.off
    BY <1>2, <1>4 DEF Busy
  <2>3. \A i \in 1..Len(e) - 1 : FALSE
    BY <1>2
  <2> QED
    BY <1>2, <2>1, <2>2, <2>3 DEF NoneMissing, Trail
<1>6. InBlock(l, r2, e) /\ GrantComes(l, e, f2)
  BY <1>2 DEF InBlock, GrantComes
<1>7. Numbers(l, r2, e)
  BY <1>2 DEF Flow, Numbers, Busy
<1>8. Pace(l, r2, e, f2)
  <2>1. f2[1].age \in Nat
    BY FcFields
  <2> QED
    BY <1>2, <2>1 DEF Pace
<1> QED
  BY <1>5, <1>6, <1>7, <1>8 DEF Flow

\* What handle_cf leaves that goes on with a message.
GoesOn(r, g, r2) ==
    /\ Appended(r, r2.buf, g.piece) /\ r2.phase = "recv"
    /\ r2.sn = (r.sn + 1) % SnMod /\ r2.timer = 0
    /\ Len(r2.buf) # r.len
    /\ r2.blockCf = IF BlockSize # 0 /\ r.blockCf + 1 >= BlockSize
                    THEN 0 ELSE r.blockCf + 1

BlockEnds(r) == BlockSize # 0 /\ r.blockCf + 1 >= BlockSize

\* handle_cf: a piece more, and at the end of the block a grant.
LEMMA CfTakenFlows ==
    ASSUME NEW l \in TxType, NEW r \in RxType, NEW d \in DataQueue,
           NEW f \in FcQueue, NEW v, NEW n \in Nat, NEW done \in Nat,
           Link(l, r, d, f, FALSE, {}, v, n), Flow(l, r, d, f, done, n),
           r.phase = "recv", NEW e \in DataQueue, Popped(d, e), d[1].type = "CF",
           NEW f2 \in FcQueue, IF BlockEnds(r) THEN Len(f2) # 0 ELSE f2 = f,
           NEW r2 \in RxType, GoesOn(r, d[1], r2)
    PROVE  Flow(l, r2, e, f2, done, n)
<1>0. /\ Len(d) \in Nat /\ Len(e) \in Nat /\ Len(d) = Len(e) + 1
      /\ Len(d) # 0 /\ 1 \in 1..Len(d)
      /\ \A i \in 1..Len(e) : e[i] = d[i + 1] /\ i + 1 \in 1..Len(d)
      /\ Len(e) # 0 => /\ e[1] = d[1 + 1] /\ 1 \in 1..Len(d) - 1
                       /\ e[Len(e)] = d[Len(d)]
      /\ Len(e) = 0 => Len(d) = 1
  BY Gone
<1>1. /\ Asking(l, d, f, FALSE) /\ UnderWay(l, d, f, n) /\ Sending(l, n)
      /\ NoneMissing(l, r, d, done, n) /\ Trail(l, r, d, done) /\ Holding(r, n)
      /\ InBlock(l, r, d) /\ Numbers(l, r, d) /\ Pace(l, r, d, f)
  BY Calm DEF Flow
<1> DEFINE k == Len(r.buf)
           k2 == Len(r2.buf)
           ld == Len(d)
           le == Len(e)
<1>2. /\ k \in Nat /\ k >= 1 /\ k2 = k + 1 /\ r.blockCf \in Nat
      /\ ld \in Nat /\ le \in Nat /\ ld = le + 1
      /\ BlockSize \in Nat /\ l.off \in Nat
  BY <1>0, <1>1, RxFields, TxFields, Constants DEF GoesOn, Appended, Holding
<1>3. /\ \A i \in 1..k : r2.buf[i] = r.buf[i]
      /\ r2.buf[k2] = d[1].piece
  BY <1>2 DEF GoesOn, Appended
<1>4. /\ At(d[1].piece, done + 1, k + 1)
      /\ \A i \in 1..k : At(r.buf[i], done + 1, i)
  BY <1>0, <1>1 DEF NoneMissing
<1>5. k2 # Pieces[done + 1] /\ r2.phase = "recv"
  <2>1. 1 \in 1..k
    BY <1>2
  <2>2. Current(r) = done + 1
    BY <1>4, <2>1 DEF Current, Msg, At
  <2> QED
    BY <1>1, <2>2 DEF GoesOn, Holding
<1>6. ASSUME Busy(l) PROVE ld < l.off => done + 1 = l.msg /\ k + ld = l.off
  BY <1>1, <1>6 DEF Trail
<1>7. ASSUME Busy(l) PROVE At(d[Len(d)].piece, l.msg, l.off) /\ l.off >= 1
  BY <1>0, <1>1, <1>7, <1>2, LastOne
<1>8. ASSUME Busy(l), ~(ld < l.off) PROVE l.off < ld
  <2>1. ASSUME l.off = ld PROVE FALSE
    <3>1. Len(d) < l.off + 1 /\ l.off + 1 - Len(d) = 1
      BY <1>0, <1>2, <2>1
    <3>2. At(d[1].piece, l.msg, l.off + 1 - Len(d))
      BY <1>0, <1>1, <1>8, <3>1 DEF Trail
    <3> QED
      BY <1>2, <1>4, <3>1, <3>2 DEF At
  <2> QED
    BY <1>2, <1>8, <2>1
<1>9. NoneMissing(l, r2, e, done, n)
  <2>1. \A i \in 1..Len(r2.buf) : At(r2.buf[i], done + 1, i)
    <3> SUFFICES ASSUME NEW i \in 1..Len(r2.buf) PROVE At(r2.buf[i], done + 1, i)
      OBVIOUS
    <3>1. i \in 1..k \/ i = k2
      BY <1>2
    <3> QED
      BY <1>2, <1>3, <1>4, <3>1
  <2>2. Len(e) # 0 => At(e[1].piece, done + 1, Len(r2.buf) + 1)
    <3>1. Len(e) # 0 => Follows(d[1].piece, e[1].piece)
      BY <1>0, <1>1 DEF NoneMissing
    <3>2. d[1].piece[1] = done + 1 /\ d[1].piece[2] = k2
      BY <1>2, <1>4 DEF At
    <3> QED
      BY <1>5, <3>1, <3>2 DEF Follows, At
  <2>3. \A i \in 1..Len(e) - 1 : Follows(e[i].piece, e[i + 1].piece)
    BY <1>1, FollowsStill DEF NoneMissing
  <2>4. ~Busy(l) => Len(e) # 0 /\ At(e[Len(e)].piece, n - 1, Pieces[n - 1])
    <3>1. ~Busy(l) => At(d[Len(d)].piece, n - 1, Pieces[n - 1])
      BY <1>0, <1>1 DEF NoneMissing
    <3>2. d[1].piece[1] = done + 1 /\ d[1].piece[2] = k2
      BY <1>2, <1>4 DEF At
    <3>3. ~Busy(l) => Len(d) # 1
      BY <1>5, <3>1, <3>2 DEF At
    <3> QED
      BY <1>0, <3>1, <3>3
  <2> QED
    BY <1>5, <2>1, <2>2, <2>3, <2>4 DEF NoneMissing
<1>10. Trail(l, r2, e, done)
  <2>1. ASSUME Busy(l), NEW i \in 1..Len(e), Len(e) < l.off + i
        PROVE  At(e[i].piece, l.msg, l.off + i - Len(e))
    <3>1. /\ e[i] = d[i + 1] /\ i + 1 \in 1..Len(d)
          /\ Len(d) < l.off + (i + 1) /\ l.off + (i + 1) - Len(d) = l.off + i - Len(e)
      BY <1>0, <1>2, <2>1
    <3>2. At(d[i + 1].piece, l.msg, l.off + (i + 1) - Len(d))
      BY <1>1, <2>1, <3>1 DEF Trail
    <3> QED
      BY <3>1, <3>2
  <2>2. ASSUME Busy(l), Len(e) < l.off
        PROVE  done + 1 = l.msg /\ Len(r2.buf) + Len(e) = l.off
    <3>1. ld < l.off
      BY <1>2, <1>8, <2>2
    <3>2. done + 1 = l.msg /\ k + ld = l.off
      BY <1>6, <2>2, <3>1
    <3> HIDE DEF k, k2, ld, le
    <3>3. k2 + le = l.off
      BY <1>2, <3>2
    <3> QED
      BY <3>2, <3>3 DEF k2, le
  <2> QED
    BY <1>5, <2>1, <2>2 DEF Trail
\* With nothing left, the sender is at the same piece.
<1>11. ASSUME Busy(l), le = 0 PROVE l.off = k2 /\ l.msg = done + 1 /\ l.off > 1
  <2>1. Len(d) = 1
    BY <1>0, <1>11
  <2>2. At(d[1].piece, l.msg, l.off)
    BY <1>7, <1>11, <2>1
  <2> QED
    BY <1>2, <1>4, <2>2 DEF At
<1>12. ASSUME l.phase = "wait", le = 0 PROVE BlockEnds(r)
  <2>1. l.off > 1 /\ Busy(l)
    BY <1>11, <1>12 DEF Busy
  <2>2. BlockSize # 0
    BY <1>1, <1>12, <2>1 DEF Sending
  <2>3. r.blockCf + Len(d) = BlockSize /\ Len(d) = 1
    BY <1>0, <1>1, <1>12, <2>1, <2>2 DEF InBlock
  <2>4. r.blockCf + 1 = BlockSize /\ r.blockCf \in Nat
    BY <1>2, <2>3
  <2>5. r.blockCf + 1 >= BlockSize
    BY <2>4
  <2> QED
    BY <2>2, <2>5 DEF BlockEnds
<1>13. InBlock(l, r2, e)
  <2> SUFFICES ASSUME BlockSize # 0
               PROVE  /\ l.phase = "send" => r2.blockCf + Len(e) + l.bsLeft = BlockSize
                      /\ l.phase = "wait" /\ l.off > 1 /\ Len(e) # 0
                            => r2.blockCf + Len(e) = BlockSize
    BY DEF InBlock
  <2>1. /\ l.phase = "send" => r.blockCf + ld + l.bsLeft = BlockSize
        /\ l.phase = "wait" /\ l.off > 1 => r.blockCf + ld = BlockSize
    BY <1>0, <1>1 DEF InBlock
  <2>2. l.phase = "send" => l.bsLeft \in Nat /\ l.bsLeft >= 1
    BY <1>1, TxFields DEF Sending
  <2>3. r2.blockCf = IF r.blockCf + 1 >= BlockSize THEN 0 ELSE r.blockCf + 1
    BY DEF GoesOn
  <2> DEFINE b == r.blockCf
             b2 == r2.blockCf
             x == l.bsLeft
  <2>4. /\ b \in Nat /\ ld = le + 1 /\ le \in Nat /\ BlockSize \in Nat
        /\ b2 = IF b + 1 >= BlockSize THEN 0 ELSE b + 1
        /\ l.phase = "send" => b + ld + x = BlockSize /\ x \in Nat /\ x >= 1
        /\ l.phase = "wait" /\ l.off > 1 => b + ld = BlockSize
    BY <1>2, <2>1, <2>2, <2>3
  <2> HIDE DEF k, k2, ld, le, b, b2, x
  <2>5. l.phase = "send" => b2 + le + x = BlockSize
    BY <2>4
  <2>6. l.phase = "wait" /\ l.off > 1 /\ le # 0 => b2 + le = BlockSize
    BY <2>4
  <2> QED
    BY <2>5, <2>6 DEF b2, le, x
<1>14. GrantComes(l, e, f2)
  BY <1>12 DEF GrantComes
<1>15. Numbers(l, r2, e)
  <2>1. NumbersRun(d) /\ d[1].sn = r.sn
    BY <1>0, <1>1 DEF Numbers, NumbersRun
  <2>2. NumbersRun(e)
    BY <2>1, NumbersStill
  <2>3. Len(e) # 0 => (e[1].type = "CF" => e[1].sn = r2.sn)
    BY <1>0, <2>1 DEF NumbersRun, GoesOn
  <2>4. ASSUME Busy(l), Len(e) = 0 PROVE l.sn = r2.sn
    <3>1. Len(d) = 1 /\ Len(d) # 0
      BY <1>0, <2>4
    <3>2. l.sn = (d[1].sn + 1) % SnMod
      BY <1>1, <2>4, <3>1 DEF Numbers
    <3> QED
      BY <2>1, <3>2 DEF GoesOn
  <2>5. ASSUME Busy(l), Len(e) # 0
        PROVE  IF e[Len(e)].type = "CF" THEN l.sn = (e[Len(e)].sn + 1) % SnMod
               ELSE l.sn = 1
    BY <1>0, <1>1, <2>5 DEF Numbers
  <2> QED
    BY <2>2, <2>3, <2>4, <2>5 DEF Numbers, NumbersRun
<1>16. Pace(l, r2, e, f2)
  <2>1. l.phase = "send" => l.stTimer <= STmin + 1
    BY <1>1 DEF Pace
  <2>2. r2.timer = 0
    BY DEF GoesOn
  <2>3. Len(e) # 0 => r2.timer <= MaxDelay + STmin + 1 + e[1].age
    <3>1. Len(e) # 0 => e[1].age \in Nat
      BY <1>0, DataFields
    <3> QED
      BY <2>2, <3>1, Constants
  <2>4. r2.timer <= MaxDelay + l.stTimer
    BY <2>2, Constants, TxFields
  <2>5. ASSUME Len(e) = 0, l.phase = "wait" PROVE r2.timer <= f2[1].age
    <3>1. Len(f2) # 0
      BY <1>12, <2>5
    <3>2. f2[1].age \in Nat
      BY <3>1, FcFields
    <3> QED
      BY <2>2, <3>2
  <2> QED
    BY <2>1, <2>3, <2>4, <2>5 DEF Pace
<1> QED
  BY <1>9, <1>10, <1>13, <1>14, <1>15, <1>16 DEF Flow

\* A pass of the receiver's task with a frame keeps the flow,
LEMMA RxFrameFlows == LinkInv /\ FlowInv /\ RxFrame => FlowInv'
<1> SUFFICES ASSUME LinkInv, FlowInv, RxFrame, upsets' = {}
             PROVE  Flow(tx', rx', data', fc', Len(delivered'), next')
  BY DEF FlowInv
<1> DEFINE e == Tail(data)
           g == Head(data)
           l == OnCanFrame(rx, g)
           done == Len(delivered)
<1>u. /\ tx \in TxType /\ rx \in RxType /\ data \in DataQueue /\ fc \in FcQueue
      /\ next \in Nat /\ owed \in BOOLEAN /\ delivered \in Seq(Buffers)
      /\ done \in Nat /\ ~rx.complete
  BY TypeFacts, LenProperties DEF LinkInv
<1>n. data # <<>> /\ data' = e /\ UNCHANGED <<tx, next>> /\ upsets = {}
  BY DEF RxFrame
<1>1. e \in DataQueue /\ Popped(data, e) /\ g = data[1] /\ g \in DataType
  BY <1>u, <1>n, Popping DEF DataQueue
<1>2. /\ Link(tx, rx, data, fc, FALSE, {}, delivered, next)
      /\ Flow(tx, rx, data, fc, done, next)
      /\ Holding(rx, next) /\ Asking(tx, data, fc, FALSE)
      /\ UnderWay(tx, data, fc, next)
  <2>1. Link(tx, rx, data, fc, owed, {}, delivered, next)
    BY <1>n DEF LinkInv
  <2>2. owed = FALSE
    BY <1>u, <2>1, Calm
  <2>3. Link(tx, rx, data, fc, FALSE, {}, delivered, next)
    BY <2>1, <2>2
  <2>4. /\ Holding(rx, next) /\ Asking(tx, data, fc, FALSE)
        /\ UnderWay(tx, data, fc, next)
    BY <2>3, Calm
  <2> QED
    BY <1>n, <2>3, <2>4 DEF FlowInv
<1>3. /\ l \in RxType
      /\ g.type = "SF" => l = OnSf(rx, g)
      /\ g.type = "FF" => l = OnFf(rx, g)
      /\ g.type = "CF" => l = OnCf(rx, g)
  BY <1>u, <1>1, OnCanFrameTypes
<1>4. /\ 1 \in 1..Len(data) /\ Len(data) # 0
      /\ Genuine(g, next) /\ g.piece[2] \in Nat /\ Len(rx.buf) \in Nat
      /\ At(g.piece, done + 1, IF rx.phase = "recv" THEN Len(rx.buf) + 1 ELSE 1)
  <2>1. 1 \in 1..Len(data) /\ Len(data) # 0
    BY <1>u, <1>1, Gone
  <2> QED
    BY <1>u, <1>1, <1>2, <2>1, FrameFields, RxFields
    DEF UnderWay, Flow, NoneMissing
<1>5. rx.phase = "recv" => Len(rx.buf) >= 1 /\ rx.len = Pieces[done + 1]
                           /\ Len(rx.buf) < rx.len
  <2> SUFFICES ASSUME rx.phase = "recv"
               PROVE  Len(rx.buf) >= 1 /\ rx.len = Pieces[done + 1]
                      /\ Len(rx.buf) < rx.len
    OBVIOUS
  <2>1. Len(rx.buf) >= 1 /\ rx.len = Pieces[Current(rx)] /\ Len(rx.buf) < rx.len
    BY <1>2 DEF Holding
  <2>2. 1 \in 1..Len(rx.buf)
    BY <1>4, <2>1
  <2>3. Current(rx) = done + 1
    BY <1>2, <2>2 DEF Flow, NoneMissing, At, Current, Msg
  <2> QED
    BY <2>1, <2>3
<1>6. g.type = "CF" => rx.phase = "recv" /\ g.sn = rx.sn
  <2> SUFFICES ASSUME g.type = "CF" PROVE rx.phase = "recv" /\ g.sn = rx.sn
    OBVIOUS
  <2>1. g.piece[2] >= 2
    BY <1>4 DEF Genuine
  <2>2. rx.phase = "recv"
    BY <1>4, <2>1 DEF At
  <2> QED
    BY <1>1, <1>2, <1>4, <2>2 DEF Flow, Numbers
<1>7. g.type # "CF" => rx.phase = "idle" /\ g.piece[2] = 1
  <2> SUFFICES ASSUME g.type # "CF" PROVE rx.phase = "idle" /\ g.piece[2] = 1
    OBVIOUS
  <2>1. g.piece[2] = 1
    BY <1>1, <1>4, FrameFields DEF Genuine
  <2>2. rx.phase # "recv"
    BY <1>4, <1>5, <2>1 DEF At
  <2> QED
    BY <1>u, <2>1, <2>2, RxFields
<1> HIDE DEF e, g, l, done
<1>8. PollRx(l) = l
  <2>1. l.phase # "recv" \/ l.timer = 0
    <3>1. CASE g.type = "SF"
      BY <1>u, <1>1, <1>3, <3>1, OnSfReturns, FrameFields
    <3>2. CASE g.type = "FF"
      BY <1>u, <1>1, <1>3, <3>2, OnFfReturns
    <3>3. CASE g.type = "CF"
      <4>1. l.phase = "recv" => Taken(rx, g, l)
        BY <1>u, <1>1, <1>3, <3>3, OnCfReturns, RxResetReturns
      <4> QED
        BY <4>1, <1>3, RxFields DEF Taken
    <3> QED
      BY <1>1, <3>1, <3>2, <3>3, FrameFields
  <2> QED
    BY <1>3, <2>1, PollRxReturns, Constants
<1>9. /\ Collect(l)
      /\ IF Grants(rx, g) THEN fc' = Append(fc, Status("CTS")) ELSE fc' = fc
  BY <1>8 DEF RxFrame, Put, e, g, l
<1>10. /\ rx' \in RxType /\ rx'.phase = l.phase /\ rx'.buf = l.buf
       /\ rx'.len = l.len /\ rx'.sn = l.sn /\ rx'.blockCf = l.blockCf
       /\ rx'.timer = l.timer
       /\ ~l.complete => delivered' = delivered
       /\ l.complete /\ ~l.functional => Pushed(delivered, delivered', l.buf)
  BY <1>u, <1>3, <1>9, CollectReturns
<1>11. fc' \in FcQueue /\ (Grants(rx, g) => Len(fc') # 0)
  <2>1. Append(fc, Status("CTS")) \in FcQueue /\ Len(Append(fc, Status("CTS"))) # 0
    <3>1. Status("CTS") \in FcType
      BY StatusTypes
    <3> QED
      BY <1>u, <3>1, Pushing DEF FcQueue
  <2> QED
    BY <1>u, <1>9, <2>1
<1>12. ASSUME ~Grants(rx, g), l.complete, ~l.functional, l.phase = "idle",
              At(data[1].piece, done + 1, Pieces[done + 1])
       PROVE  Flow(tx', rx', data', fc', Len(delivered'), next')
  <2>1. Len(delivered') = done + 1
    BY <1>10, <1>12 DEF Pushed, done
  <2>2. done + 1 \in 1..Len(Pieces)
    BY <1>1, <1>4, <1>12 DEF Genuine, At
  <2>3. rx'.phase = "idle"
    BY <1>10, <1>12
  <2>4. Flow(tx, rx', e, fc, done + 1, next)
    BY <1>u, <1>1, <1>2, <1>12, <2>2, <2>3, EndFlows
  <2> QED
    BY <1>n, <1>9, <1>12, <2>1, <2>4
<1>13. CASE g.type = "SF"
  <2>1. l.phase = "idle" /\ l.complete /\ ~l.functional
    BY <1>u, <1>1, <1>3, <1>13, OnSfReturns, FrameFields
  <2>2. ~Grants(rx, g)
    BY <1>13 DEF Grants
  <2>3. g.piece[2] = 1 /\ Pieces[g.piece[1]] = 1
    BY <1>4, <1>13 DEF Genuine
  <2>4. At(data[1].piece, done + 1, Pieces[done + 1])
    BY <1>1, <1>4, <2>3 DEF At
  <2> QED
    BY <1>12, <2>1, <2>2, <2>4
<1>14. CASE g.type = "FF"
  <2>1. /\ l.phase = "recv" /\ l.buf = <<g.piece>> /\ l.sn = 1 /\ l.timer = 0
        /\ l.complete = rx.complete
    BY <1>u, <1>1, <1>3, <1>14, OnFfReturns
  <2>2. delivered' = delivered /\ Len(fc') # 0
    BY <1>u, <1>10, <1>11, <1>14, <2>1 DEF Grants
  <2>3. Len(l.buf) = 1 /\ l.buf[1] = data[1].piece
    BY <1>1, <2>1, OnePiece, FrameFields
  <2> DEFINE r2 == rx'
             f2 == fc'
  <2>4. /\ r2 \in RxType /\ r2.phase = "recv" /\ r2.sn = 1 /\ r2.timer = 0
        /\ Len(r2.buf) = 1 /\ r2.buf[1] = data[1].piece
        /\ f2 \in FcQueue /\ Len(f2) # 0 /\ data[1].type = "FF"
    BY <1>1, <1>10, <1>11, <1>14, <2>1, <2>2, <2>3
  <2> HIDE DEF r2, f2
  <2>5. Flow(tx, r2, e, f2, done, next)
    BY <1>u, <1>1, <1>2, <2>4, FfFlows
  <2> QED
    BY <1>n, <2>2, <2>5 DEF r2, f2, done
<1>15. CASE g.type = "CF"
  <2>1. \/ /\ rx.phase = "recv" /\ Len(rx.buf) + 1 = rx.len
           /\ Taken(rx, g, l) /\ l.phase = "idle" /\ l.complete
        \/ /\ rx.phase = "recv" /\ Len(rx.buf) + 1 # rx.len
           /\ Taken(rx, g, l) /\ l.phase = "recv" /\ l.complete = rx.complete
           /\ l.blockCf = IF BlockSize # 0 /\ rx.blockCf + 1 >= BlockSize
                          THEN 0 ELSE rx.blockCf + 1
    BY <1>u, <1>1, <1>3, <1>6, <1>15, OnCfReturns
  <2>2. CASE /\ rx.phase = "recv" /\ Len(rx.buf) + 1 = rx.len
             /\ Taken(rx, g, l) /\ l.phase = "idle" /\ l.complete
    <3>1. ~(Len(rx.buf) + 1 < rx.len)
      BY <1>4, <2>2
    <3>2. ~Grants(rx, g)
      BY <1>15, <3>1 DEF Grants
    <3>3. ~l.functional
      BY <1>2, <2>2 DEF Taken, Holding
    <3>4. At(data[1].piece, done + 1, Pieces[done + 1])
      BY <1>1, <1>4, <1>5, <2>2 DEF At
    <3> QED
      BY <1>12, <2>2, <3>2, <3>3, <3>4
  <2>3. CASE /\ rx.phase = "recv" /\ Len(rx.buf) + 1 # rx.len
             /\ Taken(rx, g, l) /\ l.phase = "recv" /\ l.complete = rx.complete
             /\ l.blockCf = IF BlockSize # 0 /\ rx.blockCf + 1 >= BlockSize
                            THEN 0 ELSE rx.blockCf + 1
    <3>1. delivered' = delivered
      BY <1>u, <1>10, <2>3
    <3>2. GoesOn(rx, data[1], rx')
      <4>1. GoesOn(rx, g, l)
        BY <2>3 DEF GoesOn, Taken, Appended
      <4> QED
        BY <1>1, <1>10, <4>1 DEF GoesOn, Appended
    <3>3. Grants(rx, g) <=> BlockEnds(rx)
      <4>1. Len(rx.buf) + 1 < rx.len
        BY <1>u, <1>4, <1>5, <2>3, RxFields
      <4> QED
        BY <1>6, <1>15, <4>1 DEF Grants, BlockEnds
    <3> DEFINE r2 == rx'
               f2 == fc'
    <3>4. /\ r2 \in RxType /\ GoesOn(rx, data[1], r2) /\ f2 \in FcQueue
          /\ IF BlockEnds(rx) THEN Len(f2) # 0 ELSE f2 = fc
          /\ data[1].type = "CF" /\ rx.phase = "recv"
      BY <1>1, <1>9, <1>10, <1>11, <1>15, <2>3, <3>2, <3>3
    <3> HIDE DEF r2, f2
    <3>5. Flow(tx, r2, e, f2, done, next)
      BY <1>u, <1>1, <1>2, <3>4, CfTakenFlows
    <3> QED
      BY <1>n, <3>1, <3>5 DEF r2, f2, done
  <2> QED
    BY <2>1, <2>2, <2>3
<1> QED
  BY <1>1, <1>13, <1>14, <1>15, FrameFields

\* A pass that takes nothing: no timer expires.
LEMMA RxQuietFlows ==
    ASSUME LinkInv, FlowInv, upsets = {}, NEW l \in RxType, Collect(l),
           l.functional \/ ~l.complete,
           l.phase = rx.phase, l.sn = rx.sn, l.blockCf = rx.blockCf,
           rx.phase = "recv" => l.buf = rx.buf /\ l.timer = rx.timer,
           UNCHANGED <<tx, data, fc, next>>
    PROVE  Flow(tx', rx', data', fc', Len(delivered'), next')
<1>1. /\ delivered' = delivered /\ rx'.phase = rx.phase /\ rx'.sn = rx.sn
      /\ rx'.blockCf = rx.blockCf
      /\ rx.phase = "recv" => rx'.buf = rx.buf /\ rx'.timer = rx.timer
  <2>1. delivered \in Seq(Buffers)
    BY TypeFacts DEF LinkInv
  <2> QED
    BY <2>1, CollectReturns
<1>2. Flow(tx, rx, data, fc, Len(delivered), next)
  BY DEF FlowInv
<1>3. Flow(tx, rx', data, fc, Len(delivered), next)
  BY <1>1, <1>2, FlowSame
<1> QED
  BY <1>1, <1>3

\* The receiver gives up no reception in a pass without a frame of its own:
LEMMA StillRunning ==
    LinkInv /\ FlowInv /\ upsets = {} => PollRx(rx) = rx
<1> SUFFICES ASSUME LinkInv, FlowInv, upsets = {} PROVE PollRx(rx) = rx
  OBVIOUS
<1>1. /\ tx \in TxType /\ rx \in RxType /\ data \in DataQueue /\ fc \in FcQueue
      /\ next \in Nat /\ owed \in BOOLEAN
  BY TypeFacts DEF LinkInv
<1>2. UnderWay(tx, data, fc, next)
  BY DEF LinkInv, Link
<1>3. rx.phase # "recv" \/ rx.timer < NCr
  BY <1>1, <1>2, NoStall DEF FlowInv
<1> QED
  BY <1>1, <1>3, PollRxReturns

\* one without a frame,
LEMMA RxNoFrameFlows == LinkInv /\ FlowInv /\ RxNoFrame => FlowInv'
<1> SUFFICES ASSUME LinkInv, FlowInv, RxNoFrame, upsets' = {}
             PROVE  Flow(tx', rx', data', fc', Len(delivered'), next')
  BY DEF FlowInv
<1>1. upsets = {} /\ UNCHANGED <<tx, data, fc, next>>
  BY DEF RxNoFrame, env
<1>2. rx \in RxType /\ ~rx.complete
  BY TypeFacts DEF LinkInv
<1>3. Collect(rx)
  BY <1>1, StillRunning DEF RxNoFrame
<1> QED
  BY <1>1, <1>2, <1>3, RxQuietFlows

\* one with a broadcast,
LEMMA BroadcastFlows == LinkInv /\ FlowInv /\ Broadcast => FlowInv'
<1> SUFFICES ASSUME LinkInv, FlowInv, Broadcast, upsets' = {}
             PROVE  Flow(tx', rx', data', fc', Len(delivered'), next')
  BY DEF FlowInv
<1>n. upsets = {} /\ UNCHANGED <<tx, data, fc, next>>
  BY DEF Broadcast
<1>u. rx \in RxType /\ ~rx.complete
  BY TypeFacts DEF LinkInv
<1> DEFINE g == Frame("BC", <<0, 1>>, 1, 0)
           b == OnSf(rx, g)
<1>1. g.piece \in PieceType /\ g.type = "BC"
  BY DEF Frame, PieceType
<1>2. OnCanFrame(rx, g) = b
  BY <1>1 DEF OnCanFrame
<1>3. Collect(PollRx(b))
  BY <1>2 DEF Broadcast
<1>4. /\ rx.phase = "recv" => b = rx
      /\ rx.phase = "idle" =>
            /\ b \in RxType /\ b.phase = "idle" /\ b.blockCf = rx.blockCf
            /\ b.functional /\ b.sn = rx.sn /\ b.timer = rx.timer
  <2> HIDE DEF g
  <2> QED
    BY <1>u, <1>1, OnBcReturns
<1> HIDE DEF b, g
<1>5. b \in RxType
  BY <1>u, <1>4, RxFields
<1>6. PollRx(b) = b
  <2>1. CASE rx.phase = "recv"
    BY <1>n, <1>4, <2>1, StillRunning
  <2>2. CASE rx.phase = "idle"
    BY <1>4, <1>5, <2>2, PollRxReturns
  <2> QED
    BY <1>u, <2>1, <2>2, RxFields
<1>7. /\ b.functional \/ ~b.complete
      /\ b.phase = rx.phase /\ b.sn = rx.sn /\ b.blockCf = rx.blockCf
      /\ rx.phase = "recv" => b.buf = rx.buf /\ b.timer = rx.timer
  BY <1>u, <1>4, RxFields
<1>8. Collect(b)
  BY <1>3, <1>6
<1> QED
  BY <1>n, <1>5, <1>7, <1>8, RxQuietFlows

\* and a tick.
LEMMA TickFlows == LinkInv /\ FlowInv /\ Tick => FlowInv'
<1> SUFFICES ASSUME LinkInv, FlowInv, Tick, upsets' = {}
             PROVE  Flow(tx', rx', data', fc', Len(delivered'), next')
  BY DEF FlowInv
<1>u. /\ tx \in TxType /\ rx \in RxType /\ data \in DataQueue /\ fc \in FcQueue
      /\ next \in Nat /\ owed \in BOOLEAN /\ Len(delivered) \in Nat /\ TypeOK
  BY TypeFacts, LenProperties DEF LinkInv
<1>1. /\ data' = Older(data) /\ fc' = Older(fc) /\ ~Overdue(data) /\ ~Overdue(fc)
      /\ ~(tx.phase = "send" /\ tx.stTimer > STmin)
      /\ UNCHANGED <<next, delivered, owed>> /\ upsets = {}
  BY DEF Tick, app, env
<1>2. /\ \A i \in 1..Len(data) : data[i].age <= MaxDelay
      /\ \A i \in 1..Len(fc) : fc[i].age <= MaxDelay
  BY DEF LinkInv, Link, UnderWay
<1>3. /\ data' \in DataQueue /\ Len(data') = Len(data)
      /\ \A i \in 1..Len(data) :
            /\ data'[i].type = data[i].type /\ data'[i].piece = data[i].piece
            /\ data'[i].sn = data[i].sn /\ data'[i].age = data[i].age + 1
  BY <1>u, <1>1, <1>2, OlderData
<1>4. /\ fc' \in FcQueue /\ Len(fc') = Len(fc)
      /\ \A i \in 1..Len(fc) : fc'[i].age = fc[i].age + 1
  BY <1>u, <1>1, <1>2, OlderFc
<1>5. /\ tx'.phase = tx.phase /\ tx'.msg = tx.msg /\ tx'.off = tx.off
      /\ tx'.sn = tx.sn /\ tx'.bsLeft = tx.bsLeft
      /\ tx'.stTimer = Upto(tx.stTimer, STmin + 1)
      /\ rx'.phase = rx.phase /\ rx'.buf = rx.buf /\ rx'.sn = rx.sn
      /\ rx'.blockCf = rx.blockCf /\ rx'.timer = Upto(rx.timer, NCr)
  BY <1>u, TimersRun
<1>6. /\ Len(data) \in Nat /\ Len(data) # 0 => 1 \in 1..Len(data) /\ Len(data) \in 1..Len(data)
      /\ \A i \in 1..Len(data) - 1 : i \in 1..Len(data) /\ i + 1 \in 1..Len(data)
  BY <1>u, DataFields
<1>7. /\ NoneMissing(tx, rx, data, Len(delivered), next)
      /\ Trail(tx, rx, data, Len(delivered)) /\ InBlock(tx, rx, data)
      /\ GrantComes(tx, data, fc) /\ Numbers(tx, rx, data)
      /\ Pace(tx, rx, data, fc)
  BY <1>1 DEF FlowInv, Flow
<1>8. NoneMissing(tx', rx', data', Len(delivered), next)
  <2>1. Len(data) # 0 => /\ data'[1].piece = data[1].piece
                         /\ data'[Len(data')].piece = data[Len(data)].piece
    BY <1>3, <1>6
  <2>2. \A i \in 1..Len(data') - 1 : Follows(data'[i].piece, data'[i + 1].piece)
    <3> SUFFICES ASSUME NEW i \in 1..Len(data) - 1
                 PROVE  Follows(data'[i].piece, data'[i + 1].piece)
      BY <1>3
    <3>1. i \in 1..Len(data) /\ i + 1 \in 1..Len(data)
      BY <1>6
    <3>2. data'[i].piece = data[i].piece /\ data'[i + 1].piece = data[i + 1].piece
      BY <1>3, <3>1
    <3> QED
      BY <1>7, <3>2 DEF NoneMissing
  <2> QED
    BY <1>3, <1>5, <1>7, <2>1, <2>2 DEF NoneMissing, Busy
<1>9. Trail(tx', rx', data', Len(delivered)) /\ InBlock(tx', rx', data')
  BY <1>3, <1>5, <1>7 DEF Trail, InBlock, Busy
<1>10. GrantComes(tx', data', fc')
  BY <1>3, <1>4, <1>5, <1>7 DEF GrantComes
<1>11. Numbers(tx', rx', data')
  <2>1. Len(data) # 0 =>
          /\ data'[1].type = data[1].type /\ data'[1].sn = data[1].sn
          /\ data'[Len(data')].type = data[Len(data)].type
          /\ data'[Len(data')].sn = data[Len(data)].sn
    BY <1>3, <1>6
  <2>2. NumbersRun(data')
    <3> SUFFICES ASSUME NEW i \in 1..Len(data) - 1,
                        data'[i].type = "CF", data'[i + 1].type = "CF"
                 PROVE  data'[i + 1].sn = (data'[i].sn + 1) % SnMod
      BY <1>3 DEF NumbersRun
    <3>1. i \in 1..Len(data) /\ i + 1 \in 1..Len(data)
      BY <1>6
    <3>2. /\ data'[i].type = data[i].type /\ data'[i + 1].type = data[i + 1].type
          /\ data'[i].sn = data[i].sn /\ data'[i + 1].sn = data[i + 1].sn
      BY <1>3, <3>1
    <3> QED
      BY <1>7, <3>2 DEF Numbers
  <2> QED
    BY <1>3, <1>5, <1>7, <2>1, <2>2 DEF Numbers, NumbersRun, Busy
<1>12. Pace(tx', rx', data', fc')
  <2>1. /\ STmin \in Nat /\ MaxDelay \in Nat /\ tx.stTimer \in Nat
        /\ rx.timer \in Nat /\ NCr \in Nat
    BY <1>u, Constants, TxFields, RxFields
  <2>2. rx'.timer <= rx.timer + 1 /\ rx'.timer \in Nat
    BY <1>5, <2>1 DEF Upto
  <2>3. tx.phase = "send" => tx'.stTimer = tx.stTimer + 1 /\ tx.stTimer <= STmin
    BY <1>1, <1>5, <2>1 DEF Upto
  <2>4. ASSUME rx.phase = "recv", Len(data) # 0
        PROVE  rx'.timer <= MaxDelay + STmin + 1 + data'[1].age
    <3>1. data'[1].age = data[1].age + 1 /\ data[1].age \in Nat
      BY <1>u, <1>3, <1>6, <2>4, DataFields
    <3>2. rx.timer <= MaxDelay + STmin + 1 + data[1].age
      BY <1>7, <2>4 DEF Pace
    <3> QED
      BY <2>1, <2>2, <3>1, <3>2
  <2>5. ASSUME rx.phase = "recv", Len(data) = 0, tx.phase = "send"
        PROVE  rx'.timer <= MaxDelay + tx'.stTimer
    <3>1. rx.timer <= MaxDelay + tx.stTimer
      BY <1>7, <2>5 DEF Pace
    <3> QED
      BY <2>1, <2>2, <2>3, <2>5, <3>1
  <2>6. ASSUME rx.phase = "recv", Len(data) = 0, tx.phase = "wait"
        PROVE  rx'.timer <= fc'[1].age
    <3>1. 1 \in 1..Len(fc)
      BY <1>u, <1>7, <2>6, FcFields DEF GrantComes
    <3>2. fc'[1].age = fc[1].age + 1 /\ fc[1].age \in Nat
      BY <1>u, <1>4, <3>1, FcFields
    <3>3. rx.timer <= fc[1].age
      BY <1>7, <2>6 DEF Pace
    <3> QED
      BY <2>1, <2>2, <3>2, <3>3
  <2>7. tx'.phase = "send" => tx'.stTimer <= STmin + 1
    BY <1>5, <2>1, <2>3
  <2> QED
    BY <1>3, <1>5, <2>4, <2>5, <2>6, <2>7 DEF Pace
<1> QED
  BY <1>1, <1>8, <1>9, <1>10, <1>11, <1>12 DEF Flow

\* The flow holds at first.
LEMMA FlowInit == Init => FlowInv
<1> SUFFICES ASSUME Init PROVE FlowInv
  OBVIOUS
<1>1. /\ tx.phase = "idle" /\ rx.phase = "idle" /\ next = 1
      /\ Len(data) = 0 /\ Len(fc) = 0 /\ Len(delivered) = 0
  BY DEF Init, TxIdle, RxIdle
<1>2. NoneMissing(tx, rx, data, 0, 1) /\ Trail(tx, rx, data, 0)
  BY <1>1 DEF NoneMissing, Trail, Busy
<1>3. InBlock(tx, rx, data) /\ GrantComes(tx, data, fc)
  BY <1>1 DEF InBlock, GrantComes
<1>4. Numbers(tx, rx, data) /\ Pace(tx, rx, data, fc)
  BY <1>1 DEF Numbers, Pace, Busy
<1> QED
  BY <1>1, <1>2, <1>3, <1>4 DEF FlowInv, Flow

\* Every step keeps it, or loses, refuses or puts off something.
LEMMA FlowKept == LinkInv /\ FlowInv /\ [Next]_vars => FlowInv'
<1> SUFFICES ASSUME LinkInv, FlowInv, [Next]_vars PROVE FlowInv'
  OBVIOUS
<1>1. CASE Send
  BY <1>1, SendFlows
<1>2. CASE TxPass
  BY <1>2, TxFlows
<1>3. CASE RxFrame
  BY <1>3, RxFrameFlows
<1>4. CASE RxNoFrame
  BY <1>4, RxNoFrameFlows
<1>5. CASE PeerAnswers
  <2>1. owed /\ upsets' = upsets
    BY <1>5 DEF PeerAnswers
  <2>2. ASSUME upsets = {} PROVE FALSE
    <3>1. Link(tx, rx, data, fc, owed, {}, delivered, next) /\ owed \in BOOLEAN
      BY <2>2, TypeFacts DEF LinkInv
    <3> QED
      BY <2>1, <3>1, Calm
  <2> QED
    BY <2>1, <2>2 DEF FlowInv
<1>6. CASE Lose
  BY <1>6 DEF Lose, Fault, FlowInv
<1>7. CASE Broadcast
  BY <1>7, BroadcastFlows
<1>8. CASE Tick
  BY <1>8, TickFlows
<1>9. CASE UNCHANGED vars
  <2>1. UNCHANGED <<tx, rx, data, fc, next, delivered, upsets>>
    BY <1>9 DEF vars, app, env
  <2> QED
    BY <2>1 DEF FlowInv
<1> QED
  BY <1>1, <1>2, <1>3, <1>4, <1>5, <1>6, <1>7, <1>8, <1>9 DEF Next, RxPass

(* As long as nothing is lost, refused or put off, no piece is missing, no   *)
(* timer of either side expires and both halves count the same block        *)
(* (isotp.c:239-346, 376-475).                                              *)
THEOREM FlowHolds == Spec => [](LinkInv /\ FlowInv)
<1>1. Init => LinkInv /\ FlowInv
  BY LinkInit, FlowInit
<1>2. LinkInv /\ FlowInv /\ [Next]_vars => (LinkInv /\ FlowInv)'
  BY LinkKept, FlowKept
<1> QED
  BY <1>1, <1>2, PTL DEF Spec

-----------------------------------------------------------------------------
(* What the runs check follows.                                            *)

\* The counts of a block are those of the flow.
LEMMA BlocksKept == LinkInv /\ FlowInv => BlockKept
<1> SUFFICES ASSUME LinkInv, FlowInv, BlockSize # 0, tx.phase = "send",
                    "gaveUp" \notin upsets
             PROVE  /\ rx.blockCf + Len(data) + tx.bsLeft <= BlockSize
                    /\ upsets = {} => rx.blockCf + Len(data) + tx.bsLeft = BlockSize
  BY DEF BlockKept
<1>1. rx.blockCf + Len(data) + tx.bsLeft <= BlockSize
  BY DEF LinkInv, Link, Agreed, Together
<1>2. upsets = {} => rx.blockCf + Len(data) + tx.bsLeft = BlockSize
  BY DEF FlowInv, Flow, InBlock
<1> QED
  BY <1>1, <1>2

(* The sender never sends more than it was granted, and with nothing lost   *)
(* both halves count the same block (isotp.c:267-300, 352-371, 443-470).    *)
THEOREM Blocks == Spec => []BlockKept
BY FlowHolds, BlocksKept, PTL

\* An idle sender and an empty bus leave nothing out of delivered.
LEMMA NoneLeft == LinkInv /\ FlowInv => AllArrive
<1> SUFFICES ASSUME LinkInv, FlowInv, upsets = {}, tx.phase = "idle", data = <<>>
             PROVE  Len(delivered) = next - 1
  BY DEF AllArrive
<1>1. Len(data) = 0
  OBVIOUS
<1>2. NoneMissing(tx, rx, data, Len(delivered), next)
  BY DEF FlowInv, Flow
<1> QED
  BY <1>1, <1>2 DEF NoneMissing, Busy

(* With nothing lost, refused or put off, every message isotp_send took is  *)
(* returned by isotp_receive, whatever is broadcast in between              *)
(* (isotp.c:221-238, 350-395, 443-475).                                     *)
THEOREM Arrive == Spec => []AllArrive
BY FlowHolds, NoneLeft, PTL

\* What the receiver holds and what is under way end with what was sent.
LEMMA Steps == LinkInv /\ FlowInv => InStep
<1> DEFINE all == Reassembled \o InTransit
           k == tx.off
           w == Whole(tx.msg)
<1> SUFFICES ASSUME LinkInv, FlowInv, upsets = {}, tx.phase # "idle"
             PROVE  \E before \in 0..Len(all) :
                       SubSeq(all, before + 1, Len(all)) = SubSeq(w, 1, k)
  BY DEF InStep
<1>u. /\ tx \in TxType /\ rx \in RxType /\ data \in DataQueue
      /\ next \in Nat /\ Busy(tx)
  BY TypeFacts DEF LinkInv, Busy
<1>1. /\ tx.msg \in 1..Len(Pieces) /\ k \in 1..Pieces[tx.msg] - 1
      /\ Pieces[tx.msg] \in Nat /\ k \in Nat /\ k >= 1
  BY <1>u, Constants, TxFields DEF LinkInv, Link, Sending
<1>2. /\ NoneMissing(tx, rx, data, Len(delivered), next)
      /\ Trail(tx, rx, data, Len(delivered))
  BY DEF FlowInv, Flow
<1>3. /\ Reassembled \in Seq(PieceType)
      /\ Len(Reassembled) = IF rx.phase = "recv" THEN Len(rx.buf) ELSE 0
      /\ rx.phase = "recv" => Reassembled = rx.buf
  <2>1. <<>> \in Seq(PieceType) /\ Len(<<>>) = 0
    BY EmptySeq
  <2> QED
    BY <1>u, <2>1, RxFields DEF Reassembled, Buffers
<1>4. /\ InTransit \in Seq(PieceType) /\ Len(InTransit) = Len(data)
      /\ \A i \in 1..Len(data) : InTransit[i] = data[i].piece
  <2>1. DOMAIN data = 1..Len(data) /\ Len(data) \in Nat
        /\ \A i \in 1..Len(data) : data[i] \in DataType
    BY <1>u, LenProperties, ElementOfSeq DEF DataQueue
  <2>2. \A i \in 1..Len(data) : data[i].piece \in PieceType
    BY <2>1, FrameFields
  <2>3. InTransit \in [1..Len(data) -> PieceType]
        /\ \A i \in 1..Len(data) : InTransit[i] = data[i].piece
    BY <2>1, <2>2 DEF InTransit
  <2>4. InTransit \in Seq(PieceType)
    <3>1. \E n \in Nat : InTransit \in [1..n -> PieceType]
      BY <2>1, <2>3
    <3>2. Seq(PieceType) = UNION {[1..n -> PieceType] : n \in Nat}
      BY SeqDef
    <3> QED
      BY <3>1, <3>2
  <2> QED
    BY <2>1, <2>3, <2>4, LenProperties
<1> DEFINE a == Len(Reassembled)
           b == Len(data)
           c == Len(all)
<1>5. /\ all \in Seq(PieceType) /\ c = a + b /\ a \in Nat /\ b \in Nat
      /\ \A i \in 1..c : all[i] = IF i <= a THEN Reassembled[i] ELSE InTransit[i - a]
  <2> DEFINE s1 == Reassembled
             s2 == InTransit
  <2>1. s1 \in Seq(PieceType) /\ s2 \in Seq(PieceType)
    BY <1>3, <1>4
  <2>2. Len(s2) = b
    BY <1>4
  <2>3. a \in Nat /\ b \in Nat
    BY <2>1, <2>2, LenProperties
  <2>4. all = s1 \o s2 /\ a = Len(s1) /\ c = Len(all)
    OBVIOUS
  <2> HIDE DEF s1, s2, a, b, c, all
  <2>5. /\ s1 \o s2 \in Seq(PieceType)
        /\ Len(s1 \o s2) = Len(s1) + Len(s2)
        /\ \A i \in 1..(Len(s1) + Len(s2)) :
              (s1 \o s2)[i] = IF i <= Len(s1) THEN s1[i] ELSE s2[i - Len(s1)]
    BY <2>1, ConcatProperties
  <2>6. /\ all \in Seq(PieceType) /\ c = a + b
        /\ \A i \in 1..c : all[i] = IF i <= a THEN s1[i] ELSE s2[i - a]
    BY <2>2, <2>4, <2>5
  <2> QED
    BY <2>3, <2>6 DEF s1, s2
<1>6. w \in Seq(PieceType) /\ Len(w) = Pieces[tx.msg]
      /\ \A i \in 1..Pieces[tx.msg] : w[i] = <<tx.msg, i>>
  BY <1>1, WholeSeq
<1>7. b < k => rx.phase = "recv" /\ Len(delivered) + 1 = tx.msg /\ a + b = k
  BY <1>u, <1>2, <1>3 DEF Trail
<1> HIDE DEF all, k, w, a, b, c
<1>8. c - k \in 0..c /\ c \in Nat
  BY <1>1, <1>5, <1>7
<1>9. ASSUME NEW i \in 1..k PROVE all[c - k + i] = <<tx.msg, i>>
  <2>1. c - k + i \in 1..c /\ i \in Nat
    BY <1>1, <1>5, <1>8
  <2>2. \A j \in 1..c : all[j] \in PieceType
    BY <1>5, ElementOfSeq DEF c
  <2>3. At(all[c - k + i], tx.msg, i)
    <3>1. CASE c - k + i > a
      <4> DEFINE j == (c - k + i) - a
      <4>1. j \in 1..b /\ b < k + j /\ k + j - b = i
        BY <1>1, <1>5, <1>8, <2>1, <3>1
      <4>2. all[c - k + i] = InTransit[j]
        <5>1. ~(c - k + i <= a)
          BY <1>1, <1>5, <1>8, <2>1, <3>1
        <5>2. all[c - k + i] = InTransit[(c - k + i) - a]
          <6> DEFINE n == c - k + i
          <6>1. n \in 1..c /\ ~(n <= a)
            BY <2>1, <5>1
          <6>2. n = c - k + i
            OBVIOUS
          <6> HIDE DEF n
          <6>3. all[n] = InTransit[n - a]
            BY <1>5, <6>1
          <6> QED
            BY <6>2, <6>3, Zenon
        <5> QED
          BY <5>2
      <4> HIDE DEF j
      <4>3. InTransit[j] = data[j].piece
        BY <1>4, <4>1 DEF b
      <4>4. At(data[j].piece, tx.msg, tx.off + j - Len(data))
        BY <1>u, <1>2, <4>1 DEF Trail, b, k
      <4>5. tx.off + j - Len(data) = i
        BY <4>1 DEF b, k
      <4> QED
        BY <4>2, <4>3, <4>4, <4>5
    <3>2. CASE c - k + i <= a
      <4>1. b < k
        BY <1>1, <1>5, <2>1, <3>2
      <4>2. c = k /\ rx.phase = "recv" /\ Len(delivered) + 1 = tx.msg
        BY <1>5, <1>7, <4>1
      <4>3. c - k + i = i /\ i <= a /\ i \in 1..a /\ i \in 1..c
        BY <1>1, <1>5, <2>1, <3>2, <4>2
      <4>4. all[i] = rx.buf[i] /\ i \in 1..Len(rx.buf)
        BY <1>3, <1>5, <4>2, <4>3 DEF a
      <4> QED
        BY <1>2, <4>2, <4>3, <4>4 DEF NoneMissing
    <3> QED
      BY <1>1, <1>5, <2>1, <3>1, <3>2
  <2>4. \A p \in PieceType : p = <<p[1], p[2]>>
    BY DEF PieceType
  <2> QED
    BY <2>1, <2>2, <2>3, <2>4 DEF At
<1>10. /\ SubSeq(all, c - k + 1, c) \in Seq(PieceType)
       /\ Len(SubSeq(all, c - k + 1, c)) = k
       /\ \A i \in 1..k : SubSeq(all, c - k + 1, c)[i] = all[c - k + i]
  <2>1. /\ \A i \in (c - k + 1)..c : all[i] \in PieceType
        /\ c - k + 1 \in 1..c + 1 /\ c \in 0..c
    BY <1>1, <1>5, <1>8, ElementOfSeq DEF c
  <2>2. c - (c - k + 1) + 1 = k /\ \A i \in 1..k : (c - k + 1) + i - 1 = c - k + i
    BY <1>1, <1>8
  <2> QED
    BY <1>1, <1>5, <1>8, <2>1, <2>2, SubSeqProperties DEF c
<1>11. /\ SubSeq(w, 1, k) \in Seq(PieceType) /\ Len(SubSeq(w, 1, k)) = k
       /\ \A i \in 1..k : SubSeq(w, 1, k)[i] = w[i]
  BY <1>1, <1>6, SubSeqProperties
<1>12. SubSeq(all, c - k + 1, c) = SubSeq(w, 1, k)
  <2>1. \A i \in 1..k : SubSeq(all, c - k + 1, c)[i] = SubSeq(w, 1, k)[i]
    <3>1. ASSUME NEW i \in 1..k
          PROVE  SubSeq(all, c - k + 1, c)[i] = SubSeq(w, 1, k)[i]
      <4>1. i \in 1..Pieces[tx.msg]
        BY <1>1
      <4>2. SubSeq(all, c - k + 1, c)[i] = all[c - k + i]
        BY <1>10
      <4>3. SubSeq(w, 1, k)[i] = w[i]
        BY <1>11
      <4> QED
        BY <1>6, <1>9, <4>1, <4>2, <4>3
    <3> QED
      BY <3>1
  <2> QED
    BY <1>10, <1>11, <2>1, SeqEqual
<1> QED
  BY <1>8, <1>12 DEF c

(* As long as nothing is lost, the pieces the sender has sent of its        *)
(* message are those the receiver holds and those under way, and a          *)
(* broadcast changes nothing in that (isotp.c:199-305, 443-470).            *)
THEOREM StaysInStep == Spec => []InStep
BY FlowHolds, Steps, PTL
=============================================================================
