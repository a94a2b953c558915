----------------------------- MODULE UsbTxProofs -----------------------------
(***************************************************************************)
(* Proofs about the way from the bus to the host: nothing is lost, repeated *)
(* or reordered on it, whatever is refused and whenever the batch is        *)
(* flushed; calibration is paced; and the host reads every batch as it was  *)
(* written, and recovers the time of every record.                          *)
(***************************************************************************)
EXTENDS UsbTx, Integers, SequenceTheorems, WellFoundedInduction, TLAPS

-----------------------------------------------------------------------------
(* Induction over the naturals, and the functions defined along them.      *)

\* A set that holds 0 and with every number the next one holds them all.
LEMMA SetInduction ==
    ASSUME NEW S, 0 \in S, \A n \in Nat : n \in S => n + 1 \in S
    PROVE  Nat \subseteq S
<1> DEFINE T == {n \in Nat : n \notin S}
           R == OpToRel(<, Nat)
<1>1. IsWellFoundedOn(R, Nat)
  BY NatLessThanWellFounded, Zenon
<1>2. ASSUME T # {} PROVE FALSE
  <2>1. T \subseteq Nat
    OBVIOUS
  <2> HIDE DEF T, R
  <2>2. PICK x \in T : \A y \in T : ~ (<<y, x>> \in R)
    BY <1>1, <1>2, <2>1, WFMin
  <2>3. \A y \in Nat : y < x /\ x \in Nat => <<y, x>> \in R
    BY DEF R, OpToRel
  <2>4. x \in Nat /\ x \notin S
    BY DEF T
  <2>5. x # 0 /\ x - 1 \in Nat /\ x - 1 < x /\ (x - 1) + 1 = x
    BY <2>4
  <2>6. x - 1 \notin T
    BY <2>2, <2>3, <2>4, <2>5
  <2>7. x - 1 \in S
    BY <2>5, <2>6 DEF T
  <2> QED
    BY <2>4, <2>5, <2>7
<1> QED
  BY <1>2

-----------------------------------------------------------------------------
(* The records of one kind in a batch.                                     *)

Masks == SUBSET {"RXQOVR", "BUS_LIGHT", "BUS_HEAVY", "BUS_OFF"}

Record == ({"frame"} \X Frames \X Nat) \cup ({"calib"} \X {0} \X Nat)
          \cup ({"error"} \X Masks \X Nat)

\* One step of Batched, and Batched of any sequence of records.
Picked(g, s, kind, i) == IF i = 0 THEN <<>>
                         ELSE IF s[i][1] = kind THEN Append(g[i - 1], s[i][2])
                         ELSE g[i - 1]

PicksUpto(g, n, s, kind) == g = [i \in 0..n |-> Picked(g, s, kind, i)]

Picks(s, kind) == (CHOOSE g : PicksUpto(g, Len(s), s, kind))[Len(s)]

\* The function that Batched speaks of is there.
LEMMA PicksExist ==
    ASSUME NEW s, NEW kind
    PROVE  \A n \in Nat : \E g : PicksUpto(g, n, s, kind)
<1> DEFINE S == {n \in Nat : \E g : PicksUpto(g, n, s, kind)}
<1>1. 0 \in S
  <2> DEFINE g == [i \in 0..0 |-> <<>>]
  <2>1. PicksUpto(g, 0, s, kind)
    BY DEF PicksUpto, Picked
  <2> QED
    BY <2>1
<1>2. ASSUME NEW n \in Nat, n \in S PROVE n + 1 \in S
  <2>1. PICK g : PicksUpto(g, n, s, kind)
    BY <1>2
  <2> DEFINE h == [i \in 0..n + 1 |-> IF i = n + 1 THEN Picked(g, s, kind, n + 1)
                                      ELSE g[i]]
  <2>2. ASSUME NEW i \in 0..n + 1 PROVE h[i] = Picked(h, s, kind, i)
    <3>1. CASE i = n + 1
      BY <3>1 DEF Picked
    <3>2. CASE i # n + 1
      <4>1. i \in 0..n
        BY <3>2
      <4>2. g[i] = Picked(g, s, kind, i)
        BY <2>1, <4>1 DEF PicksUpto
      <4>3. h[i] = g[i] /\ (i # 0 => h[i - 1] = g[i - 1])
        BY <4>1
      <4> QED
        BY <4>2, <4>3 DEF Picked
    <3> QED
      BY <3>1, <3>2
  <2>3. PicksUpto(h, n + 1, s, kind)
    <3>1. h = [i \in 0..n + 1 |-> h[i]]
      OBVIOUS
    <3> HIDE DEF h
    <3> QED
      BY <2>2, <3>1 DEF PicksUpto
  <2> QED
    BY <2>3
<1> HIDE DEF S
<1>3. Nat \subseteq S
  BY <1>1, <1>2, SetInduction
<1> QED
  BY <1>3 DEF S

\* It depends on the records it has reached only.
LEMMA PicksAgree ==
    ASSUME NEW n \in Nat, NEW m \in Nat, n <= m, NEW kind, NEW s, NEW t,
           \A i \in 1..n : s[i] = t[i],
           NEW g, PicksUpto(g, n, s, kind), NEW h, PicksUpto(h, m, t, kind)
    PROVE  g[n] = h[n]
<1> DEFINE S == {i \in Nat : i <= n => g[i] = h[i]}
<1>1. 0 \in S
  BY DEF PicksUpto, Picked
<1>2. ASSUME NEW i \in Nat, i \in S PROVE i + 1 \in S
  <2>1. SUFFICES ASSUME i + 1 <= n PROVE g[i + 1] = h[i + 1]
    OBVIOUS
  <2>2. g[i] = h[i] /\ s[i + 1] = t[i + 1]
    BY <1>2, <2>1
  <2>3. i + 1 \in 0..n /\ i + 1 \in 0..m /\ i + 1 # 0 /\ (i + 1) - 1 = i
    BY <2>1
  <2>4. g[i + 1] = Picked(g, s, kind, i + 1) /\ h[i + 1] = Picked(h, t, kind, i + 1)
    BY <2>3 DEF PicksUpto
  <2> QED
    BY <2>2, <2>3, <2>4 DEF Picked
<1> HIDE DEF S
<1>3. Nat \subseteq S
  BY <1>1, <1>2, SetInduction
<1> QED
  BY <1>3 DEF S

\* Nothing is picked from an empty batch.
LEMMA PicksEmpty == \A kind : Picks(<<>>, kind) = <<>>
<1> TAKE kind
<1>1. Len(<<>>) = 0
  BY EmptySeq
<1>2. PICK g : PicksUpto(g, 0, <<>>, kind)
  BY PicksExist
<1> DEFINE f == CHOOSE g2 : PicksUpto(g2, 0, <<>>, kind)
<1>3. PicksUpto(f, 0, <<>>, kind)
  BY <1>2
<1>4. f[0] = <<>>
  BY <1>3 DEF PicksUpto, Picked
<1> QED
  BY <1>1, <1>4 DEF Picks

\* A record that is added is picked if it is of the kind.
LEMMA PicksAppend ==
    ASSUME NEW S, NEW s \in Seq(S), NEW e \in S, NEW kind
    PROVE  Picks(Append(s, e), kind) = IF e[1] = kind
                                       THEN Append(Picks(s, kind), e[2])
                                       ELSE Picks(s, kind)
<1> DEFINE n == Len(s)
           t == Append(s, e)
           f == CHOOSE g : PicksUpto(g, n, s, kind)
           h == CHOOSE g : PicksUpto(g, n + 1, t, kind)
<1>1. /\ n \in Nat /\ Len(t) = n + 1 /\ t[n + 1] = e
      /\ \A i \in 1..n : s[i] = t[i]
  BY AppendProperties, LenProperties
<1>2. PicksUpto(f, n, s, kind) /\ PicksUpto(h, n + 1, t, kind)
  <2> HIDE DEF n, t
  <2>1. n + 1 \in Nat
    BY <1>1
  <2>2. (\E g : PicksUpto(g, n, s, kind)) /\ (\E g : PicksUpto(g, n + 1, t, kind))
    BY <1>1, <2>1, PicksExist
  <2> QED
    BY <2>2
<1>3. Picks(s, kind) = f[n] /\ Picks(t, kind) = h[n + 1]
  BY <1>1 DEF Picks
<1> HIDE DEF n, t, f, h
<1>4. f[n] = h[n]
  BY <1>1, <1>2, PicksAgree
<1>5. h[n + 1] = Picked(h, t, kind, n + 1)
  <2>1. n + 1 \in 0..n + 1
    BY <1>1
  <2> QED
    BY <1>2, <2>1 DEF PicksUpto
<1>6. n + 1 # 0 /\ (n + 1) - 1 = n
  BY <1>1
<1> QED
  BY <1>1, <1>3, <1>4, <1>5, <1>6 DEF Picked, t

\* Batched is Picks of the batch.
LEMMA BatchedPicks == \A kind : Batched(kind) = Picks(inBatch, kind)
BY DEF Batched, Picks, PicksUpto, Picked

\* The same in the next state.
LEMMA BatchedPicksNext == \A kind : Batched(kind)' = Picks(inBatch', kind)
BY DEF Batched, Picks, PicksUpto, Picked

\* What is picked from records is what such records hold.
LEMMA PicksType ==
    ASSUME NEW s \in Seq(Record)
    PROVE  /\ Picks(s, "frame") \in Seq(Frames) /\ Picks(s, "error") \in Seq(Masks)
<1> DEFINE Good(t) == /\ Picks(t, "frame") \in Seq(Frames)
                      /\ Picks(t, "error") \in Seq(Masks)
           S == {n \in Nat : \A t \in Seq(Record) : Len(t) = n => Good(t)}
<1>1. 0 \in S
  <2> SUFFICES ASSUME NEW t \in Seq(Record), Len(t) = 0 PROVE Good(t)
    OBVIOUS
  <2>1. t = <<>>
    BY EmptySeq
  <2> QED
    BY <2>1, PicksEmpty, EmptySeq
<1>2. ASSUME NEW n \in Nat, n \in S PROVE n + 1 \in S
  <2> SUFFICES ASSUME NEW t \in Seq(Record), Len(t) = n + 1 PROVE Good(t)
    BY <1>2
  <2>1. PICK u \in Seq(Record), e \in Record : t = Append(u, e)
    <3>1. t # <<>>
      BY EmptySeq, <1>2
    <3> QED
      BY <3>1, SequenceEmptyOrAppend
  <2>2. Len(u) = n
    BY <2>1, <1>2, AppendProperties, LenProperties
  <2>3. Good(u)
    BY <1>2, <2>2
  <2>4. /\ e[1] = "frame" => e[2] \in Frames
        /\ e[1] = "error" => e[2] \in Masks
    BY DEF Record
  <2>5. \A kind : Picks(t, kind) = IF e[1] = kind THEN Append(Picks(u, kind), e[2])
                                                  ELSE Picks(u, kind)
    BY <2>1, PicksAppend
  <2> HIDE DEF S
  <2> HIDE DEF Good
  <2>6. Picks(u, "frame") \in Seq(Frames) /\ Picks(u, "error") \in Seq(Masks)
    BY <2>3 DEF Good
  <2>7. Picks(t, "frame") \in Seq(Frames)
    <3>1. CASE e[1] = "frame"
      <4>1. Picks(t, "frame") = Append(Picks(u, "frame"), e[2])
        BY <2>5, <3>1
      <4>2. Picks(u, "frame") \in Seq(Frames) /\ e[2] \in Frames
        BY <2>4, <2>6, <3>1
      <4>3. Append(Picks(u, "frame"), e[2]) \in Seq(Frames)
        BY <4>2, AppendProperties
      <4> QED
        BY <4>1, <4>3
    <3>2. CASE e[1] # "frame"
      BY <2>5, <2>6, <3>2
    <3> QED
      BY <3>1, <3>2
  <2>8. Picks(t, "error") \in Seq(Masks)
    <3>1. CASE e[1] = "error"
      <4>1. Picks(t, "error") = Append(Picks(u, "error"), e[2])
        BY <2>5, <3>1
      <4>2. Picks(u, "error") \in Seq(Masks) /\ e[2] \in Masks
        BY <2>4, <2>6, <3>1
      <4>3. Append(Picks(u, "error"), e[2]) \in Seq(Masks)
        BY <4>2, AppendProperties
      <4> QED
        BY <4>1, <4>3
    <3>2. CASE e[1] # "error"
      BY <2>5, <2>6, <3>2
    <3> QED
      BY <3>1, <3>2
  <2> QED
    BY <2>7, <2>8 DEF Good
<1> HIDE DEF S
<1>3. Nat \subseteq S
  BY <1>1, <1>2, SetInduction
<1> QED
  BY <1>3, LenProperties DEF S

-----------------------------------------------------------------------------
(* A line: what the host has, what is in the batch, in the hand, and behind.*)

Line(h, p, d, q) == ((h \o p) \o d) \o q

\* The four parts of a line of elements of S.
Parts(h, p, d, q, S) == /\ h \in Seq(S) /\ p \in Seq(S) /\ d \in Seq(S)
                        /\ q \in Seq(S)

\* A single element, at the head of a queue or at the end of it.
LEMMA Singles ==
    ASSUME NEW S
    PROVE  /\ <<>> \in Seq(S)
           /\ \A f \in S : <<f>> \in Seq(S) /\ Len(<<f>>) = 1 /\ <<f>>[1] = f
           /\ \A s \in Seq(S), f \in S : Append(s, f) = s \o <<f>>
           /\ \A s \in Seq(S) : s # <<>> => s = <<Head(s)>> \o Tail(s)
<1>1. <<>> \in Seq(S)
  BY EmptySeq
<1>2. \A f \in S : <<f>> \in Seq(S) /\ Len(<<f>>) = 1 /\ <<f>>[1] = f
  OBVIOUS
<1>3. \A s \in Seq(S), f \in S : Append(s, f) = s \o <<f>>
  BY AppendIsConcat
<1>4. ASSUME NEW s \in Seq(S), s # <<>> PROVE s = <<Head(s)>> \o Tail(s)
  <2>1. /\ Len(s) \in Nat \ {0} /\ Len(s) \in 1..Len(s) /\ 1 \in 1..Len(s)
    BY <1>4, EmptySeq, LenProperties
  <2>2. SubSeq(s, 1, Len(s)) = <<s[1]>> \o SubSeq(s, 1 + 1, Len(s))
    BY <2>1, SubSeqRecursiveFirst
  <2>3. SubSeq(s, 1, Len(s)) = s /\ Tail(s) = SubSeq(s, 2, Len(s))
    BY <1>4, SubSeqFull, TailIsSubSeq
  <2>4. Head(s) = s[1]
    BY <1>4
  <2> QED
    BY <2>2, <2>3, <2>4
<1> QED
  BY <1>1, <1>2, <1>3, <1>4

\* Three sequences may be joined in either order.
LEMMA Joined ==
    ASSUME NEW S, NEW s \in Seq(S), NEW t \in Seq(S), NEW u \in Seq(S)
    PROVE  s \o (t \o u) = (s \o t) \o u /\ s \o t \in Seq(S)
BY ConcatAssociative, ConcatProperties

\* What is taken from the queue and put into the batch stays in its place.
LEMMA LineTaken ==
    ASSUME NEW S, NEW h, NEW p, NEW q, NEW f \in S, Parts(h, p, <<>>, q, S)
    PROVE  Line(h, p, <<>>, <<f>> \o q) = Line(h, Append(p, f), <<>>, q)
<1> DEFINE g == <<f>>
           s == h \o p
           t == p \o g
<1>1. /\ h \in Seq(S) /\ p \in Seq(S) /\ q \in Seq(S) /\ g \in Seq(S)
      /\ Append(p, f) = t
  BY Singles DEF Parts
<1> HIDE DEF g
<1>2. s \in Seq(S) /\ t \in Seq(S) /\ s \o g = h \o t
  BY <1>1, Joined
<1>3. h \o t \in Seq(S)
  <2> HIDE DEF t
  <2> QED
    BY <1>1, <1>2, Joined
<1> HIDE DEF s
<1>4. s \o <<>> = s /\ (h \o t) \o <<>> = h \o t
  BY <1>2, <1>3, ConcatEmptySeq
<1>5. s \o (g \o q) = (s \o g) \o q
  <2>1. \A x, y, z \in Seq(S) : x \o (y \o z) = (x \o y) \o z
    BY Joined
  <2>2. s \in Seq(S) /\ g \in Seq(S) /\ q \in Seq(S)
    BY <1>1, <1>2
  <2> QED
    BY <2>1, <2>2
<1>6. (s \o <<>>) \o (g \o q) = ((h \o t) \o <<>>) \o q
  BY <1>2, <1>4, <1>5
<1> QED
  BY <1>1, <1>6 DEF Line, s, g

\* So does what is added to the batch from the hand,
LEMMA LineAdded ==
    ASSUME NEW S, NEW h, NEW p, NEW q, NEW f \in S, Parts(h, p, <<>>, q, S)
    PROVE  Line(h, p, <<f>>, q) = Line(h, Append(p, f), <<>>, q)
<1> DEFINE g == <<f>>
           s == h \o p
           t == p \o g
<1>1. /\ h \in Seq(S) /\ p \in Seq(S) /\ q \in Seq(S) /\ g \in Seq(S)
      /\ Append(p, f) = t
  BY Singles DEF Parts
<1> HIDE DEF g
<1>2. s \in Seq(S) /\ t \in Seq(S) /\ s \o g = h \o t
  BY <1>1, Joined
<1>3. h \o t \in Seq(S)
  <2> HIDE DEF t
  <2> QED
    BY <1>1, <1>2, Joined
<1> HIDE DEF s
<1>4. (h \o t) \o <<>> = h \o t
  BY <1>3, ConcatEmptySeq
<1>5. (s \o g) \o q = ((h \o t) \o <<>>) \o q
  BY <1>2, <1>4
<1> QED
  BY <1>1, <1>5 DEF Line, s, g

\* what is taken into the hand,
LEMMA LineHeld ==
    ASSUME NEW S, NEW h, NEW p, NEW q, NEW f \in S, Parts(h, p, <<>>, q, S)
    PROVE  Line(h, p, <<>>, <<f>> \o q) = Line(h, p, <<f>>, q)
BY LineTaken, LineAdded

\* and the batch that the host has read.
LEMMA LineFlushed ==
    ASSUME NEW S, NEW h, NEW p, NEW d, NEW q, Parts(h, p, d, q, S)
    PROVE  Line(h \o p, <<>>, d, q) = Line(h, p, d, q) /\ h \o p \in Seq(S)
<1>1. h \o p \in Seq(S)
  BY ConcatProperties DEF Parts
<1>2. (h \o p) \o <<>> = h \o p
  BY <1>1, ConcatEmptySeq
<1> QED
  BY <1>1, <1>2 DEF Line

\* A new element is the last of the line.
LEMMA LineJoined ==
    ASSUME NEW S, NEW h, NEW p, NEW d, NEW q, NEW f \in S, Parts(h, p, d, q, S)
    PROVE  Line(h, p, d, Append(q, f)) = Append(Line(h, p, d, q), f)
<1> USE DEF Parts
<1> DEFINE s == (h \o p) \o d
<1>1. s \in Seq(S) /\ <<f>> \in Seq(S) /\ s \o q \in Seq(S)
  BY Singles, ConcatProperties
<1>2. s \o (q \o <<f>>) = (s \o q) \o <<f>>
  <2> HIDE DEF s
  <2> QED
    BY <1>1, ConcatAssociative
<1>3. Append(q, f) = q \o <<f>> /\ Append(s \o q, f) = (s \o q) \o <<f>>
  <2> HIDE DEF s
  <2> QED
    BY <1>1, Singles
<1> QED
  BY <1>2, <1>3 DEF Line

\* A line is a sequence of such elements.
LEMMA LineType ==
    ASSUME NEW S, NEW h, NEW p, NEW d, NEW q, Parts(h, p, d, q, S)
    PROVE  Line(h, p, d, q) \in Seq(S)
BY ConcatProperties DEF Line, Parts

-----------------------------------------------------------------------------
(* The frames of rx_ring, and the types of the variables.                  *)

Stamped == Frames \X Nat

Firsts(r) == [i \in DOMAIN r |-> r[i][1]]

\* The numbers of the frames in the ring.
LEMMA FirstsSeq ==
    ASSUME NEW r \in Seq(Stamped)
    PROVE  /\ Firsts(r) \in Seq(Frames) /\ Len(Firsts(r)) = Len(r)
           /\ Len(r) \in Nat /\ DOMAIN r = 1..Len(r)
           /\ \A i \in 1..Len(r) : /\ r[i][1] \in Frames /\ r[i][2] \in Nat
                                   /\ Firsts(r)[i] = r[i][1]
<1>1. Len(r) \in Nat /\ DOMAIN r = 1..Len(r) /\ \A i \in 1..Len(r) : r[i] \in Stamped
  BY LenProperties, ElementOfSeq
<1>2. \A i \in 1..Len(r) : r[i][1] \in Frames /\ r[i][2] \in Nat
  BY <1>1 DEF Stamped
<1>3. Firsts(r) \in [1..Len(r) -> Frames] /\ \A i \in 1..Len(r) : Firsts(r)[i] = r[i][1]
  BY <1>1, <1>2 DEF Firsts
<1>4. Firsts(r) \in Seq(Frames)
  <2>1. \E n \in Nat : Firsts(r) \in [1..n -> Frames]
    BY <1>1, <1>3
  <2>2. Seq(Frames) = UNION {[1..n -> Frames] : n \in Nat}
    BY SeqDef
  <2> QED
    BY <2>1, <2>2
<1>5. Len(Firsts(r)) = Len(r)
  BY <1>1, <1>3, <1>4, LenProperties
<1> QED
  BY <1>1, <1>2, <1>3, <1>4, <1>5

\* pcan_rb_pop takes the first of them,
LEMMA FirstsHead ==
    ASSUME NEW r \in Seq(Stamped), r # <<>>
    PROVE  /\ Head(r) \in Stamped /\ Tail(r) \in Seq(Stamped)
           /\ Head(r)[1] \in Frames /\ Head(r)[2] \in Nat /\ Head(r) = r[1]
           /\ Firsts(r) = <<Head(r)[1]>> \o Firsts(Tail(r))
<1>1. /\ Head(r) \in Stamped /\ Tail(r) \in Seq(Stamped)
      /\ Len(Tail(r)) = Len(r) - 1 /\ Len(r) \in Nat \ {0}
      /\ \A i \in 1..Len(Tail(r)) : Tail(r)[i] = r[i + 1]
  BY HeadTailProperties, EmptySeq
<1>2. Head(r)[1] \in Frames /\ Head(r)[2] \in Nat /\ Head(r) = r[1]
  BY <1>1 DEF Stamped
<1> DEFINE g == <<Head(r)[1]>>
           t == Firsts(Tail(r))
           w == Firsts(r)
<1>3. /\ w \in Seq(Frames) /\ Len(w) = Len(r)
      /\ \A i \in 1..Len(r) : w[i] = r[i][1]
  BY FirstsSeq
<1>4. /\ t \in Seq(Frames) /\ Len(t) = Len(r) - 1
      /\ \A i \in 1..Len(r) - 1 : t[i] = Tail(r)[i][1]
  BY <1>1, FirstsSeq
<1>5. g \in Seq(Frames) /\ Len(g) = 1 /\ g[1] = r[1][1]
  BY <1>2
<1> HIDE DEF g, t, w
<1>6. /\ g \o t \in Seq(Frames) /\ Len(g \o t) = Len(g) + Len(t)
      /\ \A i \in 1..(Len(g) + Len(t)) : (g \o t)[i] = IF i <= Len(g) THEN g[i] ELSE t[i - Len(g)]
  BY <1>4, <1>5, ConcatProperties
<1>7. Len(g \o t) = Len(w)
  BY <1>1, <1>3, <1>4, <1>5, <1>6
<1>8. ASSUME NEW i \in 1..Len(w) PROVE w[i] = (g \o t)[i]
  <2>1. i \in 1..Len(r) /\ i \in 1..(Len(g) + Len(t))
    BY <1>1, <1>3, <1>4, <1>5
  <2>2. CASE i = 1
    BY <1>3, <1>5, <1>6, <2>1, <2>2
  <2>3. CASE i # 1
    <3>1. i - 1 \in 1..Len(r) - 1 /\ (i - 1) + 1 = i /\ ~(i <= 1)
      BY <1>1, <2>1, <2>3
    <3>2. (g \o t)[i] = t[i - 1]
      BY <1>5, <1>6, <2>1, <3>1
    <3>3. t[i - 1] = r[(i - 1) + 1][1]
      BY <1>1, <1>4, <3>1
    <3> QED
      BY <1>3, <2>1, <3>1, <3>2, <3>3
  <2> QED
    BY <2>2, <2>3
<1>9. w = g \o t
  BY <1>3, <1>6, <1>7, <1>8, SeqEqual
<1> QED
  BY <1>1, <1>2, <1>9 DEF g, t, w

\* and pcan_rb_push adds one.
LEMMA FirstsAppend ==
    ASSUME NEW r \in Seq(Stamped), NEW e \in Stamped
    PROVE  /\ Append(r, e) \in Seq(Stamped)
           /\ Firsts(Append(r, e)) = Append(Firsts(r), e[1])
<1> DEFINE t == Append(r, e)
           w == Firsts(r)
<1>1. /\ t \in Seq(Stamped) /\ Len(t) = Len(r) + 1 /\ t[Len(r) + 1] = e
      /\ \A i \in 1..Len(r) : t[i] = r[i]
  BY AppendProperties
<1>2. /\ w \in Seq(Frames) /\ Len(w) = Len(r) /\ Len(r) \in Nat
      /\ \A i \in 1..Len(r) : w[i] = r[i][1]
  BY FirstsSeq
<1>3. /\ Firsts(t) \in Seq(Frames) /\ Len(Firsts(t)) = Len(t)
      /\ \A i \in 1..Len(t) : Firsts(t)[i] = t[i][1]
  BY <1>1, FirstsSeq
<1>4. e[1] \in Frames
  BY DEF Stamped
<1> DEFINE u == Append(w, e[1])
<1> HIDE DEF t, w
<1>5. /\ u \in Seq(Frames) /\ Len(u) = Len(w) + 1 /\ u[Len(w) + 1] = e[1]
      /\ \A i \in 1..Len(w) : u[i] = w[i]
  BY <1>2, <1>4, AppendProperties
<1> HIDE DEF u
<1>6. Len(Firsts(t)) = Len(u)
  BY <1>1, <1>2, <1>3, <1>5
<1>7. ASSUME NEW i \in 1..Len(u) PROVE u[i] = Firsts(t)[i]
  <2>1. CASE i = Len(r) + 1
    BY <1>1, <1>2, <1>3, <1>5, <2>1
  <2>2. CASE i # Len(r) + 1
    <3>1. i \in 1..Len(r) /\ i \in 1..Len(t)
      BY <1>1, <1>2, <1>5, <2>2
    <3> QED
      BY <1>1, <1>2, <1>3, <1>5, <3>1
  <2> QED
    BY <2>1, <2>2
<1>8. Firsts(t) = u
  BY <1>3, <1>5, <1>6, <1>7, SeqEqual
<1> QED
  BY <1>1, <1>8 DEF t, u, w

Hands == {<<>>} \cup ({"frame"} \X Frames \X Nat) \cup ({"error"} \X Masks)

Rets == {"pop", "add", "calib", "anchored", "events"}

HostType == [frames : Seq(Frames), masks : Seq(Masks), calib : Nat]

\* The types of what the task, the ring and the host hold; the bytes of a
\* batch are left to its reading.
TypeOK == /\ now \in Nat /\ arrived \in Nat /\ arrived <= Len(Shapes)
          /\ rxHand \in {<<>>} \cup Stamped
          /\ ring \in Seq(Stamped)
          /\ alerts \subseteq Kinds
          /\ posted \in Seq(Masks) /\ evts \in Seq(Masks)
          /\ pc \in Pcs /\ ret \in Rets /\ hand \in Hands
          /\ lastCalib \in Nat /\ lastCalib <= now
          /\ inBatch \in Seq(Record) /\ b.count = Len(inBatch)
          /\ host \in HostType
          /\ dropped \in [frames : SUBSET Frames, masks : Nat]

\* hand is in use from the flush that makes room to the second attempt.
HandKept == /\ hand # <<>> => pc = "add" \/ (pc = "flush" /\ ret = "add")
            /\ pc = "add" \/ (pc = "flush" /\ ret = "add") => hand # <<>>

FramesLine == Line(host.frames, Batched("frame"), InHand("frame"), Firsts(ring))

MasksLine == Line(host.masks, Batched("error"), InHand("error"), evts)

\* What is in hand is of one kind.
LEMMA HandOf ==
    ASSUME TypeOK
    PROVE  /\ InHand("frame") \in Seq(Frames) /\ InHand("error") \in Seq(Masks)
           /\ hand = <<>> => \A kind : InHand(kind) = <<>>
           /\ hand # <<>> => \/ /\ hand[1] = "frame" /\ hand[2] \in Frames
                                /\ hand[3] \in Nat
                                /\ InHand("frame") = <<hand[2]>>
                                /\ InHand("error") = <<>>
                             \/ /\ hand[1] = "error" /\ hand[2] \in Masks
                                /\ InHand("error") = <<hand[2]>>
                                /\ InHand("frame") = <<>>
<1>1. hand \in Hands
  BY DEF TypeOK
<1>2. CASE hand = <<>>
  BY <1>2, EmptySeq DEF InHand
<1>3. CASE hand \in {"frame"} \X Frames \X Nat
  <2>1. hand[1] = "frame" /\ hand[2] \in Frames /\ hand[3] \in Nat /\ hand # <<>>
    BY <1>3
  <2>2. InHand("frame") = <<hand[2]>> /\ InHand("error") = <<>>
    BY <2>1 DEF InHand
  <2>3. <<hand[2]>> \in Seq(Frames)
    BY <2>1
  <2> QED
    BY <2>1, <2>2, <2>3, EmptySeq
<1>4. CASE hand \in {"error"} \X Masks
  <2>1. hand[1] = "error" /\ hand[2] \in Masks /\ hand # <<>>
    BY <1>4
  <2>2. InHand("error") = <<hand[2]>> /\ InHand("frame") = <<>>
    BY <2>1 DEF InHand
  <2>3. <<hand[2]>> \in Seq(Masks)
    BY <2>1
  <2> QED
    BY <2>1, <2>2, <2>3, EmptySeq
<1> QED
  BY <1>1, <1>2, <1>3, <1>4 DEF Hands

\* The parts of both lines.
LEMMA LineParts ==
    ASSUME TypeOK
    PROVE  /\ Parts(host.frames, Batched("frame"), InHand("frame"), Firsts(ring), Frames)
           /\ Parts(host.masks, Batched("error"), InHand("error"), evts, Masks)
<1>1. /\ inBatch \in Seq(Record) /\ ring \in Seq(Stamped) /\ evts \in Seq(Masks)
      /\ host.frames \in Seq(Frames) /\ host.masks \in Seq(Masks)
  BY DEF TypeOK, HostType
<1>2. Batched("frame") \in Seq(Frames) /\ Batched("error") \in Seq(Masks)
  BY <1>1, PicksType, BatchedPicks
<1>3. Firsts(ring) \in Seq(Frames)
  BY <1>1, FirstsSeq
<1> QED
  BY <1>1, <1>2, <1>3, HandOf DEF Parts

\* A record that is put into the batch: who picks it.
LEMMA BatchesPicks ==
    ASSUME TypeOK, NEW kind, NEW what, NEW at, NEW bytes,
           <<kind, what, at>> \in Record, Batches(kind, what, at, bytes)
    PROVE  /\ inBatch' \in Seq(Record) /\ Len(inBatch') = Len(inBatch) + 1
           /\ Len(inBatch) \in Nat /\ b' = bytes
           /\ Batched(kind)' = Append(Batched(kind), what)
           /\ \A k : k # kind => Batched(k)' = Batched(k)
<1>1. inBatch \in Seq(Record) /\ inBatch' = Append(inBatch, <<kind, what, at>>) /\ b' = bytes
  BY DEF TypeOK, Batches
<1>2. /\ inBatch' \in Seq(Record) /\ Len(inBatch') = Len(inBatch) + 1
      /\ Len(inBatch) \in Nat
  BY <1>1, AppendProperties, LenProperties
<1> DEFINE e == <<kind, what, at>>
<1>3. e \in Record /\ e[1] = kind /\ e[2] = what /\ inBatch' = Append(inBatch, e)
  BY <1>1
<1> HIDE DEF e
<1>4. \A k : Picks(inBatch', k) = IF e[1] = k THEN Append(Picks(inBatch, k), e[2])
                                  ELSE Picks(inBatch, k)
  BY <1>1, <1>3, PicksAppend
<1>5. \A k : Batched(k)' = IF kind = k THEN Append(Batched(k), what) ELSE Batched(k)
  BY <1>3, <1>4, BatchedPicks, BatchedPicksNext
<1> QED
  BY <1>1, <1>2, <1>5

\* The count that goes into the header is that of the records.
LEMMA Counts ==
    \A bt, f, mask, ts : /\ WithFrame(bt, f).count = bt.count + 1
                         /\ WithError(bt, mask, ts).count = bt.count + 1
                         /\ WithCalib(bt, ts).count = bt.count + 1
BY DEF WithFrame, WithError, WithCalib, WithStatus, Put

Kept == /\ TypeOK' /\ HandKept'
        /\ FramesLine' = FramesLine /\ MasksLine' = MasksLine
        /\ UNCHANGED <<rxHand, arrived, posted, dropped>>

\* pcan_rb_pop and the attempt to add what it gave (main.c:311-331).
LEMMA TakeKept ==
    ASSUME TypeOK, HandKept, pc \in {"pop", "drain"}, NEW l \in {"drain"},
           TakeFrame(l), UNCHANGED <<lastCalib, evts, host>>, TaskFrame
    PROVE  Kept
<1> DEFINE f == Head(ring)
<1>1. /\ ring # <<>> /\ ring \in Seq(Stamped) /\ ring' = Tail(ring)
      /\ f[1] \in Frames /\ f[2] \in Nat /\ ring' \in Seq(Stamped)
      /\ Firsts(ring) = <<f[1]>> \o Firsts(ring')
  BY FirstsHead DEF TypeOK, TakeFrame
<1>2. hand = <<>> /\ InHand("frame") = <<>> /\ InHand("error") = <<>>
  BY HandOf DEF HandKept
<1>3. /\ Parts(host.frames, Batched("frame"), <<>>, Firsts(ring'), Frames)
      /\ Parts(host.masks, Batched("error"), <<>>, evts, Masks)
  <2>1. Firsts(ring') \in Seq(Frames)
    BY <1>1, FirstsSeq
  <2> QED
    BY <1>2, <2>1, LineParts DEF Parts
<1>4. /\ host' = host /\ evts' = evts
      /\ UNCHANGED <<now, rxHand, arrived, posted, alerts, raised, dropped, lastCalib>>
  BY DEF TaskFrame, rxVars, ctrlVars
<1>5. Line(host.frames, Batched("frame"), <<>>, <<f[1]>> \o Firsts(ring')) = FramesLine
  BY <1>1, <1>2 DEF FramesLine
<1> HIDE DEF f
<1>6. CASE FrameFits(b, FrameAt(f[1], f[2]))
  <2>1. /\ Batches("frame", f[1], f[2], WithFrame(b, FrameAt(f[1], f[2])))
        /\ pc' = l /\ UNCHANGED <<ret, hand>>
    BY <1>6 DEF TakeFrame, f
  <2>2. <<"frame", f[1], f[2]>> \in Record
    BY <1>1 DEF Record
  <2>3. /\ inBatch' \in Seq(Record) /\ Len(inBatch') = Len(inBatch) + 1
        /\ Len(inBatch) \in Nat /\ b' = WithFrame(b, FrameAt(f[1], f[2]))
        /\ Batched("frame")' = Append(Batched("frame"), f[1])
        /\ Batched("error")' = Batched("error")
    BY <2>1, <2>2, BatchesPicks
  <2>4. b'.count = Len(inBatch')
    BY <2>3, Counts DEF TypeOK
  <2>5. InHand("frame")' = <<>> /\ InHand("error")' = <<>>
    BY <1>2, <2>1 DEF InHand
  <2>6. FramesLine' = FramesLine
    <3>1. FramesLine' = Line(host.frames, Append(Batched("frame"), f[1]), <<>>, Firsts(ring'))
      BY <1>4, <2>3, <2>5 DEF FramesLine, Firsts
    <3> QED
      BY <1>1, <1>3, <1>5, <3>1, LineTaken
  <2>7. MasksLine' = MasksLine
    BY <1>2, <1>4, <2>3, <2>5 DEF MasksLine
  <2>8. TypeOK'
    BY <1>1, <1>4, <2>1, <2>3, <2>4 DEF TypeOK, Pcs
  <2>9. HandKept'
    BY <1>2, <2>1 DEF HandKept
  <2> QED
    BY <1>4, <2>6, <2>7, <2>8, <2>9 DEF Kept
<1>7. CASE ~FrameFits(b, FrameAt(f[1], f[2]))
  <2>1. /\ pc' = "flush" /\ ret' = "add" /\ hand' = <<"frame", f[1], f[2]>>
        /\ UNCHANGED <<b, inBatch>>
    BY <1>7 DEF TakeFrame, f, FlushThen
  <2>2. /\ hand' \in Hands /\ hand' # <<>>
        /\ InHand("frame")' = <<f[1]>> /\ InHand("error")' = <<>>
    BY <1>1, <2>1 DEF Hands, InHand
  <2>3. Batched("frame")' = Batched("frame") /\ Batched("error")' = Batched("error")
    BY <2>1, BatchedPicks, BatchedPicksNext
  <2>4. FramesLine' = FramesLine
    <3>1. FramesLine' = Line(host.frames, Batched("frame"), <<f[1]>>, Firsts(ring'))
      BY <1>4, <2>2, <2>3 DEF FramesLine, Firsts
    <3> QED
      BY <1>1, <1>3, <1>5, <3>1, LineHeld
  <2>5. MasksLine' = MasksLine
    BY <1>2, <1>4, <2>2, <2>3 DEF MasksLine
  <2>6. TypeOK'
    BY <1>1, <1>4, <2>1, <2>2 DEF TypeOK, Pcs, Rets
  <2>7. HandKept'
    BY <2>1, <2>2 DEF HandKept
  <2> QED
    BY <1>4, <2>4, <2>5, <2>6, <2>7 DEF Kept
<1> QED
  BY <1>6, <1>7

\* The second attempt, behind the flush (main.c:315, 326, 360).
LEMMA AddKept == ASSUME TypeOK, HandKept, TaskAdd PROVE Kept
<1>1. /\ pc = "add" /\ hand # <<>> /\ hand' = <<>>
      /\ UNCHANGED <<ret, drained, lastCalib, ring, evts, host>>
      /\ UNCHANGED <<now, rxHand, arrived, posted, alerts, raised, dropped>>
  BY DEF TaskAdd, HandKept, TaskFrame, rxVars, ctrlVars
<1>2. InHand("frame")' = <<>> /\ InHand("error")' = <<>>
  BY <1>1 DEF InHand
<1>3. Firsts(ring)' = Firsts(ring)
  BY <1>1 DEF Firsts
<1>4. CASE hand[1] = "frame"
  <2>1. /\ hand[2] \in Frames /\ hand[3] \in Nat
        /\ InHand("frame") = <<hand[2]>> /\ InHand("error") = <<>>
    BY <1>1, <1>4, HandOf
  <2>2. /\ Batches("frame", hand[2], hand[3], WithFrame(b, FrameAt(hand[2], hand[3])))
        /\ pc' = "drain"
    BY <1>4 DEF TaskAdd
  <2>3. <<"frame", hand[2], hand[3]>> \in Record
    BY <2>1 DEF Record
  <2>4. /\ inBatch' \in Seq(Record) /\ Len(inBatch') = Len(inBatch) + 1
        /\ Len(inBatch) \in Nat /\ b' = WithFrame(b, FrameAt(hand[2], hand[3]))
        /\ Batched("frame")' = Append(Batched("frame"), hand[2])
        /\ Batched("error")' = Batched("error")
    BY <2>2, <2>3, BatchesPicks
  <2>5. b'.count = Len(inBatch')
    BY <2>4, Counts DEF TypeOK
  <2>6. FramesLine' = FramesLine
    <3>1. Parts(host.frames, Batched("frame"), <<>>, Firsts(ring), Frames)
      BY LineParts, EmptySeq DEF Parts
    <3>2. FramesLine' = Line(host.frames, Append(Batched("frame"), hand[2]), <<>>, Firsts(ring))
      BY <1>1, <1>2, <1>3, <2>4 DEF FramesLine
    <3>3. FramesLine = Line(host.frames, Batched("frame"), <<hand[2]>>, Firsts(ring))
      BY <2>1 DEF FramesLine
    <3> QED
      BY <2>1, <3>1, <3>2, <3>3, LineAdded
  <2>7. MasksLine' = MasksLine
    BY <1>1, <1>2, <2>1, <2>4 DEF MasksLine
  <2>8. TypeOK'
    BY <1>1, <2>2, <2>4, <2>5 DEF TypeOK, Pcs, Hands
  <2>9. HandKept'
    BY <1>1, <2>2 DEF HandKept
  <2> QED
    BY <1>1, <2>6, <2>7, <2>8, <2>9 DEF Kept
<1>5. CASE hand[1] = "error"
  <2>1. /\ hand[2] \in Masks
        /\ InHand("error") = <<hand[2]>> /\ InHand("frame") = <<>>
    BY <1>1, <1>5, HandOf
  <2>2. /\ Batches("error", hand[2], now, WithError(b, hand[2], now % WordMod))
        /\ pc' = "events"
    BY <1>5 DEF TaskAdd
  <2>3. <<"error", hand[2], now>> \in Record
    BY <2>1 DEF Record, TypeOK
  <2>4. /\ inBatch' \in Seq(Record) /\ Len(inBatch') = Len(inBatch) + 1
        /\ Len(inBatch) \in Nat /\ b' = WithError(b, hand[2], now % WordMod)
        /\ Batched("error")' = Append(Batched("error"), hand[2])
        /\ Batched("frame")' = Batched("frame")
    BY <2>2, <2>3, BatchesPicks
  <2>5. b'.count = Len(inBatch')
    BY <2>4, Counts DEF TypeOK
  <2>6. MasksLine' = MasksLine
    <3>1. Parts(host.masks, Batched("error"), <<>>, evts, Masks)
      BY LineParts, EmptySeq DEF Parts
    <3>2. MasksLine' = Line(host.masks, Append(Batched("error"), hand[2]), <<>>, evts)
      BY <1>1, <1>2, <2>4 DEF MasksLine
    <3>3. MasksLine = Line(host.masks, Batched("error"), <<hand[2]>>, evts)
      BY <2>1 DEF MasksLine
    <3> QED
      BY <2>1, <3>1, <3>2, <3>3, LineAdded
  <2>7. FramesLine' = FramesLine
    BY <1>1, <1>2, <1>3, <2>1, <2>4 DEF FramesLine
  <2>8. TypeOK'
    BY <1>1, <2>2, <2>4, <2>5 DEF TypeOK, Pcs, Hands
  <2>9. HandKept'
    BY <1>1, <2>2 DEF HandKept
  <2> QED
    BY <1>1, <2>6, <2>7, <2>8, <2>9 DEF Kept
<1> QED
  BY <1>1, <1>4, <1>5, HandOf


\* Posted masks are folded in, or taken into the hand (main.c:356-364).
LEMMA EventKept == ASSUME TypeOK, HandKept, TaskEvent PROVE Kept
<1> DEFINE f == Head(evts)
<1>1. /\ pc = "events" /\ evts # <<>> /\ evts \in Seq(Masks) /\ evts' = Tail(evts)
      /\ f \in Masks /\ evts' \in Seq(Masks) /\ evts = <<f>> \o evts'
      /\ UNCHANGED <<drained, lastCalib, ring, host>>
      /\ UNCHANGED <<now, rxHand, arrived, posted, alerts, raised, dropped>>
  <2>1. /\ pc = "events" /\ evts # <<>> /\ evts \in Seq(Masks) /\ evts' = Tail(evts)
        /\ UNCHANGED <<drained, lastCalib, ring, host>>
        /\ UNCHANGED <<now, rxHand, arrived, posted, alerts, raised, dropped>>
    BY DEF TypeOK, TaskEvent, TaskFrame, rxVars, ctrlVars
  <2>2. f \in Masks /\ Tail(evts) \in Seq(Masks)
    BY <2>1, HeadTailProperties
  <2>3. evts = <<f>> \o Tail(evts)
    BY <2>1, Singles
  <2> QED
    BY <2>1, <2>2, <2>3
<1>2. hand = <<>> /\ InHand("frame") = <<>> /\ InHand("error") = <<>>
  BY <1>1, HandOf DEF HandKept
<1>3. Firsts(ring)' = Firsts(ring)
  BY <1>1 DEF Firsts
<1>4. Parts(host.masks, Batched("error"), <<>>, evts', Masks)
  BY <1>1, <1>2, LineParts DEF Parts
<1>5. Line(host.masks, Batched("error"), <<>>, <<f>> \o evts') = MasksLine
  BY <1>1, <1>2 DEF MasksLine
<1> HIDE DEF f
<1>6. CASE ErrorFits(b)
  <2>1. /\ Batches("error", f, now, WithError(b, f, now % WordMod))
        /\ UNCHANGED <<pc, ret, hand>>
    BY <1>6 DEF TaskEvent, f
  <2>2. <<"error", f, now>> \in Record
    BY <1>1 DEF Record, TypeOK
  <2>3. /\ inBatch' \in Seq(Record) /\ Len(inBatch') = Len(inBatch) + 1
        /\ Len(inBatch) \in Nat /\ b' = WithError(b, f, now % WordMod)
        /\ Batched("error")' = Append(Batched("error"), f)
        /\ Batched("frame")' = Batched("frame")
    BY <2>1, <2>2, BatchesPicks
  <2>4. b'.count = Len(inBatch')
    BY <2>3, Counts DEF TypeOK
  <2>5. InHand("frame")' = <<>> /\ InHand("error")' = <<>>
    BY <1>2, <2>1 DEF InHand
  <2>6. MasksLine' = MasksLine
    <3>1. MasksLine' = Line(host.masks, Append(Batched("error"), f), <<>>, evts')
      BY <1>1, <2>3, <2>5 DEF MasksLine
    <3>2. f \in Masks
      BY <1>1
    <3> QED
      BY <1>4, <1>5, <3>1, <3>2, LineTaken
  <2>7. FramesLine' = FramesLine
    BY <1>1, <1>2, <1>3, <2>3, <2>5 DEF FramesLine
  <2>8. TypeOK'
    BY <1>1, <2>1, <2>3, <2>4 DEF TypeOK
  <2>9. HandKept'
    BY <1>1, <1>2, <2>1 DEF HandKept
  <2> QED
    BY <1>1, <2>6, <2>7, <2>8, <2>9 DEF Kept
<1>7. CASE ~ErrorFits(b)
  <2>1. /\ pc' = "flush" /\ ret' = "add" /\ hand' = <<"error", f>>
        /\ UNCHANGED <<b, inBatch>>
    BY <1>7 DEF TaskEvent, f, FlushThen
  <2>2. /\ hand' \in Hands /\ hand' # <<>>
        /\ InHand("error")' = <<f>> /\ InHand("frame")' = <<>>
    BY <1>1, <2>1 DEF Hands, InHand
  <2>3. Batched("frame")' = Batched("frame") /\ Batched("error")' = Batched("error")
    BY <2>1, BatchedPicks, BatchedPicksNext
  <2>4. MasksLine' = MasksLine
    <3>1. MasksLine' = Line(host.masks, Batched("error"), <<f>>, evts')
      BY <1>1, <2>2, <2>3 DEF MasksLine
    <3>2. f \in Masks
      BY <1>1
    <3> QED
      BY <1>4, <1>5, <3>1, <3>2, LineHeld
  <2>5. FramesLine' = FramesLine
    BY <1>1, <1>2, <1>3, <2>2, <2>3 DEF FramesLine
  <2>6. TypeOK'
    BY <1>1, <2>1, <2>2 DEF TypeOK, Pcs, Rets
  <2>7. HandKept'
    BY <2>1, <2>2 DEF HandKept
  <2> QED
    BY <1>1, <2>4, <2>5, <2>6, <2>7 DEF Kept
<1> QED
  BY <1>6, <1>7

\* The batch goes to the host, and is emptied (main.c:265-272).
LEMMA FlushKept == ASSUME TypeOK, HandKept, TaskFlushed PROVE Kept
<1>1. /\ pc = "flush" /\ pc' = ret /\ b' = EmptyBatch /\ inBatch' = <<>>
      /\ UNCHANGED <<ret, hand, drained, lastCalib, ring, evts>>
      /\ UNCHANGED <<now, rxHand, arrived, posted, alerts, raised, dropped>>
  BY DEF TaskFlushed, TaskFrame, rxVars, ctrlVars
<1>2. /\ host'.frames = host.frames \o Batched("frame")
      /\ host'.masks = host.masks \o Batched("error")
      /\ host'.calib \in {now, host.calib}
      /\ host' = [frames |-> host'.frames, masks |-> host'.masks, calib |-> host'.calib]
  BY DEF TaskFlushed
<1>3. Batched("frame")' = <<>> /\ Batched("error")' = <<>>
  BY <1>1, PicksEmpty, BatchedPicksNext
<1>4. /\ Firsts(ring)' = Firsts(ring)
      /\ \A kind : InHand(kind)' = InHand(kind)
  BY <1>1 DEF Firsts, InHand
<1>5. /\ Line(host.frames \o Batched("frame"), <<>>, InHand("frame"), Firsts(ring)) = FramesLine
      /\ host.frames \o Batched("frame") \in Seq(Frames)
  BY LineParts, LineFlushed DEF FramesLine
<1>6. /\ Line(host.masks \o Batched("error"), <<>>, InHand("error"), evts) = MasksLine
      /\ host.masks \o Batched("error") \in Seq(Masks)
  BY LineParts, LineFlushed DEF MasksLine
<1>7. FramesLine' = FramesLine
  BY <1>2, <1>3, <1>4, <1>5 DEF FramesLine
<1>8. MasksLine' = MasksLine
  BY <1>1, <1>2, <1>3, <1>4, <1>6 DEF MasksLine
<1>9. host' \in HostType
  <2>1. host'.frames \in Seq(Frames) /\ host'.masks \in Seq(Masks) /\ host'.calib \in Nat
    BY <1>2, <1>5, <1>6 DEF TypeOK, HostType
  <2> QED
    BY <1>2, <2>1 DEF HostType
<1>10. inBatch' \in Seq(Record) /\ b'.count = Len(inBatch')
  BY <1>1, EmptySeq DEF EmptyBatch
<1>11. TypeOK'
  <2>1. pc' \in Pcs
    BY <1>1 DEF TypeOK, Rets, Pcs
  <2> QED
    BY <1>1, <1>9, <1>10, <2>1 DEF TypeOK
<1>12. HandKept'
  BY <1>1 DEF HandKept, TypeOK, Rets
<1> QED
  BY <1>1, <1>7, <1>8, <1>11, <1>12 DEF Kept

\* The calibration record is put in; it is neither frame nor mask.
LEMMA CalibKept == ASSUME TypeOK, HandKept, TaskCalib PROVE Kept
<1>1. /\ pc = "calib" /\ pc' = "flush" /\ ret' = "anchored"
      /\ Batches("calib", 0, now, WithCalib(b, now % WordMod))
      /\ UNCHANGED <<hand, drained, lastCalib, ring, evts, host>>
      /\ UNCHANGED <<now, rxHand, arrived, posted, alerts, raised, dropped>>
  BY DEF TaskCalib, FlushThen, TaskFrame, rxVars, ctrlVars
<1>2. <<"calib", 0, now>> \in Record
  BY DEF Record, TypeOK
<1>3. /\ inBatch' \in Seq(Record) /\ Len(inBatch') = Len(inBatch) + 1
      /\ Len(inBatch) \in Nat /\ b' = WithCalib(b, now % WordMod)
      /\ Batched("frame")' = Batched("frame") /\ Batched("error")' = Batched("error")
  BY <1>1, <1>2, BatchesPicks
<1>4. b'.count = Len(inBatch')
  BY <1>3, Counts DEF TypeOK
<1>5. /\ Firsts(ring)' = Firsts(ring)
      /\ \A kind : InHand(kind)' = InHand(kind)
  BY <1>1 DEF Firsts, InHand
<1>6. FramesLine' = FramesLine /\ MasksLine' = MasksLine
  BY <1>1, <1>3, <1>5 DEF FramesLine, MasksLine
<1>7. TypeOK'
  BY <1>1, <1>3, <1>4 DEF TypeOK, Pcs, Rets
<1>8. HandKept'
  BY <1>1 DEF HandKept
<1> QED
  BY <1>1, <1>6, <1>7, <1>8 DEF Kept

\* The steps that only go on.
LEMMA PlainKept ==
    ASSUME TypeOK, HandKept,
           TaskPopTimeout \/ TaskDrained \/ TaskCheck \/ TaskAnchored
               \/ TaskEventsDone \/ TaskNothing
    PROVE  Kept
<1>1. /\ UNCHANGED <<hand, b, inBatch, ring, evts, host>>
      /\ UNCHANGED <<now, rxHand, arrived, posted, alerts, raised, dropped>>
  BY DEF TaskPopTimeout, TaskDrained, TaskCheck, TaskAnchored, TaskEventsDone,
         TaskNothing, TaskFrame, rxVars, ctrlVars
<1>2. lastCalib' \in {now, lastCalib}
  BY DEF TaskPopTimeout, TaskDrained, TaskCheck, TaskAnchored, TaskEventsDone, TaskNothing
<1>3. /\ Firsts(ring)' = Firsts(ring)
      /\ \A kind : InHand(kind)' = InHand(kind)
  BY <1>1 DEF Firsts, InHand
<1>4. \A kind : Batched(kind)' = Batched(kind)
  BY <1>1, BatchedPicks, BatchedPicksNext
<1>5. FramesLine' = FramesLine /\ MasksLine' = MasksLine
  BY <1>1, <1>3, <1>4 DEF FramesLine, MasksLine
<1>6. /\ pc' \in Pcs /\ ret' \in Rets
      /\ (pc = "add" \/ (pc = "flush" /\ ret = "add"))
            <=> (pc' = "add" \/ (pc' = "flush" /\ ret' = "add"))
  BY DEF TypeOK, Pcs, Rets, FlushThen, TaskPopTimeout, TaskDrained, TaskCheck,
         TaskAnchored, TaskEventsDone, TaskNothing
<1>7. TypeOK'
  BY <1>1, <1>2, <1>6 DEF TypeOK
<1>8. HandKept'
  BY <1>1, <1>6 DEF HandKept
<1> QED
  BY <1>1, <1>5, <1>7, <1>8 DEF Kept

\* usb_tx_task keeps what is on the way in its place.
LEMMA TaskKept == ASSUME TypeOK, HandKept, TaskStep PROVE Kept
<1>1. CASE TaskPop
  BY <1>1, TakeKept DEF TaskPop
<1>2. CASE TaskDrain
  BY <1>2, TakeKept DEF TaskDrain
<1> QED
  BY <1>1, <1>2, AddKept, EventKept, FlushKept, CalibKept, PlainKept DEF TaskStep

-----------------------------------------------------------------------------
(* Nothing is lost, repeated or reordered.                                 *)

Increasing(s) == \A i, j \in DOMAIN s : i < j => s[i] < s[j]

\* A frame that is later than all others comes last; and may be taken back.
LEMMA Grows ==
    ASSUME NEW s \in Seq(Nat), NEW f \in Nat
    PROVE  /\ Elements(Append(s, f)) = Elements(s) \cup {f}
           /\ Increasing(s) /\ (\A x \in Elements(s) : x < f) => Increasing(Append(s, f))
           /\ Increasing(Append(s, f)) => Increasing(s)
<1> DEFINE n == Len(s)
           t == Append(s, f)
<1>1. /\ n \in Nat /\ DOMAIN s = 1..n /\ DOMAIN t = 1..n + 1
      /\ t[n + 1] = f /\ \A i \in 1..n : t[i] = s[i] /\ s[i] \in Nat
  BY AppendProperties, LenProperties, ElementOfSeq
<1> HIDE DEF n, t
<1>2. Elements(t) = Elements(s) \cup {f}
  <2>1. \A i \in 1..n + 1 : i = n + 1 \/ i \in 1..n
    BY <1>1
  <2>2. \A i \in 1..n : i \in 1..n + 1
    BY <1>1
  <2>3. n + 1 \in 1..n + 1
    BY <1>1
  <2> QED
    BY <1>1, <2>1, <2>2, <2>3 DEF Elements
<1>3. ASSUME Increasing(s), \A x \in Elements(s) : x < f PROVE Increasing(t)
  <2> SUFFICES ASSUME NEW i \in 1..n + 1, NEW j \in 1..n + 1, i < j PROVE t[i] < t[j]
    BY <1>1 DEF Increasing
  <2>1. i \in 1..n
    BY <1>1
  <2>2. s[i] \in Elements(s)
    BY <1>1, <2>1 DEF Elements
  <2>3. CASE j = n + 1
    BY <1>1, <1>3, <2>1, <2>2, <2>3
  <2>4. CASE j \in 1..n
    BY <1>1, <1>3, <2>1, <2>4 DEF Increasing
  <2> QED
    BY <1>1, <2>3, <2>4
<1>4. ASSUME Increasing(t) PROVE Increasing(s)
  BY <1>1, <1>4 DEF Increasing
<1> QED
  BY <1>2, <1>3, <1>4 DEF t

\* The frames on the way, the one twai_rx_task has in its hand last.
Way == IF rxHand = <<>> THEN FramesLine ELSE Append(FramesLine, rxHand[1])

\* How this says what RecordsInOrder says.
LEMMA OnTheWay ==
    ASSUME TypeOK
    PROVE  /\ FramesOnTheWay = Way /\ FramesLine \in Seq(Nat)
           /\ host.masks \o Batched("error") \o InHand("error") \o evts = MasksLine
           /\ rxHand # <<>> => rxHand \in Stamped /\ rxHand[1] \in Nat
<1>1. Frames \subseteq Nat
  BY UsbTxAssumption, LenProperties DEF Frames
<1>2. FramesLine \in Seq(Frames)
  BY LineParts, LineType DEF FramesLine
<1>3. FramesLine \in Seq(Nat)
  <2>1. PICK n \in Nat : FramesLine \in [1..n -> Frames]
    BY <1>2, SeqDef
  <2>2. FramesLine \in [1..n -> Nat]
    BY <1>1, <2>1
  <2> QED
    BY <2>2, SeqDef
<1>4. rxHand # <<>> => rxHand \in Stamped /\ rxHand[1] \in Nat
  BY <1>1 DEF TypeOK, Stamped
<1>5. FramesOnTheWay = FramesLine \o (IF rxHand = <<>> THEN <<>> ELSE <<rxHand[1]>>)
  BY DEF FramesOnTheWay, FramesLine, Line, Firsts
<1>6. CASE rxHand = <<>>
  <2>1. FramesLine \o <<>> = FramesLine
    BY <1>3, ConcatEmptySeq
  <2> QED
    BY <1>3, <1>5, <1>6, <2>1 DEF Way, MasksLine, Line
<1>7. CASE rxHand # <<>>
  <2>1. Append(FramesLine, rxHand[1]) = FramesLine \o <<rxHand[1]>>
    BY <1>3, <1>4, <1>7, Singles
  <2> QED
    BY <1>3, <1>4, <1>5, <1>7, <2>1 DEF Way, MasksLine, Line
<1> QED
  BY <1>6, <1>7

Ordered == /\ Increasing(Way)
           /\ Elements(Way) \cup dropped.frames = 1..arrived
           /\ posted = MasksLine

RecordsInv == TypeOK /\ HandKept /\ Ordered

\* It is what the system starts with,
LEMMA RecordsInit == Init => RecordsInv
<1> SUFFICES ASSUME Init PROVE RecordsInv
  OBVIOUS
<1> USE DEF Init
<1>1. \A S : <<>> \in Seq(S) /\ Len(<<>>) = 0
  BY EmptySeq
<1>2. TypeOK
  <2>1. Len(Shapes) \in Nat
    BY UsbTxAssumption, LenProperties
  <2> QED
    BY <1>1, <2>1 DEF TypeOK, Pcs, Rets, Hands, HostType, EmptyBatch
<1>3. HandKept
  BY DEF HandKept
<1>4. Batched("frame") = <<>> /\ Batched("error") = <<>>
  BY PicksEmpty, BatchedPicks
<1>5. InHand("frame") = <<>> /\ InHand("error") = <<>> /\ Firsts(ring) = <<>>
  BY <1>1 DEF InHand, Firsts
<1>6. \A S : Line(<<>>, <<>>, <<>>, <<>>) = <<>>
  BY <1>1, ConcatEmptySeq DEF Line
<1>7. FramesLine = <<>> /\ MasksLine = <<>>
  BY <1>4, <1>5, <1>6 DEF FramesLine, MasksLine
<1>8. Way = <<>> /\ Increasing(<<>>) /\ Elements(<<>>) = {}
  BY <1>7 DEF Way, Increasing, Elements
<1> QED
  BY <1>2, <1>3, <1>7, <1>8 DEF RecordsInv, Ordered

\* twai_rx_task adds a frame at the end,
LEMMA StampOrdered == ASSUME RecordsInv, RxStamp PROVE RecordsInv'
<1> USE DEF RecordsInv
<1>1. /\ rxHand = <<>> /\ arrived + 1 \in Frames /\ arrived' = arrived + 1
      /\ rxHand' = <<arrived + 1, now>>
      /\ UNCHANGED <<ring, dropped, now, alerts, raised, posted, evts, pc, ret, hand,
                     drained, lastCalib, b, inBatch, host>>
  BY DEF RxStamp, RxFrame, ctrlVars, taskVars
<1>2. TypeOK'
  <2>1. /\ arrived + 1 \in 1..Len(Shapes) /\ rxHand' \in Stamped
        /\ arrived' \in Nat /\ arrived' <= Len(Shapes)
    <3>1. Len(Shapes) \in Nat /\ Frames = 1..Len(Shapes)
      BY UsbTxAssumption, LenProperties DEF Frames
    <3>2. now \in Nat /\ arrived \in Nat
      BY DEF TypeOK
    <3>3. arrived + 1 \in 1..Len(Shapes)
      BY <1>1, <3>1
    <3>4. rxHand' \in Stamped
      BY <1>1, <3>2 DEF Stamped
    <3> QED
      BY <1>1, <3>1, <3>2, <3>3, <3>4
  <2> QED
    BY <1>1, <2>1 DEF TypeOK
<1>3. HandKept'
  BY <1>1 DEF HandKept
<1>4. FramesLine' = FramesLine /\ MasksLine' = MasksLine
  <2>1. \A kind : Batched(kind)' = Batched(kind)
    BY <1>1, BatchedPicks, BatchedPicksNext
  <2> QED
    BY <1>1, <2>1 DEF FramesLine, MasksLine, InHand, Firsts
<1>5. /\ Way = FramesLine /\ Way' = Append(FramesLine, arrived + 1)
      /\ FramesLine \in Seq(Nat) /\ arrived \in Nat
  <2>1. rxHand' # <<>> /\ rxHand'[1] = arrived + 1
    BY <1>1
  <2> QED
    BY <1>1, <1>4, <2>1, OnTheWay DEF Way, TypeOK
<1>6. /\ Elements(Way') = Elements(Way) \cup {arrived + 1}
      /\ Increasing(Way) /\ (\A x \in Elements(Way) : x < arrived + 1) => Increasing(Way')
  BY <1>5, Grows
<1>7. \A x \in Elements(Way) : x < arrived + 1
  BY <1>5 DEF Ordered
<1>8. 1..arrived + 1 = 1..arrived \cup {arrived + 1}
  BY <1>5
<1>9. Ordered'
  <2>1. Increasing(Way')
    BY <1>6, <1>7 DEF Ordered
  <2>2. Elements(Way') \cup dropped'.frames = 1..arrived'
    BY <1>1, <1>6, <1>8 DEF Ordered
  <2>3. posted' = MasksLine'
    BY <1>1, <1>4 DEF Ordered
  <2> QED
    BY <2>1, <2>2, <2>3 DEF Ordered
<1> QED
  BY <1>2, <1>3, <1>9

\* and puts it into the ring, or counts it as dropped;
LEMMA PushOrdered == ASSUME RecordsInv, RxPush PROVE RecordsInv'
<1> USE DEF RecordsInv
<1>1. /\ rxHand # <<>> /\ rxHand' = <<>>
      /\ UNCHANGED <<arrived, now, alerts, raised, posted, evts, pc, ret, hand,
                     drained, lastCalib, b, inBatch, host>>
      /\ \/ ring' = Append(ring, rxHand) /\ dropped' = dropped
         \/ /\ dropped' = [dropped EXCEPT !.frames = @ \cup {rxHand[1]}]
            /\ ring' = ring
  BY DEF RxPush, RxFrame, ctrlVars, taskVars
<1>2. /\ rxHand \in Stamped /\ rxHand[1] \in Nat /\ rxHand[1] \in Frames
      /\ FramesLine \in Seq(Nat) /\ ring \in Seq(Stamped)
  BY <1>1, OnTheWay DEF TypeOK, Stamped
<1>3. Way = Append(FramesLine, rxHand[1]) /\ Way' = FramesLine'
  BY <1>1 DEF Way
<1>4. \A kind : Batched(kind)' = Batched(kind) /\ InHand(kind)' = InHand(kind)
  BY <1>1, BatchedPicks, BatchedPicksNext DEF InHand
<1>5. MasksLine' = MasksLine
  BY <1>1, <1>4 DEF MasksLine
<1>6. HandKept'
  BY <1>1 DEF HandKept
<1>7. Elements(Way) = Elements(FramesLine) \cup {rxHand[1]} /\ Increasing(FramesLine)
  BY <1>2, <1>3, Grows DEF Ordered
<1>8. CASE ring' = Append(ring, rxHand) /\ dropped' = dropped
  <2>1. /\ ring' \in Seq(Stamped)
        /\ Firsts(ring') = Append(Firsts(ring), rxHand[1])
    BY <1>2, <1>8, FirstsAppend
  <2>2. TypeOK'
    BY <1>1, <1>8, <2>1 DEF TypeOK
  <2>3. FramesLine' = Append(FramesLine, rxHand[1])
    <3>1. FramesLine' = Line(host.frames, Batched("frame"), InHand("frame"),
                             Append(Firsts(ring), rxHand[1]))
      BY <1>1, <1>4, <2>1 DEF FramesLine, Firsts
    <3>2. Parts(host.frames, Batched("frame"), InHand("frame"), Firsts(ring), Frames)
      BY LineParts
    <3> QED
      BY <1>2, <3>1, <3>2, LineJoined DEF FramesLine
  <2>4. Ordered'
    BY <1>1, <1>3, <1>5, <1>8, <2>3 DEF Ordered
  <2> QED
    BY <1>6, <2>2, <2>4
<1>9. CASE /\ dropped' = [dropped EXCEPT !.frames = @ \cup {rxHand[1]}]
           /\ ring' = ring
  <2>1. dropped' \in [frames : SUBSET Frames, masks : Nat]
            /\ dropped'.frames = dropped.frames \cup {rxHand[1]}
    BY <1>2, <1>9 DEF TypeOK
  <2>2. TypeOK'
    BY <1>1, <1>9, <2>1 DEF TypeOK
  <2>3. FramesLine' = FramesLine
    BY <1>1, <1>4, <1>9 DEF FramesLine, Firsts
  <2>4. Ordered'
    BY <1>1, <1>3, <1>5, <1>7, <2>1, <2>3 DEF Ordered
  <2> QED
    BY <1>6, <2>2, <2>4
<1> QED
  BY <1>1, <1>8, <1>9

\* ctrl_task posts a mask at the end of its queue.
LEMMA ServiceOrdered == ASSUME RecordsInv, CtrlService PROVE RecordsInv'
<1> USE DEF RecordsInv
<1> DEFINE mask == UNION {BitOf[a] : a \in alerts}
<1>1. /\ alerts' = {}
      /\ UNCHANGED <<now, arrived, rxHand, ring, raised, pc, ret, hand, drained,
                     lastCalib, b, inBatch, host>>
      /\ \/ UNCHANGED <<evts, posted, dropped>>
         \/ evts' = Append(evts, mask) /\ posted' = Append(posted, mask) /\ UNCHANGED dropped
         \/ dropped' = [dropped EXCEPT !.masks = @ + 1] /\ UNCHANGED <<evts, posted>>
  BY DEF CtrlService, rxVars, taskVars
<1>2. mask \in Masks
  <2>1. \A a \in alerts : BitOf[a] \subseteq {"RXQOVR", "BUS_LIGHT", "BUS_HEAVY", "BUS_OFF"}
    BY UsbTxAssumption DEF TypeOK, BitOf
  <2> QED
    BY <2>1 DEF Masks
<1> HIDE DEF mask
<1>3. /\ dropped' \in [frames : SUBSET Frames, masks : Nat]
      /\ dropped'.frames = dropped.frames
  BY <1>1 DEF TypeOK
<1>4. \A kind : Batched(kind)' = Batched(kind) /\ InHand(kind)' = InHand(kind)
  BY <1>1, BatchedPicks, BatchedPicksNext DEF InHand
<1>5. FramesLine' = FramesLine
  BY <1>1, <1>4 DEF FramesLine, Firsts
<1>6. evts' \in Seq(Masks) /\ posted' \in Seq(Masks)
  <2>1. evts \in Seq(Masks) /\ posted \in Seq(Masks)
    BY DEF TypeOK
  <2>2. Append(evts, mask) \in Seq(Masks) /\ Append(posted, mask) \in Seq(Masks)
    BY <1>2, <2>1, AppendProperties
  <2> QED
    BY <1>1, <2>1, <2>2
<1>7. posted' = MasksLine'
  <2>1. Parts(host.masks, Batched("error"), InHand("error"), evts, Masks)
    BY LineParts
  <2>2. MasksLine' = Line(host.masks, Batched("error"), InHand("error"), evts')
    BY <1>1, <1>4 DEF MasksLine
  <2>3. Line(host.masks, Batched("error"), InHand("error"), Append(evts, mask))
            = Append(MasksLine, mask)
    BY <1>2, <2>1, LineJoined DEF MasksLine
  <2> QED
    BY <1>1, <2>2, <2>3 DEF Ordered, MasksLine
<1>8. TypeOK'
  BY <1>1, <1>3, <1>6 DEF TypeOK
<1>9. HandKept'
  BY <1>1 DEF HandKept
<1>10. Ordered'
  BY <1>1, <1>3, <1>5, <1>7 DEF Ordered, Way
<1> QED
  BY <1>8, <1>9, <1>10

\* What else happens leaves it alone.
LEMMA RestOrdered ==
    ASSUME RecordsInv, Tick \/ DrvAlert \/ UNCHANGED vars PROVE RecordsInv'
<1> USE DEF RecordsInv
<1>1. /\ UNCHANGED <<arrived, rxHand, ring, posted, evts, pc, ret, hand, drained,
                     lastCalib, b, inBatch, host, dropped>>
      /\ now' \in {now, now + 1}
      /\ \E A \in SUBSET Kinds : alerts' = alerts \cup A
  <2>1. /\ UNCHANGED <<arrived, rxHand, ring, posted, evts, pc, ret, hand, drained,
                       lastCalib, b, inBatch, host, dropped>>
        /\ now' \in {now, now + 1}
    BY DEF Tick, DrvAlert, vars, rxVars, ctrlVars, taskVars
  <2>2. CASE alerts' = alerts
    <3>1. alerts' = alerts \cup {} /\ {} \in SUBSET Kinds
      BY <2>2
    <3> QED
      BY <2>1, <3>1
  <2>3. CASE DrvAlert
    <3>1. PICK a \in Kinds : alerts' = alerts \cup {a}
      BY <2>3 DEF DrvAlert
    <3>2. {a} \in SUBSET Kinds
      BY <3>1
    <3> QED
      BY <2>1, <3>1, <3>2
  <2>4. Tick \/ UNCHANGED vars => alerts' = alerts
    BY DEF Tick, vars, ctrlVars
  <2> QED
    BY <2>2, <2>3, <2>4
<1>2. \A kind : Batched(kind)' = Batched(kind) /\ InHand(kind)' = InHand(kind)
  BY <1>1, BatchedPicks, BatchedPicksNext DEF InHand
<1>3. FramesLine' = FramesLine /\ MasksLine' = MasksLine
  BY <1>1, <1>2 DEF FramesLine, MasksLine, Firsts
<1>4. TypeOK'
  <2>1. alerts' \subseteq Kinds
    BY <1>1 DEF TypeOK
  <2>2. now' \in Nat /\ lastCalib' <= now'
    BY <1>1 DEF TypeOK
  <2> QED
    BY <1>1, <2>1, <2>2 DEF TypeOK
<1>5. HandKept'
  BY <1>1 DEF HandKept
<1>6. Ordered'
  BY <1>1, <1>3 DEF Ordered, Way
<1> QED
  BY <1>4, <1>5, <1>6

\* Every step keeps it.
LEMMA RecordsNext == RecordsInv /\ [Next]_vars => RecordsInv'
<1> SUFFICES ASSUME RecordsInv, [Next]_vars PROVE RecordsInv'
  OBVIOUS
<1>1. CASE TaskStep
  <2>1. Kept
    BY <1>1, TaskKept DEF RecordsInv
  <2>2. Way' = Way
    BY <2>1 DEF Kept, Way
  <2> QED
    BY <2>1, <2>2 DEF Kept, RecordsInv, Ordered
<1> QED
  BY <1>1, StampOrdered, PushOrdered, ServiceOrdered, RestOrdered DEF Next

\* usb_tx_task, its queues and its batch: no refusal and no flush loses a
\* record, repeats it or puts it out of its order (main.c:235, 311-331,
\* 357-364).
THEOREM Records == Spec => []RecordsInOrder
<1>1. RecordsInv => RecordsInOrder
  BY OnTheWay DEF RecordsInv, Ordered, RecordsInOrder, Increasing
<1>2. Spec => []RecordsInv
  BY RecordsInit, RecordsNext, PTL DEF Spec
<1> QED
  BY <1>1, <1>2, PTL

-----------------------------------------------------------------------------
(* Calibration.  last_calib_us is read before the flush that makes room    *)
(* for the record and set behind the one that carries it: what is between  *)
(* may take any time.                                                      *)

\* A calibration record is in the batch only while it is being flushed.
CalibAlone == Batched("calib") # <<>> => pc = "flush" /\ ret = "anchored"

\* The period is over as long as the record is not with the host, and the
\* time it came is not later than what the next period begins with.
Pace == /\ host.calib <= now
        /\ pc # "anchored" => host.calib <= lastCalib
        /\ pc = "calib" \/ (pc = "flush" /\ ret \in {"calib", "anchored"})
               => now >= lastCalib + CalibPeriod

PaceInv == RecordsInv /\ CalibAlone /\ Pace

\* Who puts a calibration record into the batch, and who takes it out.
LEMMA CalibPicks ==
    ASSUME RecordsInv, TaskStep
    PROVE  \/ TaskCalib
           \/ TaskFlushed /\ Batched("calib")' = <<>>
           \/ ~TaskFlushed /\ Batched("calib")' = Batched("calib")
<1> USE DEF RecordsInv
<1>1. ASSUME UNCHANGED inBatch PROVE Batched("calib")' = Batched("calib")
  BY <1>1, BatchedPicks, BatchedPicksNext
<1>2. ASSUME NEW l \in {"drain"}, TakeFrame(l) PROVE Batched("calib")' = Batched("calib")
  <2> DEFINE f == Head(ring)
  <2>1. CASE FrameFits(b, FrameAt(f[1], f[2]))
    <3>1. Batches("frame", f[1], f[2], WithFrame(b, FrameAt(f[1], f[2])))
      BY <1>2, <2>1 DEF TakeFrame
    <3>2. <<"frame", f[1], f[2]>> \in Record
      <4>1. ring \in Seq(Stamped) /\ ring # <<>>
        BY <1>2 DEF TypeOK, TakeFrame
      <4>2. f[1] \in Frames /\ f[2] \in Nat
        BY <4>1, FirstsHead
      <4> QED
        BY <4>2 DEF Record
    <3> HIDE DEF f
    <3> QED
      BY <3>1, <3>2, BatchesPicks
  <2>2. CASE ~FrameFits(b, FrameAt(f[1], f[2]))
    <3>1. UNCHANGED inBatch
      BY <1>2, <2>2 DEF TakeFrame
    <3> QED
      BY <1>1, <3>1
  <2> QED
    BY <2>1, <2>2
<1>3. CASE TaskPop \/ TaskDrain
  <2>1. TakeFrame("drain") /\ ~TaskFlushed
    BY <1>3 DEF TaskPop, TaskDrain, TaskFlushed
  <2> QED
    BY <1>2, <2>1
<1>4. CASE TaskAdd
  <2>1. hand # <<>> /\ ~TaskFlushed
    BY <1>4 DEF TaskAdd, HandKept, TaskFlushed
  <2>2. CASE hand[1] = "frame"
    <3>1. hand[2] \in Frames /\ hand[3] \in Nat
      BY <2>1, <2>2, HandOf
    <3>2. /\ <<"frame", hand[2], hand[3]>> \in Record
          /\ Batches("frame", hand[2], hand[3], WithFrame(b, FrameAt(hand[2], hand[3])))
      BY <1>4, <2>2, <3>1 DEF Record, TaskAdd
    <3> QED
      BY <2>1, <3>2, BatchesPicks
  <2>3. CASE hand[1] # "frame"
    <3>1. hand[2] \in Masks
      BY <2>1, <2>3, HandOf
    <3>2. /\ <<"error", hand[2], now>> \in Record
          /\ Batches("error", hand[2], now, WithError(b, hand[2], now % WordMod))
      BY <1>4, <2>3, <3>1 DEF Record, TaskAdd, TypeOK
    <3> QED
      BY <2>1, <3>2, BatchesPicks
  <2> QED
    BY <2>2, <2>3
<1>5. CASE TaskEvent
  <2> DEFINE f == Head(evts)
  <2>1. f \in Masks /\ ~TaskFlushed
    <3>1. evts # <<>> /\ evts \in Seq(Masks)
      BY <1>5 DEF TaskEvent, TypeOK
    <3>2. ~TaskFlushed
      BY <1>5 DEF TaskEvent, TaskFlushed
    <3> QED
      BY <3>1, <3>2, HeadTailProperties
  <2>2. CASE ErrorFits(b)
    <3>1. /\ <<"error", f, now>> \in Record
          /\ Batches("error", f, now, WithError(b, f, now % WordMod))
      BY <1>5, <2>1, <2>2 DEF Record, TaskEvent, TypeOK
    <3> HIDE DEF f
    <3> QED
      BY <2>1, <3>1, BatchesPicks
  <2>3. CASE ~ErrorFits(b)
    BY <1>1, <1>5, <2>1, <2>3 DEF TaskEvent
  <2> QED
    BY <2>2, <2>3
<1>6. CASE TaskFlushed
  BY <1>6, PicksEmpty, BatchedPicksNext DEF TaskFlushed
<1>7. CASE TaskPopTimeout \/ TaskDrained \/ TaskCheck \/ TaskAnchored \/ TaskEventsDone
  <2>1. UNCHANGED inBatch /\ ~TaskFlushed
    BY <1>7 DEF TaskPopTimeout, TaskDrained, TaskCheck, TaskAnchored, TaskEventsDone,
                TaskFlushed
  <2> QED
    BY <1>1, <2>1
<1>8. CASE TaskNothing
  <2>1. UNCHANGED inBatch /\ ~TaskFlushed
    BY <1>8 DEF TaskNothing, TaskFlushed, TypeOK
  <2> QED
    BY <1>1, <2>1
<1> QED
  BY <1>3, <1>4, <1>5, <1>6, <1>7, <1>8 DEF TaskStep

\* The record is in the batch only on its way out.
LEMMA CalibAloneNext == ASSUME PaceInv, [Next]_vars PROVE CalibAlone'
<1>1. CASE TaskCalib
  BY <1>1 DEF CalibAlone, TaskCalib, FlushThen
<1>2. CASE TaskStep /\ ~TaskCalib
  <2>1. CASE TaskFlushed
    BY <1>2, <2>1, CalibPicks DEF PaceInv, CalibAlone
  <2>2. CASE ~TaskFlushed
    <3>1. Batched("calib")' = Batched("calib")
      BY <1>2, <2>2, CalibPicks DEF PaceInv
    <3>2. CASE Batched("calib") = <<>>
      BY <3>1, <3>2 DEF CalibAlone
    <3>3. CASE Batched("calib") # <<>>
      <4>1. pc = "flush" /\ ret = "anchored"
        BY <3>3 DEF PaceInv, CalibAlone
      <4>2. TaskNothing
        BY <1>2, <2>2, <4>1 DEF TaskStep, TaskPop, TaskPopTimeout, TaskDrain, TaskDrained,
              TaskAdd, TaskCheck, TaskCalib, TaskAnchored, TaskEvent, TaskEventsDone
      <4>3. Len(inBatch) = 0 /\ inBatch \in Seq(Record)
        BY <4>2 DEF TaskNothing, PaceInv, RecordsInv, TypeOK
      <4>4. inBatch = <<>>
        BY <4>3, EmptySeq
      <4>5. Batched("calib") = <<>>
        BY <4>4, PicksEmpty, BatchedPicks
      <4> QED
        BY <3>3, <4>5
    <3> QED
      BY <3>2, <3>3
  <2> QED
    BY <2>1, <2>2
<1>3. CASE Tick \/ RxStamp \/ RxPush \/ DrvAlert \/ CtrlService \/ UNCHANGED vars
  <2>1. UNCHANGED <<pc, ret, inBatch>>
    BY <1>3 DEF Tick, RxStamp, RxPush, RxFrame, DrvAlert, CtrlService, vars, taskVars
  <2>2. Batched("calib")' = Batched("calib")
    BY <2>1, BatchedPicks, BatchedPicksNext
  <2> QED
    BY <2>1, <2>2 DEF PaceInv, CalibAlone
<1> QED
  BY <1>1, <1>2, <1>3 DEF Next

\* Every step keeps the pace.
LEMMA PaceNext == ASSUME PaceInv, [Next]_vars PROVE Pace'
<1>1. now \in Nat /\ lastCalib \in Nat /\ lastCalib <= now /\ CalibPeriod \in Nat
      /\ host.calib \in Nat /\ pc \in Pcs /\ ret \in Rets
  BY UsbTxAssumption DEF PaceInv, RecordsInv, TypeOK, HostType
<1>2. CASE TaskFlushed
  <2>1. /\ pc = "flush" /\ pc' = ret /\ ret' = ret /\ now' = now /\ lastCalib' = lastCalib
        /\ host'.calib = IF Batched("calib") # <<>> THEN now ELSE host.calib
    BY <1>2 DEF TaskFlushed, TaskFrame
  <2>2. CASE Batched("calib") # <<>>
    <3>1. ret = "anchored"
      BY <2>2 DEF PaceInv, CalibAlone
    <3> QED
      BY <1>1, <2>1, <2>2, <3>1 DEF Pace
  <2>3. CASE Batched("calib") = <<>>
    BY <1>1, <2>1, <2>3 DEF PaceInv, Pace, Rets
  <2> QED
    BY <2>2, <2>3
<1>3. CASE TaskStep /\ ~TaskFlushed
  <2>1. UNCHANGED <<now, host>>
    BY <1>3 DEF TaskFlushed, TaskStep, TaskPop, TaskPopTimeout, TaskDrain, TaskDrained,
          TaskAdd, TaskCheck, TaskCalib, TaskAnchored, TaskEvent, TaskEventsDone,
          TaskNothing, TaskFrame
  <2>2. CASE TaskCheck
    BY <1>1, <2>1, <2>2 DEF PaceInv, Pace, TaskCheck, CalibDue, FlushThen
  <2>3. CASE TaskCalib
    BY <1>1, <2>1, <2>3 DEF PaceInv, Pace, TaskCalib, FlushThen
  <2>4. CASE TaskAnchored
    BY <1>1, <2>1, <2>4 DEF PaceInv, Pace, TaskAnchored
  <2>5. CASE TaskNothing
    BY <1>1, <2>1, <2>5 DEF PaceInv, Pace, TaskNothing, Rets
  <2>6. CASE TaskPop \/ TaskPopTimeout \/ TaskDrain \/ TaskDrained \/ TaskAdd
             \/ TaskEvent \/ TaskEventsDone
    <3>1. /\ pc # "anchored" /\ lastCalib' = lastCalib
          /\ pc' \in {"drain", "check", "events"} \/ (pc' = "flush" /\ ret' \in {"add", "pop"})
      BY <2>6 DEF TaskPop, TaskPopTimeout, TaskDrain, TaskDrained, TaskAdd, TaskEvent,
            TaskEventsDone, TakeFrame, FlushThen
    <3> QED
      BY <2>1, <3>1 DEF PaceInv, Pace
  <2> QED
    BY <1>3, <2>2, <2>3, <2>4, <2>5, <2>6 DEF TaskStep
<1>4. CASE Tick \/ RxStamp \/ RxPush \/ DrvAlert \/ CtrlService \/ UNCHANGED vars
  <2>1. UNCHANGED <<pc, ret, lastCalib, host>> /\ now' \in {now, now + 1}
    BY <1>4 DEF Tick, RxStamp, RxPush, RxFrame, DrvAlert, CtrlService, vars, taskVars
  <2> QED
    BY <1>1, <2>1 DEF PaceInv, Pace
<1> QED
  BY <1>2, <1>3, <1>4 DEF Next

\* main.c:344-352: last_calib_us is set when the record has left, so a flush
\* that blocks for long does not bring two calibrations close together.
THEOREM Paced == Spec => CalibrationPaced
<1>1. Init => PaceInv
  <2> SUFFICES ASSUME Init PROVE PaceInv
    OBVIOUS
  <2>1. Batched("calib") = <<>>
    BY PicksEmpty, BatchedPicks DEF Init
  <2>2. Pace
    BY DEF Init, Pace
  <2> QED
    BY <2>1, <2>2, RecordsInit DEF PaceInv, CalibAlone
<1>2. PaceInv /\ [Next]_vars => PaceInv'
  BY RecordsNext, CalibAloneNext, PaceNext DEF PaceInv
<1>3. PaceInv /\ [Next]_vars
          => [host'.calib # host.calib => host'.calib >= host.calib + CalibPeriod]_vars
  <2> SUFFICES ASSUME PaceInv, [Next]_vars, host'.calib # host.calib
               PROVE  host'.calib >= host.calib + CalibPeriod
    OBVIOUS
  <2>1. TaskFlushed
    BY DEF Next, Tick, RxStamp, RxPush, RxFrame, DrvAlert, CtrlService, vars, taskVars,
           TaskStep, TaskPop, TaskPopTimeout, TaskDrain, TaskDrained, TaskAdd, TaskCheck,
           TaskCalib, TaskAnchored, TaskEvent, TaskEventsDone, TaskNothing
  <2>2. Batched("calib") # <<>> /\ host'.calib = now
    BY <2>1 DEF TaskFlushed
  <2>3. pc = "flush" /\ ret = "anchored"
    BY <2>2 DEF PaceInv, CalibAlone
  <2>4. now >= lastCalib + CalibPeriod /\ host.calib <= lastCalib
    BY <2>3 DEF PaceInv, Pace
  <2>5. now \in Nat /\ lastCalib \in Nat /\ CalibPeriod \in Nat /\ host.calib \in Nat
    BY UsbTxAssumption DEF PaceInv, RecordsInv, TypeOK, HostType
  <2> QED
    BY <2>2, <2>4, <2>5
<1> QED
  BY <1>1, <1>2, <1>3, PTL DEF Spec, CalibrationPaced

-----------------------------------------------------------------------------
(* Ticks of two digits.                                                    *)

\* Division with remainder.
LEMMA DivMod ==
    ASSUME NEW t \in Nat, NEW m \in Nat \ {0}
    PROVE  t \div m \in Nat /\ t % m \in 0..m - 1 /\ t = m * (t \div m) + (t % m)
OBVIOUS

\* It is unique.
LEMMA DivModUnique ==
    ASSUME NEW m \in Nat \ {0}, NEW q \in Nat, NEW r \in 0..m - 1,
           NEW q2 \in Nat, NEW r2 \in 0..m - 1, m * q + r = m * q2 + r2
    PROVE  q = q2 /\ r = r2
<1>1. CASE q < q2
  <2>1. m * (q + 1) <= m * q2
    BY <1>1
  <2> QED
    BY <2>1, <1>1
<1>2. CASE q > q2
  <2>1. m * (q2 + 1) <= m * q
    BY <1>2
  <2> QED
    BY <2>1, <1>2
<1>3. CASE q = q2
  BY <1>3
<1> QED
  BY <1>1, <1>2, <1>3

\* So division gives back what a number was made of.
LEMMA DivModIs ==
    ASSUME NEW t \in Nat, NEW m \in Nat \ {0}, NEW q \in Nat, NEW r \in 0..m - 1,
           t = m * q + r
    PROVE  t \div m = q /\ t % m = r
<1>1. t \div m \in Nat /\ t % m \in 0..m - 1 /\ t = m * (t \div m) + (t % m)
  BY DivMod
<1> DEFINE q2 == t \div m
           r2 == t % m
<1> HIDE DEF q2, r2
<1>2. q2 \in Nat /\ r2 \in 0..m - 1 /\ m * q + r = m * q2 + r2
  BY <1>1 DEF q2, r2
<1>3. q = q2 /\ r = r2
  BY <1>2, DivModUnique
<1> QED
  BY <1>3 DEF q2, r2

\* The two digits of a tick.
LEMMA Digits ==
    ASSUME NEW t \in Nat
    PROVE  /\ Low(t) \in 0..ByteMod - 1 /\ High(t) \in 0..ByteMod - 1
           /\ t % WordMod \in Nat
           /\ t % WordMod = Low(t) + ByteMod * High(t)
           /\ Low(t % WordMod) = Low(t) /\ High(t % WordMod) = High(t)
<1> DEFINE B == ByteMod
           q == t \div B
           r == t % B
           h == q \div B
           s == q % B
<1>1. B \in Nat \ {0} /\ B >= 2
  BY PcanMsgAssumption
<1>2. q \in Nat /\ r \in 0..B - 1 /\ t = B * q + r
  BY <1>1, DivMod
<1>3. h \in Nat /\ s \in 0..B - 1 /\ q = B * h + s
  BY <1>1, <1>2, DivMod
<1>4. Low(t) = r /\ High(t) = s /\ WordMod = B * B
  BY DEF Low, High, WordMod
<1> HIDE DEF B, q, r, h, s
<1> DEFINE w == B * B
           v == B * s + r
<1>5. w \in Nat \ {0} /\ v \in 0..w - 1 /\ v \in Nat
  <2>1. B * s <= B * (B - 1) /\ B * (B - 1) = B * B - B
    BY <1>1, <1>3
  <2>2. B * s \in Nat /\ B * B \in Nat /\ B * B > 0
    BY <1>1, <1>3
  <2> QED
    BY <1>1, <1>2, <2>1, <2>2
<1>6. t = w * h + v
  <2>1. B * (B * h + s) = (B * B) * h + B * s
    BY <1>1, <1>3
  <2>2. t = B * (B * h + s) + r
    BY <1>2, <1>3
  <2>3. (B * B) * h \in Int /\ B * s \in Int /\ r \in Int
    BY <1>1, <1>2, <1>3
  <2>4. ((B * B) * h + B * s) + r = (B * B) * h + (B * s + r)
    BY <2>3
  <2> QED
    BY <2>1, <2>2, <2>4
<1>7. t % w = v
  <2> HIDE DEF w, v
  <2> QED
    BY <1>3, <1>5, <1>6, DivModIs
<1>8. v \div B = s /\ v % B = r
  <2>1. v \in Nat /\ v = B * s + r
    BY <1>5
  <2> HIDE DEF v
  <2> QED
    BY <1>1, <1>2, <1>3, <2>1, DivModIs
<1>9. s % B = s
  <2>1. s \in Nat /\ s = B * 0 + s
    BY <1>1, <1>3
  <2> QED
    BY <1>1, <1>3, <2>1, DivModIs
<1>10. Low(v) = r /\ High(v) = s
  BY <1>8, <1>9 DEF Low, High, B
<1> HIDE DEF v
<1>11. t % WordMod = v
  BY <1>4, <1>7
<1>12. v = r + B * s
  BY <1>1, <1>2, <1>3 DEF v
<1> QED
  BY <1>2, <1>3, <1>4, <1>5, <1>10, <1>11, <1>12 DEF B

\* The host adds one to the high byte when the low byte
\* has become smaller.
LEMMA TickOn ==
    ASSUME NEW t \in Nat, NEW u \in Nat, t <= u, u < t + ByteMod
    PROVE  u % WordMod = Low(u) + ByteMod * ((High(t) + (IF Low(u) < Low(t) THEN 1 ELSE 0))
                                             % ByteMod)
<1> DEFINE B == ByteMod
           q == t \div B
           r == t % B
           p == u \div B
           s == u % B
           up == IF s < r THEN 1 ELSE 0
           h == q \div B
           g == q % B
<1>1. B \in Nat \ {0} /\ B >= 2
  BY PcanMsgAssumption
<1>2. /\ q \in Nat /\ r \in 0..B - 1 /\ t = B * q + r
      /\ p \in Nat /\ s \in 0..B - 1 /\ u = B * p + s
  BY <1>1, DivMod
<1>3. /\ h \in Nat /\ g \in 0..B - 1 /\ q = B * h + g
  BY <1>1, <1>2, DivMod
<1>4. Low(t) = r /\ High(t) = g /\ Low(u) = s /\ High(u) = p % B
  BY DEF Low, High
<1>5. u % WordMod = Low(u) + ByteMod * High(u)
  BY Digits
<1>6. up \in {0, 1}
  OBVIOUS
<1> HIDE DEF q, r, p, s, h, g
<1>7. p = q + up
  <2> SUFFICES ASSUME t <= u, u < t + B PROVE p = q + up
    OBVIOUS
  <2> HIDE DEF B
  <2>1. p >= q
    <3> SUFFICES ASSUME p < q PROVE FALSE
      BY <1>2
    <3>1. B * (p + 1) <= B * q /\ B * (p + 1) = B * p + B
      BY <1>1, <1>2
    <3> QED
      BY <1>1, <1>2, <3>1
  <2>2. p <= q + 1
    <3> SUFFICES ASSUME p >= q + 2 PROVE FALSE
      BY <1>2
    <3>1. B * (q + 2) <= B * p /\ B * (q + 2) = B * q + B + B
      BY <1>1, <1>2
    <3> QED
      BY <1>1, <1>2, <3>1
  <2>3. CASE p = q
    BY <1>1, <1>2, <2>3
  <2>4. CASE p = q + 1
    <3>1. B * p = B * q + B
      BY <1>1, <1>2, <2>4
    <3> QED
      BY <1>1, <1>2, <2>4, <3>1
  <2> QED
    BY <1>2, <2>1, <2>2, <2>3, <2>4
<1> DEFINE k == g + up
<1>8. k \in Nat
  BY <1>3, <1>6
<1>9. (q + up) % B = k % B
  <2> HIDE DEF up, B
  <2>1. k \div B \in Nat /\ k % B \in 0..B - 1 /\ k = B * (k \div B) + (k % B)
    BY <1>1, <1>8, DivMod
  <2> DEFINE c == k \div B
             d == k % B
  <2>2. c \in Nat /\ d \in 0..B - 1 /\ k = B * c + d
    BY <2>1
  <2> HIDE DEF c, d
  <2>3. q + up = B * (h + c) + d
    <3>1. B * (h + c) = B * h + B * c
      BY <1>1, <1>3, <2>2
    <3> QED
      BY <1>1, <1>3, <1>6, <2>2, <3>1
  <2>4. q + up \in Nat /\ h + c \in Nat
    BY <1>2, <1>3, <1>6, <2>2
  <2> DEFINE x == q + up
             y == h + c
  <2> HIDE DEF x, y
  <2>5. x \in Nat /\ y \in Nat /\ x = B * y + d
    BY <2>3, <2>4 DEF x, y
  <2>6. x % B = d
    BY <1>1, <2>2, <2>5, DivModIs
  <2> QED
    BY <2>6 DEF x, d
<1> HIDE DEF up
<1>10. High(u) = (g + up) % B
  BY <1>4, <1>7, <1>9
<1> QED
  BY <1>4, <1>5, <1>10 DEF up, B

-----------------------------------------------------------------------------
(* The host's decoder, record by record.                                   *)

Runs(g, n, bytes) == g = [i \in 0..n |-> IF i = 0 THEN HostStart
                                         ELSE HostRecord(g[i - 1], bytes)]

\* What the host has read after n records.
After(n, bytes) == (CHOOSE g : Runs(g, n, bytes))[n]

\* The function that HostDecode speaks of is there.
LEMMA RunsExist ==
    ASSUME NEW bytes
    PROVE  \A n \in Nat : \E g : Runs(g, n, bytes)
<1> DEFINE S == {n \in Nat : \E g : Runs(g, n, bytes)}
<1>1. 0 \in S
  <2> DEFINE g == [i \in 0..0 |-> HostStart]
  <2>1. Runs(g, 0, bytes)
    BY DEF Runs
  <2> QED
    BY <2>1
<1>2. ASSUME NEW n \in Nat, n \in S PROVE n + 1 \in S
  <2>1. PICK g : Runs(g, n, bytes)
    BY <1>2
  <2> DEFINE h == [i \in 0..n + 1 |-> IF i = n + 1 THEN HostRecord(g[n], bytes) ELSE g[i]]
             step(i) == IF i = 0 THEN HostStart ELSE HostRecord(h[i - 1], bytes)
  <2>2. ASSUME NEW i \in 0..n + 1 PROVE h[i] = step(i)
    <3>1. CASE i = n + 1
      <4>1. i # 0 /\ i - 1 = n /\ n \in 0..n + 1 /\ n # n + 1
        BY <3>1
      <4> QED
        BY <3>1, <4>1
    <3>2. CASE i # n + 1
      <4>1. i \in 0..n
        BY <3>2
      <4>2. g[i] = IF i = 0 THEN HostStart ELSE HostRecord(g[i - 1], bytes)
        BY <2>1, <4>1 DEF Runs
      <4>3. h[i] = g[i] /\ (i # 0 => h[i - 1] = g[i - 1])
        BY <4>1
      <4> QED
        BY <4>2, <4>3
    <3> QED
      BY <3>1, <3>2
  <2>3. Runs(h, n + 1, bytes)
    <3>1. h = [i \in 0..n + 1 |-> h[i]]
      OBVIOUS
    <3> HIDE DEF h
    <3> QED
      BY <2>2, <3>1 DEF Runs
  <2> QED
    BY <2>3
<1> HIDE DEF S
<1>3. Nat \subseteq S
  BY <1>1, <1>2, SetInduction
<1> QED
  BY <1>3 DEF S

\* A longer run begins with the shorter one.
LEMMA RunsAgree ==
    ASSUME NEW n \in Nat, NEW m \in Nat, n <= m, NEW bytes,
           NEW g, Runs(g, n, bytes), NEW h, Runs(h, m, bytes)
    PROVE  g[n] = h[n]
<1> DEFINE S == {i \in Nat : i <= n => g[i] = h[i]}
<1>1. 0 \in S
  BY DEF Runs
<1>2. ASSUME NEW i \in Nat, i \in S PROVE i + 1 \in S
  <2>1. SUFFICES ASSUME i + 1 <= n PROVE g[i + 1] = h[i + 1]
    OBVIOUS
  <2>2. g[i] = h[i]
    BY <1>2, <2>1
  <2>3. i + 1 \in 0..n /\ i + 1 \in 0..m /\ i + 1 # 0 /\ (i + 1) - 1 = i
    BY <2>1
  <2>4. g[i + 1] = HostRecord(g[i], bytes) /\ h[i + 1] = HostRecord(h[i], bytes)
    BY <2>3 DEF Runs
  <2> QED
    BY <2>2, <2>4
<1> HIDE DEF S
<1>3. Nat \subseteq S
  BY <1>1, <1>2, SetInduction
<1> QED
  BY <1>3 DEF S

\* The decoder, as it goes on from record to record.
LEMMA AfterNext ==
    ASSUME NEW bytes
    PROVE  /\ After(0, bytes) = HostStart
           /\ \A n \in Nat : After(n + 1, bytes) = HostRecord(After(n, bytes), bytes)
<1>1. After(0, bytes) = HostStart
  <2> DEFINE f == CHOOSE g : Runs(g, 0, bytes)
  <2>1. Runs(f, 0, bytes)
    BY RunsExist
  <2>2. f[0] = HostStart
    BY <2>1 DEF Runs
  <2> QED
    BY <2>2 DEF After
<1>2. ASSUME NEW n \in Nat PROVE After(n + 1, bytes) = HostRecord(After(n, bytes), bytes)
  <2> DEFINE f == CHOOSE g : Runs(g, n, bytes)
             h == CHOOSE g : Runs(g, n + 1, bytes)
  <2>1. n + 1 \in Nat /\ n <= n + 1 /\ n + 1 # 0 /\ (n + 1) - 1 = n /\ n + 1 \in 0..n + 1
    OBVIOUS
  <2>2. Runs(f, n, bytes) /\ Runs(h, n + 1, bytes)
    BY <2>1, RunsExist
  <2>3. After(n, bytes) = f[n] /\ After(n + 1, bytes) = h[n + 1]
    BY DEF After
  <2> HIDE DEF f, h
  <2>4. f[n] = h[n]
    BY <2>1, <2>2, RunsAgree
  <2>5. h[n + 1] = HostRecord(h[n], bytes)
    BY <2>1, <2>2 DEF Runs
  <2> QED
    BY <2>3, <2>4, <2>5
<1> QED
  BY <1>1, <1>2

\* HostDecode is After of all records.
LEMMA DecodeAfter == \A bt : HostDecode(bt) = After(bt.count, bt.bytes)
BY DEF HostDecode, After, Runs

-----------------------------------------------------------------------------
(* The bytes of a record.                                                  *)

Cells == Frames \X (1..MaxDlc)

Byte == ({"sl"} \X ([internal : {FALSE}, ext : BOOLEAN, rtr : BOOLEAN, len : Nat]
                    \cup [internal : {TRUE}, stamped : BOOLEAN, len : Nat]))
        \cup ({"id"} \X [id : Frames, srr : {FALSE}, at : {FALSE}])
        \cup ({"func"} \X {"TS", "ERROR"}) \cup ({"num"} \X (Masks \cup {0}))
        \cup ({"ts"} \X Nat) \cup ({"data"} \X (Cells \cup Nat))

\* Two parts of a record, one behind the other.
LEMMA Pieces ==
    ASSUME NEW S, NEW s \in Seq(S), NEW r \in Seq(S)
    PROVE  /\ s \o r \in Seq(S) /\ Len(s \o r) = Len(s) + Len(r)
           /\ Len(s) \in Nat /\ Len(r) \in Nat
           /\ \A i \in 1..Len(s) : (s \o r)[i] = s[i]
           /\ \A i \in 1..Len(r) : (s \o r)[Len(s) + i] = r[i]
<1>1. Len(s) \in Nat /\ Len(r) \in Nat
  BY LenProperties
<1>2. /\ s \o r \in Seq(S) /\ Len(s \o r) = Len(s) + Len(r)
      /\ \A i \in 1..Len(s) + Len(r) : (s \o r)[i] = IF i <= Len(s) THEN s[i]
                                                     ELSE r[i - Len(s)]
  BY ConcatProperties
<1> DEFINE w == s \o r
           k == Len(s)
           m == Len(r)
<1> HIDE DEF w, k, m
<1>3. /\ k \in Nat /\ m \in Nat
      /\ \A i \in 1..k + m : w[i] = IF i <= k THEN s[i] ELSE r[i - k]
  BY <1>1, <1>2 DEF w, k, m
<1>4. \A i \in 1..k : w[i] = s[i]
  BY <1>3
<1>5. ASSUME NEW i \in 1..m PROVE w[k + i] = r[i]
  <2>1. k + i \in 1..k + m /\ ~(k + i <= k) /\ (k + i) - k = i
    BY <1>3
  <2> QED
    BY <1>3, <2>1
<1> QED
  BY <1>1, <1>2, <1>4, <1>5 DEF w, k, m

\* In particular of bytes.
LEMMA BytePieces ==
    \A u, v \in Seq(Byte) :
        /\ u \o v \in Seq(Byte) /\ Len(u \o v) = Len(u) + Len(v)
        /\ \A i \in 1..Len(u) : (u \o v)[i] = u[i]
        /\ \A i \in 1..Len(v) : (u \o v)[Len(u) + i] = v[i]
BY Pieces

\* Each byte of a record lies behind what was in the batch before.
Lies(S, s, r, u) ==
    /\ (s \o r) \o u \in Seq(S)
    /\ (s \o r) \o u = s \o (r \o u) /\ r \o u \in Seq(S)
    /\ Len((s \o r) \o u) >= Len(s) + Len(r)
    /\ Len((s \o r) \o u) \in Nat /\ Len(s) \in Nat /\ Len(r) \in Nat
    /\ \A i \in 1..Len(r) : ((s \o r) \o u)[Len(s) + i] = r[i]

\* Whatever is in the batch, and whatever follows.
LEMMA Within ==
    ASSUME NEW S, NEW s \in Seq(S), NEW r \in Seq(S), NEW u \in Seq(S)
    PROVE  Lies(S, s, r, u)
<1> DEFINE t == s \o r
<1>1. /\ t \in Seq(S) /\ Len(t) = Len(s) + Len(r)
      /\ Len(s) \in Nat /\ Len(r) \in Nat
      /\ \A i \in 1..Len(r) : t[Len(s) + i] = r[i]
  BY Pieces
<1>2. (s \o r) \o u = s \o (r \o u) /\ r \o u \in Seq(S)
  BY ConcatAssociative, ConcatProperties
<1> HIDE DEF t
<1>3. /\ t \o u \in Seq(S) /\ Len(t \o u) = Len(t) + Len(u) /\ Len(u) \in Nat
      /\ \A i \in 1..Len(t) : (t \o u)[i] = t[i]
  <2>1. \A x, y \in Seq(S) :
            /\ x \o y \in Seq(S) /\ Len(x \o y) = Len(x) + Len(y) /\ Len(y) \in Nat
            /\ \A i \in 1..Len(x) : (x \o y)[i] = x[i]
    BY Pieces
  <2>2. t \in Seq(S)
    BY <1>1
  <2> QED
    BY <2>1, <2>2
<1> DEFINE w == t \o u
           k == Len(s)
           m == Len(r)
<1>4. /\ w \in Seq(S) /\ k \in Nat /\ m \in Nat /\ Len(t) = k + m
      /\ Len(w) \in Nat /\ Len(w) >= k + m
  BY <1>1, <1>3
<1>5. ASSUME NEW i \in 1..m PROVE w[k + i] = r[i]
  <2>1. k + i \in 1..Len(t)
    BY <1>4
  <2>2. w[k + i] = t[k + i]
    BY <1>3, <2>1
  <2> QED
    BY <1>1, <2>2
<1> QED
  BY <1>2, <1>4, <1>5 DEF t, Lies

\* A part of n bytes.
LEMMA PieceIs ==
    ASSUME NEW S, NEW n \in Nat, NEW s, s \in [1..n -> S]
    PROVE  s \in Seq(S) /\ Len(s) = n
<1>1. s \in Seq(S)
  BY SeqDef
<1>2. Len(s) \in Nat /\ DOMAIN s = 1..Len(s)
  BY <1>1, LenProperties
<1>3. 1..Len(s) = 1..n
  BY <1>2
<1> QED
  BY <1>1, <1>2, <1>3

-----------------------------------------------------------------------------
(* What a record is made of.                                               *)

\* The numbers of a frame that twai_rx_task received.
IsFrame(f, n, t) ==
    /\ f.id = n /\ f.ext \in BOOLEAN /\ f.rtr \in BOOLEAN
    /\ f.srr = FALSE /\ f.ss = FALSE /\ f.ts = t % WordMod
    /\ f.dlc \in 0..MaxDlc /\ Saturated(f.dlc) = f.dlc
    /\ f.data \in [1..MaxDlc -> Cells]
    /\ IdBytes(f) = (IF f.ext THEN 4 ELSE 2) /\ TagBytes(f) = 0
    /\ DataBytes(f) = (IF f.rtr THEN 0 ELSE f.dlc)
    /\ DataBytes(f) \in 0..MaxDlc

\* It has them.
LEMMA FrameFacts ==
    ASSUME NEW n \in Frames, NEW t \in Nat
    PROVE  IsFrame(FrameAt(n, t), n, t)
<1> DEFINE f == FrameAt(n, t)
<1> USE DEF FrameAt
<1>1. /\ Shapes[n].ext \in BOOLEAN /\ Shapes[n].rtr \in BOOLEAN
      /\ Shapes[n].dlc \in 0..MaxLen
  <2>1. Shapes[n] \in [ext : BOOLEAN, rtr : BOOLEAN, dlc : 0..MaxLen]
    <3> DEFINE S == [ext : BOOLEAN, rtr : BOOLEAN, dlc : 0..MaxLen]
    <3>1. Shapes \in Seq(S)
      BY UsbTxAssumption
    <3> HIDE DEF S
    <3>2. n \in 1..Len(Shapes)
      BY <3>1, LenProperties DEF Frames
    <3>3. Shapes[n] \in S
      BY <3>1, <3>2, ElementOfSeq
    <3> QED
      BY <3>3 DEF S
  <2> QED
    BY <2>1
<1>2. MaxDlc \in Nat
  BY PcanMsgAssumption
<1>3. f.dlc \in 0..MaxDlc /\ Saturated(f.dlc) = f.dlc
  <2> DEFINE c == Shapes[n].dlc
  <2>1. c \in 0..15 /\ f.dlc = Saturated(c)
    BY <1>1 DEF MaxLen
  <2> HIDE DEF c
  <2> QED
    BY <1>2, <2>1 DEF Saturated
<1>4. f.data \in [1..MaxDlc -> Cells]
  BY DEF Cells
<1>5. /\ f.id = n /\ f.ext \in BOOLEAN /\ f.rtr \in BOOLEAN
      /\ f.srr = FALSE /\ f.ss = FALSE /\ f.ts = t % WordMod
  BY <1>1
<1> QED
  <2> HIDE DEF f
  <2>1. IsFrame(f, n, t)
    BY <1>2, <1>3, <1>4, <1>5 DEF IdBytes, TagBytes, DataBytes, IsFrame
  <2> QED
    BY <2>1 DEF f

\* A tick as pcan_ts_append writes it.
LEMMA TsBytesAre ==
    ASSUME NEW bt, bt.haveFirst \in BOOLEAN, NEW ts \in Nat
    PROVE  /\ TsBytes(bt, ts) \in Seq(Byte) /\ Len(TsBytes(bt, ts)) = TsWidth(bt)
           /\ TsBytes(bt, ts)[1] = <<"ts", Low(ts)>>
           /\ ~bt.haveFirst => TsBytes(bt, ts)[2] = <<"ts", High(ts)>>
           /\ TsWidth(bt) = IF bt.haveFirst THEN 1 ELSE 2
<1>1. Low(ts) \in Nat /\ High(ts) \in Nat
  BY Digits
<1>2. \A i \in Nat : <<"ts", i>> \in Byte
  BY DEF Byte
<1> DEFINE x == <<"ts", Low(ts)>>
           y == <<"ts", High(ts)>>
<1>3. x \in Byte /\ y \in Byte
  BY <1>1, <1>2
<1> HIDE DEF x, y
<1>4. CASE bt.haveFirst
  <2>1. TsBytes(bt, ts) = <<x>> /\ TsWidth(bt) = 1
    BY <1>4 DEF TsBytes, TsWidth, x
  <2>2. <<x>> \in Seq(Byte) /\ Len(<<x>>) = 1 /\ <<x>>[1] = x
    BY <1>3
  <2> QED
    BY <1>4, <2>1, <2>2 DEF x
<1>5. CASE ~bt.haveFirst
  <2>1. TsBytes(bt, ts) = <<x, y>> /\ TsWidth(bt) = 2
    BY <1>5 DEF TsBytes, TsWidth, x, y
  <2>2. <<x, y>> \in Seq(Byte) /\ Len(<<x, y>>) = 2 /\ <<x, y>>[1] = x /\ <<x, y>>[2] = y
    BY <1>3
  <2> QED
    BY <1>5, <2>1, <2>2 DEF x, y
<1> QED
  BY <1>4, <1>5

SlOf(f) == [internal |-> FALSE, ext |-> f.ext, rtr |-> f.rtr, len |-> f.dlc]
WordOf(f) == [id |-> f.id, srr |-> FALSE, at |-> FALSE]

FrameRec(bt, f) == FrameHead(f, Saturated(f.dlc)) \o TsBytes(bt, f.ts)
                   \o [i \in 1..DataBytes(f) |-> <<"data", f.data[i]>>]
                   \o Repeat(<<"tag", f.writer>>, TagBytes(f))

\* A record of a frame that begins behind byte p: k bytes of id, w of tick,
\* d of data.
FrameIs(bytes, p, k, w, d, f) ==
    /\ bytes[p + 1] = <<"sl", SlOf(f)>>
    /\ \A i \in 1..k : bytes[p + 1 + i] = <<"id", WordOf(f)>>
    /\ bytes[p + 1 + k + 1] = <<"ts", Low(f.ts)>>
    /\ w = 2 => bytes[p + 1 + k + 2] = <<"ts", High(f.ts)>>
    /\ \A i \in 1..d : bytes[p + 1 + k + w + i] = <<"data", f.data[i]>>

\* The record that pcan_msg_batch_add_frame writes.
LEMMA FrameRecIs ==
    ASSUME NEW n \in Frames, NEW t \in Nat, NEW f, f = FrameAt(n, t),
           NEW bt, bt.haveFirst \in BOOLEAN
    PROVE  /\ FrameRec(bt, f) \in Seq(Byte)
           /\ Len(FrameRec(bt, f)) = 1 + IdBytes(f) + TsWidth(bt) + DataBytes(f)
           /\ FrameIs(FrameRec(bt, f), 0, IdBytes(f), TsWidth(bt), DataBytes(f), f)
<1> DEFINE k == IdBytes(f)
           w == TsWidth(bt)
           d == DataBytes(f)
           one == << <<"sl", SlOf(f)>> >>
           ids == [i \in 1..k |-> <<"id", WordOf(f)>>]
           tss == TsBytes(bt, f.ts)
           dat == [i \in 1..d |-> <<"data", f.data[i]>>]
<1>1. /\ f.id = n /\ f.ext \in BOOLEAN /\ f.rtr \in BOOLEAN
      /\ f.srr = FALSE /\ f.ss = FALSE /\ f.ts = t % WordMod
      /\ f.dlc \in 0..MaxDlc /\ Saturated(f.dlc) = f.dlc
      /\ f.data \in [1..MaxDlc -> Cells] /\ k \in {2, 4} /\ TagBytes(f) = 0
      /\ d \in 0..MaxDlc /\ MaxDlc \in Nat
  <2>1. MaxDlc \in Nat
    BY PcanMsgAssumption
  <2>2. IsFrame(f, n, t)
    BY FrameFacts
  <2> QED
    BY <2>1, <2>2 DEF IsFrame
<1>2. f.ts \in Nat
  BY <1>1, Digits
<1>3. one \in Seq(Byte) /\ Len(one) = 1 /\ one[1] = <<"sl", SlOf(f)>>
  <2>1. SlOf(f) \in [internal : {FALSE}, ext : BOOLEAN, rtr : BOOLEAN, len : Nat]
    BY <1>1 DEF SlOf
  <2>2. <<"sl", SlOf(f)>> \in Byte
    BY <2>1 DEF Byte
  <2> QED
    BY <2>2
<1>4. ids \in Seq(Byte) /\ Len(ids) = k /\ \A i \in 1..k : ids[i] = <<"id", WordOf(f)>>
  <2>1. WordOf(f) \in [id : Frames, srr : {FALSE}, at : {FALSE}]
    BY <1>1 DEF WordOf
  <2>2. <<"id", WordOf(f)>> \in Byte
    BY <2>1 DEF Byte
  <2>3. ids \in [1..k -> Byte] /\ k \in Nat
    BY <1>1, <2>2
  <2> QED
    BY <2>3, PieceIs
<1>5. /\ tss \in Seq(Byte) /\ Len(tss) = w /\ tss[1] = <<"ts", Low(f.ts)>>
      /\ w = 2 => tss[2] = <<"ts", High(f.ts)>>
      /\ w \in {1, 2}
  BY <1>2, TsBytesAre
<1>6. dat \in Seq(Byte) /\ Len(dat) = d /\ \A i \in 1..d : dat[i] = <<"data", f.data[i]>>
  <2>1. \A i \in 1..d : <<"data", f.data[i]>> \in Byte
    <3>1. \A c \in Cells : <<"data", c>> \in Byte
      BY DEF Byte
    <3>2. \A i \in 1..d : f.data[i] \in Cells
      BY <1>1
    <3> QED
      BY <3>1, <3>2
  <2>2. dat \in [1..d -> Byte] /\ d \in Nat
    BY <1>1, <2>1
  <2> QED
    BY <2>2, PieceIs
<1>7. FrameRec(bt, f) = ((one \o ids) \o tss) \o dat
  <2>1. FrameHead(f, Saturated(f.dlc)) = one \o ids
    BY <1>1 DEF FrameHead, Repeat, SlOf, WordOf
  <2>2. Repeat(<<"tag", f.writer>>, TagBytes(f)) = <<>>
    BY <1>1 DEF Repeat
  <2> HIDE DEF one, ids, tss, dat
  <2>3. ((one \o ids) \o tss) \o dat \in Seq(Byte)
    BY <1>3, <1>4, <1>5, <1>6, ConcatProperties
  <2>4. (((one \o ids) \o tss) \o dat) \o <<>> = ((one \o ids) \o tss) \o dat
    BY <2>3, ConcatEmptySeq
  <2> QED
    BY <2>1, <2>2, <2>4 DEF FrameRec, tss, dat
<1> HIDE DEF one, ids, tss, dat, k, w, d
<1> DEFINE x == one \o ids
           y == x \o tss
           z == y \o dat
<1>8. /\ x \in Seq(Byte) /\ Len(x) = 1 + k /\ x[1] = one[1]
      /\ \A i \in 1..k : x[1 + i] = ids[i]
  <2>1. /\ x \in Seq(Byte) /\ Len(x) = Len(one) + Len(ids)
        /\ \A i \in 1..Len(one) : x[i] = one[i]
        /\ \A i \in 1..Len(ids) : x[Len(one) + i] = ids[i]
    BY BytePieces, <1>3, <1>4
  <2> HIDE DEF x
  <2> QED
    BY <1>3, <1>4, <2>1
<1> HIDE DEF x
<1>9. /\ y \in Seq(Byte) /\ Len(y) = 1 + k + w
      /\ \A i \in 1..1 + k : y[i] = x[i]
      /\ \A i \in 1..w : y[1 + k + i] = tss[i]
  <2>1. /\ y \in Seq(Byte) /\ Len(y) = Len(x) + Len(tss)
        /\ \A i \in 1..Len(x) : y[i] = x[i]
        /\ \A i \in 1..Len(tss) : y[Len(x) + i] = tss[i]
    BY BytePieces, <1>5, <1>8
  <2> HIDE DEF y
  <2> QED
    BY <1>5, <1>8, <2>1
<1> HIDE DEF y
<1>10. /\ z \in Seq(Byte) /\ Len(z) = 1 + k + w + d
       /\ \A i \in 1..1 + k + w : z[i] = y[i]
       /\ \A i \in 1..d : z[1 + k + w + i] = dat[i]
  <2>1. /\ z \in Seq(Byte) /\ Len(z) = Len(y) + Len(dat)
        /\ \A i \in 1..Len(y) : z[i] = y[i]
        /\ \A i \in 1..Len(dat) : z[Len(y) + i] = dat[i]
    BY BytePieces, <1>6, <1>9
  <2> HIDE DEF z
  <2> QED
    BY <1>6, <1>9, <2>1
<1> HIDE DEF z
<1>11. k \in Nat /\ k >= 2 /\ w \in {1, 2} /\ d \in Nat
  BY <1>1, <1>5
<1>12. z[1] = <<"sl", SlOf(f)>>
  <2>1. 1 \in 1..1 + k /\ 1 \in 1..1 + k + w
    BY <1>11
  <2> QED
    BY <1>3, <1>8, <1>9, <1>10, <2>1
<1>13. ASSUME NEW i \in 1..k PROVE z[1 + i] = <<"id", WordOf(f)>>
  <2>1. 1 + i \in 1..1 + k /\ 1 + i \in 1..1 + k + w
    BY <1>11
  <2> QED
    BY <1>4, <1>8, <1>9, <1>10, <2>1
<1>14. ASSUME NEW i \in 1..w PROVE z[1 + k + i] = tss[i]
  <2>1. 1 + k + i \in 1..1 + k + w
    BY <1>11
  <2> QED
    BY <1>9, <1>10, <2>1
<1>15. /\ z[1 + k + 1] = <<"ts", Low(f.ts)>>
       /\ w = 2 => z[1 + k + 2] = <<"ts", High(f.ts)>>
  <2>1. 1 \in 1..w /\ (w = 2 => 2 \in 1..w)
    BY <1>11
  <2> QED
    BY <1>5, <1>14, <2>1
<1>16. FrameIs(z, 0, k, w, d, f)
  <2>1. \A i \in Nat : 0 + 1 + i = 1 + i
    OBVIOUS
  <2>2. 0 + 1 = 1 /\ 0 + 1 + k = 1 + k
    BY <1>11
  <2> QED
    BY <1>6, <1>10, <1>11, <1>12, <1>13, <1>15, <2>1, <2>2 DEF FrameIs
<1> QED
  BY <1>7, <1>10, <1>16 DEF x, y, z, k, w, d

\* Status records: an error mask with its tick, and the tick of a calibration.
ErrorSl == [internal |-> TRUE, stamped |-> TRUE, len |-> 0]
CalibSl == [internal |-> TRUE, stamped |-> FALSE, len |-> 2]

ErrorRec(bt, mask, ts) ==
    << <<"sl", ErrorSl>>, <<"func", "ERROR">>, <<"num", mask>> >> \o TsBytes(bt, ts)
CalibRec(ts) ==
    << <<"sl", CalibSl>>, <<"func", "TS">>, <<"num", 0>> >>
    \o << <<"data", Low(ts)>>, <<"data", High(ts)>> >>

ErrorIs(bytes, p, w, mask, ts) ==
    /\ bytes[p + 1] = <<"sl", ErrorSl>> /\ bytes[p + 2] = <<"func", "ERROR">>
    /\ bytes[p + 3] = <<"num", mask>> /\ bytes[p + 4] = <<"ts", Low(ts)>>
    /\ w = 2 => bytes[p + 5] = <<"ts", High(ts)>>
CalibIs(bytes, p, ts) ==
    /\ bytes[p + 1] = <<"sl", CalibSl>> /\ bytes[p + 2] = <<"func", "TS">>
    /\ bytes[p + 3] = <<"num", 0>>
    /\ bytes[p + 4] = <<"data", Low(ts)>> /\ bytes[p + 5] = <<"data", High(ts)>>

\* The record that pcan_msg_batch_add_error writes,
LEMMA ErrorRecIs ==
    ASSUME NEW mask \in Masks, NEW ts \in Nat, NEW bt, bt.haveFirst \in BOOLEAN
    PROVE  /\ ErrorRec(bt, mask, ts) \in Seq(Byte)
           /\ Len(ErrorRec(bt, mask, ts)) = 3 + TsWidth(bt)
           /\ ErrorIs(ErrorRec(bt, mask, ts), 0, TsWidth(bt), mask, ts)
<1> DEFINE w == TsWidth(bt)
           x == <<"sl", ErrorSl>>
           y == <<"func", "ERROR">>
           z == <<"num", mask>>
           one == <<x, y, z>>
           tss == TsBytes(bt, ts)
           all == one \o tss
<1>1. x \in Byte /\ y \in Byte /\ z \in Byte
  <2>1. ErrorSl \in [internal : {TRUE}, stamped : BOOLEAN, len : Nat]
    BY DEF ErrorSl
  <2> QED
    BY <2>1 DEF Byte
<1>2. /\ tss \in Seq(Byte) /\ Len(tss) = w /\ tss[1] = <<"ts", Low(ts)>>
      /\ w = 2 => tss[2] = <<"ts", High(ts)>>
      /\ w \in {1, 2}
  BY TsBytesAre
<1>3. ErrorRec(bt, mask, ts) = all
  BY DEF ErrorRec
<1> HIDE DEF x, y, z, tss, w
<1>4. /\ one \in Seq(Byte) /\ Len(one) = 3
      /\ one[1] = x /\ one[2] = y /\ one[3] = z
  BY <1>1
<1> HIDE DEF one
<1>5. /\ all \in Seq(Byte) /\ Len(all) = Len(one) + Len(tss)
      /\ \A i \in 1..Len(one) : all[i] = one[i]
      /\ \A i \in 1..Len(tss) : all[Len(one) + i] = tss[i]
  BY <1>2, <1>4, BytePieces
<1> HIDE DEF all
<1>6. /\ Len(all) = 3 + w /\ all[1] = x /\ all[2] = y /\ all[3] = z /\ all[4] = tss[1]
      /\ w = 2 => all[5] = tss[2]
  <2>1. /\ 1 \in 1..Len(one) /\ 2 \in 1..Len(one) /\ 3 \in 1..Len(one)
        /\ 1 \in 1..Len(tss) /\ w = 2 => 2 \in 1..Len(tss)
    BY <1>2, <1>4
  <2>2. Len(one) + 1 = 4 /\ Len(one) + 2 = 5
    BY <1>4
  <2> QED
    BY <1>2, <1>4, <1>5, <2>1, <2>2
<1>7. ErrorIs(all, 0, w, mask, ts)
  BY <1>2, <1>6 DEF ErrorIs, x, y, z
<1> QED
  BY <1>3, <1>5, <1>6, <1>7 DEF w

\* and pcan_msg_batch_add_calib_ts.
LEMMA CalibRecIs ==
    ASSUME NEW ts \in Nat
    PROVE  /\ CalibRec(ts) \in Seq(Byte) /\ Len(CalibRec(ts)) = 5
           /\ CalibIs(CalibRec(ts), 0, ts)
<1> DEFINE x == <<"sl", CalibSl>>
           y == <<"func", "TS">>
           z == <<"num", 0>>
           u == <<"data", Low(ts)>>
           v == <<"data", High(ts)>>
           one == <<x, y, z>>
           two == <<u, v>>
           all == one \o two
<1>1. x \in Byte /\ y \in Byte /\ z \in Byte /\ u \in Byte /\ v \in Byte
  <2>1. CalibSl \in [internal : {TRUE}, stamped : BOOLEAN, len : Nat]
    BY DEF CalibSl
  <2>2. Low(ts) \in Nat /\ High(ts) \in Nat
    BY Digits
  <2>3. \A i \in Nat : <<"data", i>> \in Byte
    BY DEF Byte
  <2>4. x \in Byte /\ y \in Byte /\ z \in Byte
    BY <2>1 DEF Byte
  <2> QED
    BY <2>2, <2>3, <2>4
<1>2. CalibRec(ts) = all
  BY DEF CalibRec
<1> HIDE DEF x, y, z, u, v
<1>3. /\ one \in Seq(Byte) /\ Len(one) = 3
      /\ one[1] = x /\ one[2] = y /\ one[3] = z
  BY <1>1
<1>4. two \in Seq(Byte) /\ Len(two) = 2 /\ two[1] = u /\ two[2] = v
  BY <1>1
<1> HIDE DEF one, two
<1>5. /\ all \in Seq(Byte) /\ Len(all) = Len(one) + Len(two)
      /\ \A i \in 1..Len(one) : all[i] = one[i]
      /\ \A i \in 1..Len(two) : all[Len(one) + i] = two[i]
  BY <1>3, <1>4, BytePieces
<1> HIDE DEF all
<1>6. /\ Len(all) = 5 /\ all[1] = x /\ all[2] = y /\ all[3] = z
      /\ all[4] = u /\ all[5] = v
  <2>1. /\ 1 \in 1..Len(one) /\ 2 \in 1..Len(one) /\ 3 \in 1..Len(one)
        /\ 1 \in 1..Len(two) /\ 2 \in 1..Len(two)
    BY <1>3, <1>4
  <2>2. Len(one) + 1 = 4 /\ Len(one) + 2 = 5
    BY <1>3
  <2> QED
    BY <1>3, <1>4, <1>5, <2>1, <2>2
<1>7. CalibIs(all, 0, ts)
  BY <1>6 DEF CalibIs, x, y, z, u, v
<1> QED
  BY <1>2, <1>5, <1>6, <1>7

\* What each of the three puts into the batch.
LEMMA Writes ==
    ASSUME NEW bt
    PROVE  /\ \A f : WithFrame(bt, f) = Put(bt, FrameRec(bt, f), TRUE)
           /\ \A mask \in Masks, ts \in Nat : bt.haveFirst \in BOOLEAN
                  => WithError(bt, mask, ts) = Put(bt, ErrorRec(bt, mask, ts), TRUE)
           /\ \A ts \in Nat : WithCalib(bt, ts) = Put(bt, CalibRec(ts), FALSE)
<1>1. \A f : WithFrame(bt, f) = Put(bt, FrameRec(bt, f), TRUE)
  BY DEF WithFrame, FrameRec
<1>2. ASSUME NEW mask \in Masks, NEW ts \in Nat, bt.haveFirst \in BOOLEAN
      PROVE  WithError(bt, mask, ts) = Put(bt, ErrorRec(bt, mask, ts), TRUE)
  <2> DEFINE r == ErrorRec(bt, mask, ts)
             none == [i \in DOMAIN <<>> |-> <<"data", <<>>[i]>>]
  <2>1. none = <<>> /\ Len(<<>>) = 0
    OBVIOUS
  <2>2. WithError(bt, mask, ts) = Put(bt, r \o none, TRUE)
    BY <2>1 DEF WithError, WithStatus, ErrorRec, ErrorSl
  <2>3. r \in Seq(Byte)
    BY <1>2, ErrorRecIs
  <2> HIDE DEF r
  <2>4. r \o <<>> = r
    BY <2>3, ConcatEmptySeq
  <2> QED
    BY <2>1, <2>2, <2>4 DEF r
<1>3. ASSUME NEW ts \in Nat PROVE WithCalib(bt, ts) = Put(bt, CalibRec(ts), FALSE)
  <2> DEFINE x == <<"sl", CalibSl>>
             y == <<"func", "TS">>
             z == <<"num", 0>>
             one == <<x, y, z>>
             u == Low(ts)
             v == High(ts)
             pay == <<u, v>>
  <2>1. one \o <<>> = one
    <3>1. one \in Seq({x, y, z})
      OBVIOUS
    <3> HIDE DEF one
    <3> QED
      BY <3>1, ConcatEmptySeq
  <2>2. /\ [i \in DOMAIN pay |-> <<"data", pay[i]>>] = << <<"data", u>>, <<"data", v>> >>
        /\ Len(pay) = 2
    <3> HIDE DEF u, v
    <3> QED
      OBVIOUS
  <2>3. CalibSl = [internal |-> TRUE, stamped |-> FALSE, len |-> Len(pay)]
    BY <2>2 DEF CalibSl
  <2>4. WithCalib(bt, ts)
            = Put(bt, (one \o <<>>) \o [i \in DOMAIN pay |-> <<"data", pay[i]>>], FALSE)
    BY <2>3 DEF WithCalib, WithStatus
  <2> QED
    BY <2>1, <2>2, <2>4 DEF CalibRec
<1> QED
  BY <1>1, <1>2, <1>3

-----------------------------------------------------------------------------
(* How the host reads a record.                                            *)

\* Its state; while it is in step, it is to read byte p.
Full(p, t, l, s, v, o) ==
    [pos |-> p, tick |-> t, low |-> l, stamped |-> s, seen |-> v, ok |-> o]
Yes == TRUE   \* TRUE, as a value
State(p, t, l, s, v) == Full(p, t, l, s, v, Yes)

\* The tick that it makes of the next stamp.
NextTick(t, l, s, ts) ==
    IF s THEN Low(ts) + ByteMod * ((High(t) + (IF Low(ts) < l THEN 1 ELSE 0)) % ByteMod)
         ELSE Low(ts) + ByteMod * High(ts)

Width(s) == IF s THEN 1 ELSE 2

\* What an assignment to one of its parts makes of it.
LEMMA FullSet ==
    \A p, t, l, s, v, o, x :
        /\ [Full(p, t, l, s, v, o) EXCEPT !.pos = x] = Full(x, t, l, s, v, o)
        /\ [Full(p, t, l, s, v, o) EXCEPT !.tick = x] = Full(p, x, l, s, v, o)
        /\ [Full(p, t, l, s, v, o) EXCEPT !.low = x] = Full(p, t, x, s, v, o)
        /\ [Full(p, t, l, s, v, o) EXCEPT !.stamped = x] = Full(p, t, l, x, v, o)
        /\ [Full(p, t, l, s, v, o) EXCEPT !.seen = x] = Full(p, t, l, s, x, o)
BY DEF Full

\* Of a decoder that is in step.
LEMMA StateSet ==
    \A p, t, l, s, v, x :
        /\ [State(p, t, l, s, v) EXCEPT !.pos = x] = State(x, t, l, s, v)
        /\ [State(p, t, l, s, v) EXCEPT !.tick = x] = State(p, x, l, s, v)
        /\ [State(p, t, l, s, v) EXCEPT !.low = x] = State(p, t, x, s, v)
        /\ [State(p, t, l, s, v) EXCEPT !.stamped = x] = State(p, t, l, x, v)
        /\ [State(p, t, l, s, v) EXCEPT !.seen = x] = State(p, t, l, s, x)
BY FullSet DEF State

\* What its parts are.
LEMMA FullGet ==
    \A p, t, l, s, v, o :
        /\ Full(p, t, l, s, v, o).pos = p /\ Full(p, t, l, s, v, o).tick = t
        /\ Full(p, t, l, s, v, o).low = l /\ Full(p, t, l, s, v, o).stamped = s
        /\ Full(p, t, l, s, v, o).seen = v /\ Full(p, t, l, s, v, o).ok = o
BY DEF Full

\* And those of one that is in step.
LEMMA StateGet ==
    \A p, t, l, s, v :
        /\ State(p, t, l, s, v).pos = p /\ State(p, t, l, s, v).tick = t
        /\ State(p, t, l, s, v).low = l /\ State(p, t, l, s, v).stamped = s
        /\ State(p, t, l, s, v).seen = v /\ State(p, t, l, s, v).ok = Yes
BY FullGet DEF State

\* Four of them at once.
Stamp(m, x, y, z, q) == [m EXCEPT !.tick = x, !.low = y, !.stamped = z, !.pos = q]
\* They come one after the other.
LEMMA FourSet ==
    ASSUME NEW p, NEW t, NEW l, NEW s, NEW v, NEW x, NEW y, NEW z, NEW q
    PROVE  Stamp(State(p, t, l, s, v), x, y, z, q) = State(q, x, y, z, v)
<1> DEFINE f == State(p, t, l, s, v)
           f1 == [f EXCEPT !.tick = x]
           f2 == [f1 EXCEPT !.low = y]
           f3 == [f2 EXCEPT !.stamped = z]
<1>1. f1 = State(p, x, l, s, v)
  BY StateSet
<1>2. f2 = State(p, x, y, s, v)
  <2> HIDE DEF f1
  <2> QED
    BY <1>1, StateSet
<1>3. f3 = State(p, x, y, z, v)
  <2> HIDE DEF f2
  <2> QED
    BY <1>2, StateSet
<1>4. [f3 EXCEPT !.pos = q] = State(q, x, y, z, v)
  <2> HIDE DEF f3
  <2> QED
    BY <1>3, StateSet
<1> HIDE DEF f
<1>5. [f EXCEPT !.tick = x, !.low = y, !.stamped = z, !.pos = q] = [f3 EXCEPT !.pos = q]
  OBVIOUS
<1> HIDE DEF f3
<1> QED
  BY <1>4, <1>5 DEF f, Stamp

\* A single byte, or two.
LEMMA ReadsOne ==
    ASSUME NEW bytes, Len(bytes) \in Nat, NEW p \in Nat, p <= Len(bytes), NEW role, NEW x,
           bytes[p] = <<role, x>>
    PROVE  Reads(bytes, p, 1, role) /\ bytes[p][2] = x
<1>1. p + 1 - 1 = p /\ \A i \in p..p : i = p
  OBVIOUS
<1>2. bytes[p][1] = role /\ bytes[p][2] = x
  OBVIOUS
<1> QED
  BY <1>1, <1>2 DEF Reads

\* A stamp at byte p, of a full tick unless a record before it was stamped.
TsAt(bytes, p, s, ts) ==
    /\ Len(bytes) \in Nat /\ p \in Nat /\ s \in BOOLEAN
    /\ p + Width(s) - 1 <= Len(bytes)
    /\ bytes[p] = <<"ts", Low(ts)>>
    /\ ~s => bytes[p + 1] = <<"ts", High(ts)>>

\* host_decode_ts.
LEMMA ReadsTs ==
    ASSUME NEW bytes, NEW p, NEW t, NEW l, NEW s, NEW v, NEW ts, TsAt(bytes, p, s, ts)
    PROVE  HostTs(State(p, t, l, s, v), bytes)
               = State(p + Width(s), NextTick(t, l, s, ts), Low(ts), Yes, v)
<1> USE DEF TsAt
<1> DEFINE mc == State(p, t, l, s, v)
<1>1. /\ mc.pos = p /\ mc.tick = t /\ mc.low = l /\ mc.stamped = s
  BY StateGet
<1>2. bytes[p][2] = Low(ts) /\ bytes[p][1] = "ts"
  OBVIOUS
<1>3. ~s => bytes[p + 1][2] = High(ts) /\ bytes[p + 1][1] = "ts"
  OBVIOUS
<1>4. Reads(bytes, p, IF ~s THEN 2 ELSE 1, "ts")
  <2>1. CASE s
    <3>1. \A i \in p..p + 1 - 1 : i = p
      OBVIOUS
    <3> QED
      BY <1>2, <2>1, <3>1 DEF Reads, Width
  <2>2. CASE ~s
    <3>1. \A i \in p..p + 2 - 1 : i = p \/ i = p + 1
      OBVIOUS
    <3> QED
      BY <1>2, <1>3, <2>2, <3>1 DEF Reads, Width
  <2> QED
    BY <2>1, <2>2
<1>5. HostTs(mc, bytes)
          = [mc EXCEPT !.tick = NextTick(t, l, s, ts), !.low = Low(ts),
                       !.stamped = TRUE, !.pos = p + Width(s)]
  <2>1. HostTs(mc, bytes)
            = [mc EXCEPT !.tick = IF ~s THEN bytes[p][2] + ByteMod * bytes[p + 1][2]
                                  ELSE bytes[p][2] + ByteMod
                                       * ((High(t) + (IF bytes[p][2] < l THEN 1 ELSE 0)) % ByteMod),
                         !.low = bytes[p][2], !.stamped = TRUE,
                         !.pos = p + (IF ~s THEN 2 ELSE 1)]
    <3> HIDE DEF mc
    <3> QED
      BY <1>1, <1>4 DEF HostTs
  <2>2. (IF ~s THEN 2 ELSE 1) = Width(s)
    BY DEF Width
  <2>3. (IF ~s THEN bytes[p][2] + ByteMod * bytes[p + 1][2]
         ELSE bytes[p][2] + ByteMod * ((High(t) + (IF bytes[p][2] < l THEN 1 ELSE 0)) % ByteMod))
            = NextTick(t, l, s, ts)
    BY <1>2, <1>3 DEF NextTick
  <2> QED
    BY <1>2, <2>1, <2>2, <2>3
<1> DEFINE nt == NextTick(t, l, s, ts)
           q == p + Width(s)
           lo == Low(ts)
<1> HIDE DEF nt, q, lo
<1>6. [mc EXCEPT !.tick = nt, !.low = lo, !.stamped = TRUE, !.pos = q]
          = State(q, nt, lo, Yes, v)
  <2>1. Stamp(mc, nt, lo, Yes, q) = State(q, nt, lo, Yes, v)
    BY FourSet
  <2> QED
    BY <2>1, Zenon DEF Yes, Stamp
<1> QED
  BY <1>5, <1>6 DEF nt, q, lo

\* To go on by n bytes, and to note what was understood.
Move(m, n) == [m EXCEPT !.pos = @ + n]

\* As far as the state goes.
LEMMA MoveSees ==
    ASSUME NEW p, NEW t, NEW l, NEW s, NEW v
    PROVE  /\ \A n : Move(State(p, t, l, s, v), n) = State(p + n, t, l, s, v)
           /\ \A what : Sees(State(p, t, l, s, v), what) = State(p, t, l, s, Append(v, what))
<1> DEFINE m == State(p, t, l, s, v)
<1>1. m.pos = p /\ m.seen = v
  BY StateGet
<1>2. ASSUME NEW n PROVE Move(m, n) = State(p + n, t, l, s, v)
  <2>1. Move(m, n) = [m EXCEPT !.pos = m.pos + n]
    BY DEF Move
  <2> DEFINE x == m.pos + n
  <2>2. x = p + n
    BY <1>1
  <2> HIDE DEF x
  <2>3. [m EXCEPT !.pos = x] = State(x, t, l, s, v)
    BY StateSet
  <2> QED
    BY <2>1, <2>2, <2>3 DEF x
<1>3. ASSUME NEW what PROVE Sees(m, what) = State(p, t, l, s, Append(v, what))
  <2>1. Sees(m, what) = [m EXCEPT !.seen = Append(m.seen, what)]
    BY DEF Sees
  <2> DEFINE x == Append(m.seen, what)
  <2>2. x = Append(v, what)
    BY <1>1
  <2> HIDE DEF x
  <2>3. [m EXCEPT !.seen = x] = State(p, t, l, s, x)
    BY StateSet
  <2> QED
    BY <2>1, <2>2, <2>3 DEF x
<1> QED
  BY <1>2, <1>3

\* n bytes of a record that have a role.
LEMMA ReadsMany ==
    ASSUME NEW bytes, Len(bytes) \in Nat, NEW p \in Nat, NEW n \in Nat, p + n <= Len(bytes),
           NEW role, \A i \in 1..n : bytes[p + i][1] = role
    PROVE  Reads(bytes, p + 1, n, role)
<1>1. ASSUME NEW i \in p + 1..p + 1 + n - 1 PROVE bytes[i][1] = role
  <2>1. i - p \in 1..n /\ p + (i - p) = i
    OBVIOUS
  <2>2. bytes[p + (i - p)][1] = role
    BY <2>1
  <2> QED
    BY <2>1, <2>2
<1>2. p + 1 + n - 1 <= Len(bytes)
  OBVIOUS
<1> QED
  BY <1>1, <1>2 DEF Reads

\* A record begins behind byte p.
SlAt(bytes, p, sl) == /\ Len(bytes) \in Nat /\ p \in Nat /\ p + 1 <= Len(bytes)
                      /\ bytes[p + 1] = <<"sl", sl>>

\* host_decode_batch, to the id of a record.
LEMMA ReadsHead ==
    ASSUME NEW bytes, NEW p, NEW t, NEW l, NEW s, NEW v, NEW sl, SlAt(bytes, p, sl)
    PROVE  HostRecord(State(p + 1, t, l, s, v), bytes)
               = IF sl.internal THEN HostStatus(State(p + 2, t, l, s, v), sl, bytes)
                 ELSE HostData(State(p + 2, t, l, s, v), sl, bytes)
<1> USE DEF SlAt
<1> DEFINE m == State(p + 1, t, l, s, v)
<1>1. m.pos = p + 1 /\ m.ok = Yes /\ Yes = TRUE
  BY StateGet DEF Yes
<1>2. Reads(bytes, p + 1, 1, "sl") /\ bytes[p + 1][2] = sl
  <2>1. p + 1 \in Nat
    OBVIOUS
  <2> QED
    BY <2>1, ReadsOne
<1>3. Move(m, 1) = State(p + 2, t, l, s, v)
  <2>1. (p + 1) + 1 = p + 2
    OBVIOUS
  <2> QED
    BY <2>1, MoveSees
<1> HIDE DEF m
<1>4. HostRecord(m, bytes) = IF sl.internal THEN HostStatus(Move(m, 1), sl, bytes)
                             ELSE HostData(Move(m, 1), sl, bytes)
  BY <1>1, <1>2 DEF HostRecord, Move
<1> QED
  BY <1>3, <1>4 DEF m

\* host_decode_data, of what pcan_msg_batch_add_frame wrote.
LEMMA ReadsFrame ==
    ASSUME NEW n \in Frames, NEW t0 \in Nat, NEW f, IsFrame(f, n, t0),
           NEW bytes, Len(bytes) \in Nat, NEW p \in Nat,
           NEW t, NEW l, NEW s \in BOOLEAN, NEW v,
           p + (1 + IdBytes(f) + Width(s) + DataBytes(f)) <= Len(bytes),
           FrameIs(bytes, p, IdBytes(f), Width(s), DataBytes(f), f)
    PROVE  HostRecord(State(p + 1, t, l, s, v), bytes)
               = State(p + (1 + IdBytes(f) + Width(s) + DataBytes(f)) + 1,
                       NextTick(t, l, s, f.ts), Low(f.ts), Yes,
                       Append(v, <<"frame", HostView(f), NextTick(t, l, s, f.ts)>>))
<1> DEFINE k == IdBytes(f)
           w == Width(s)
           d == DataBytes(f)
           nt == NextTick(t, l, s, f.ts)
           sl == SlOf(f)
           mc == State(p + 2, t, l, s, v)
           n2 == IF sl.ext THEN 4 ELSE 2
           word == bytes[mc.pos][2]
           ts == HostTs([mc EXCEPT !.pos = @ + n2], bytes)
           size == IF sl.rtr THEN 0 ELSE sl.len
           view == <<"frame", [id |-> word.id, ext |-> sl.ext, rtr |-> sl.rtr,
                               len |-> Saturated(sl.len),
                               data |-> [i \in 1..size |-> bytes[ts.pos + i - 1][2]]],
                     ts.tick>>
           tag == IF word.srr /\ ~sl.rtr THEN 1 ELSE 0
<1>1. HostData(mc, sl, bytes)
          = IF ~Reads(bytes, mc.pos, n2, "id") \/ ~ts.ok
               \/ ~Reads(bytes, ts.pos, size, "data")
               \/ ~Reads(bytes, ts.pos + size, tag, "tag")
            THEN GivesUp(mc)
            ELSE Sees([ts EXCEPT !.pos = @ + size + tag], view)
  BY DEF HostData
<1>2. /\ k \in {2, 4} /\ w \in {1, 2} /\ d \in Nat
      /\ sl.ext = f.ext /\ sl.rtr = f.rtr /\ sl.len = f.dlc /\ sl.internal = FALSE
      /\ Saturated(f.dlc) = f.dlc /\ MaxDlc \in Nat
      /\ n2 = k /\ size = d /\ f.id = n /\ f.srr = FALSE
  BY PcanMsgAssumption DEF IsFrame, SlOf, Width
<1>3. HostRecord(State(p + 1, t, l, s, v), bytes) = HostData(mc, sl, bytes)
  <2>1. p + 1 <= Len(bytes)
    BY <1>2
  <2>2. bytes[p + 1] = <<"sl", sl>>
    BY DEF FrameIs
  <2>3. HostRecord(State(p + 1, t, l, s, v), bytes)
            = IF sl.internal THEN HostStatus(mc, sl, bytes) ELSE HostData(mc, sl, bytes)
    <3>1. SlAt(bytes, p, sl)
      BY <2>1, <2>2 DEF SlAt
    <3> HIDE DEF sl
    <3> QED
      BY <3>1, ReadsHead
  <2> QED
    BY <1>2, <2>3
<1> HIDE DEF sl, nt, k, w, d
<1>4. /\ bytes[p + 1] = <<"sl", sl>>
      /\ \A i \in 1..k : bytes[p + 1 + i] = <<"id", WordOf(f)>>
      /\ bytes[p + 1 + k + 1] = <<"ts", Low(f.ts)>>
      /\ w = 2 => bytes[p + 1 + k + 2] = <<"ts", High(f.ts)>>
      /\ \A i \in 1..d : bytes[p + 1 + k + w + i] = <<"data", f.data[i]>>
      /\ p + (1 + k + w + d) <= Len(bytes)
  BY DEF FrameIs, sl, k, w, d
<1>a. /\ k \in Nat /\ k >= 2 /\ w \in {1, 2} /\ d \in Nat /\ Len(bytes) \in Nat
      /\ n2 = k /\ size = d /\ p + (1 + k + w + d) <= Len(bytes)
  <2>1. k \in {2, 4} => k \in Nat /\ k >= 2
    OBVIOUS
  <2> QED
    BY <1>2, <1>4, <2>1
<1>5. mc.pos = p + 2
  BY StateGet
<1>6. word = WordOf(f) /\ word.id = n /\ word.srr = FALSE /\ Reads(bytes, mc.pos, n2, "id")
  <2>1. p + 2 = p + 1 + 1 /\ 1 \in 1..k /\ p + 1 \in Nat /\ k \in Nat /\ p + 1 + k <= Len(bytes)
    BY <1>a
  <2>2. bytes[p + 1 + 1] = <<"id", WordOf(f)>>
    BY <1>4, <2>1
  <2>3. \A i \in 1..k : bytes[p + 1 + i][1] = "id"
    BY <1>4
  <2>4. Reads(bytes, p + 1 + 1, k, "id")
    BY <2>1, <2>3, ReadsMany
  <2>5. word = WordOf(f)
    BY <1>5, <2>1, <2>2
  <2>6. Reads(bytes, mc.pos, n2, "id")
    BY <1>2, <1>5, <2>1, <2>4
  <2> QED
    BY <1>2, <2>5, <2>6 DEF WordOf
<1> DEFINE q == p + 2 + k
<1>7. ts = State(q + w, nt, Low(f.ts), Yes, v)
  <2>1. [mc EXCEPT !.pos = @ + n2] = State(q, t, l, s, v)
    <3>1. Move(mc, n2) = State(p + 2 + n2, t, l, s, v)
      BY MoveSees
    <3> QED
      BY <1>2, <3>1 DEF Move
  <2>2. q \in Nat /\ q + w - 1 <= Len(bytes) /\ q = p + 1 + k + 1 /\ q + 1 = p + 1 + k + 2
    BY <1>2, <1>4
  <2>3. bytes[q] = <<"ts", Low(f.ts)>> /\ (~s => bytes[q + 1] = <<"ts", High(f.ts)>>)
    <3>1. ~s => w = 2
      BY DEF w, Width
    <3> QED
      BY <1>4, <2>2, <3>1
  <2> HIDE DEF q
  <2>4. HostTs(State(q, t, l, s, v), bytes)
            = State(q + Width(s), NextTick(t, l, s, f.ts), Low(f.ts), Yes, v)
    <3> DEFINE tt == f.ts
    <3>1. bytes[q] = <<"ts", Low(tt)>> /\ (~s => bytes[q + 1] = <<"ts", High(tt)>>)
      BY <2>3
    <3> HIDE DEF tt
    <3>2. TsAt(bytes, q, s, tt)
      BY <1>a, <2>2, <3>1 DEF TsAt, w
    <3>3. HostTs(State(q, t, l, s, v), bytes)
              = State(q + Width(s), NextTick(t, l, s, tt), Low(tt), Yes, v)
      BY <3>2, ReadsTs
    <3> QED
      BY <3>3 DEF tt
  <2> QED
    BY <2>1, <2>4 DEF nt, w
<1> HIDE DEF ts
<1>8. ts.pos = q + w /\ ts.tick = nt /\ ts.ok
  <2> DEFINE lo == Low(f.ts)
             x == State(q + w, nt, lo, Yes, v)
  <2>1. x.pos = q + w /\ x.tick = nt /\ x.ok = Yes
    <3> HIDE DEF lo
    <3> QED
      BY StateGet
  <2> QED
    BY <1>7, <2>1 DEF Yes
<1>9. Reads(bytes, ts.pos, size, "data")
  <2>1. p + 1 + k + w \in Nat /\ p + 1 + k + w + d <= Len(bytes)
        /\ (p + 1 + k + w) + 1 = q + w
    BY <1>2, <1>4
  <2>2. \A i \in 1..d : bytes[p + 1 + k + w + i][1] = "data"
    BY <1>4
  <2>3. Reads(bytes, (p + 1 + k + w) + 1, d, "data")
    BY <1>2, <2>1, <2>2, ReadsMany
  <2> QED
    BY <1>2, <1>8, <2>1, <2>3
<1>10. Reads(bytes, ts.pos + size, tag, "tag") /\ tag = 0
  <2>1. tag = 0
    BY <1>6
  <2>2. ts.pos + size \in Nat /\ ts.pos + size + 0 - 1 <= Len(bytes)
    BY <1>2, <1>4, <1>8
  <2>3. \A i \in ts.pos + size..ts.pos + size + 0 - 1 : FALSE
    BY <2>2
  <2> QED
    BY <2>1, <2>2, <2>3 DEF Reads
<1>11. view = <<"frame", HostView(f), nt>>
  <2>1. \A i \in 1..d : bytes[ts.pos + i - 1][2] = f.data[i]
    <3> SUFFICES ASSUME NEW i \in 1..d PROVE bytes[ts.pos + i - 1][2] = f.data[i]
      OBVIOUS
    <3>1. ts.pos + i - 1 = p + 1 + k + w + i
      BY <1>2, <1>8
    <3>2. bytes[p + 1 + k + w + i] = <<"data", f.data[i]>>
      BY <1>4
    <3> QED
      BY <3>1, <3>2
  <2>2. [i \in 1..size |-> bytes[ts.pos + i - 1][2]] = [i \in 1..d |-> f.data[i]]
    BY <1>2, <2>1
  <2>3. HostView(f) = [id |-> f.id, ext |-> f.ext, rtr |-> f.rtr, len |-> Saturated(f.dlc),
                       data |-> [i \in 1..d |-> f.data[i]]]
    BY DEF HostView, d
  <2> DEFINE da == [i \in 1..size |-> bytes[ts.pos + i - 1][2]]
  <2> HIDE DEF da, size, tag, word
  <2>4. da = [i \in 1..d |-> f.data[i]]
    BY <2>2 DEF da, size
  <2> DEFINE db == [i \in 1..d |-> f.data[i]]
  <2>5. HostView(f) = [id |-> f.id, ext |-> f.ext, rtr |-> f.rtr, len |-> Saturated(f.dlc),
                       data |-> db]
    BY <2>3
  <2> HIDE DEF db
  <2>6. da = db
    BY <2>4 DEF db
  <2>7. /\ word.id = f.id /\ sl.ext = f.ext /\ sl.rtr = f.rtr
        /\ Saturated(sl.len) = Saturated(f.dlc)
    BY <1>2, <1>6
  <2>8. view = <<"frame", [id |-> word.id, ext |-> sl.ext, rtr |-> sl.rtr,
                           len |-> Saturated(sl.len), data |-> da], ts.tick>>
    BY DEF da, size
  <2> HIDE DEF view
  <2> QED
    BY <1>8, <2>5, <2>6, <2>7, <2>8
<1> HIDE DEF view, tag, size, n2, word
<1>12. HostData(mc, sl, bytes) = Sees(Move(ts, size + tag), view)
  <2>1. HostData(mc, sl, bytes) = Sees([ts EXCEPT !.pos = @ + size + tag], view)
    BY <1>1, <1>6, <1>8, <1>9, <1>10
  <2>2. ts.pos + size + tag = ts.pos + (size + tag)
    BY <1>2, <1>8, <1>10
  <2>3. [ts EXCEPT !.pos = @ + size + tag] = Move(ts, size + tag)
    BY <2>2 DEF Move
  <2> QED
    BY <2>1, <2>3
<1>13. Sees(Move(ts, size + tag), view)
           = State(q + w + (size + tag), nt, Low(f.ts), Yes, Append(v, view))
  <2> DEFINE lo == Low(f.ts)
  <2>1. ts = State(q + w, nt, lo, Yes, v)
    BY <1>7
  <2> HIDE DEF lo
  <2>2. Move(ts, size + tag) = State(q + w + (size + tag), nt, lo, Yes, v)
    BY <2>1, MoveSees
  <2>3. Sees(Move(ts, size + tag), view)
            = State(q + w + (size + tag), nt, lo, Yes, Append(v, view))
    BY <2>2, MoveSees
  <2> QED
    BY <2>3 DEF lo
<1>14. q + w + (size + tag) = p + (1 + k + w + d) + 1
  <2>1. tag = 0
    BY <1>10
  <2> QED
    BY <1>a, <2>1
<1> HIDE DEF mc
<1> QED
  BY <1>3, <1>11, <1>12, <1>13, <1>14 DEF k, w, d, nt

\* host_decode_status, of an error record,
LEMMA ReadsError ==
    ASSUME NEW mask, NEW tt, NEW bytes, Len(bytes) \in Nat, NEW p \in Nat,
           NEW t, NEW l, NEW s \in BOOLEAN, NEW v,
           p + (3 + Width(s)) <= Len(bytes), ErrorIs(bytes, p, Width(s), mask, tt)
    PROVE  HostRecord(State(p + 1, t, l, s, v), bytes)
               = State(p + (3 + Width(s)) + 1, NextTick(t, l, s, tt), Low(tt), Yes,
                       Append(v, <<"error", mask, NextTick(t, l, s, tt)>>))
<1> DEFINE w == Width(s)
           nt == NextTick(t, l, s, tt)
           lo == Low(tt)
           sl == ErrorSl
           mc == State(p + 2, t, l, s, v)
           func == bytes[mc.pos][2]
           num == bytes[mc.pos + 1][2]
           at2 == Move(mc, 2)
           ts == IF sl.stamped THEN HostTs(at2, bytes) ELSE at2
           tick == bytes[ts.pos][2] + ByteMod * bytes[ts.pos + 1][2]
<1>1. HostStatus(mc, sl, bytes)
          = IF ~Reads(bytes, mc.pos, 1, "func") \/ ~Reads(bytes, mc.pos + 1, 1, "num")
               \/ ~ts.ok \/ ~Reads(bytes, ts.pos, sl.len, "data")
            THEN GivesUp(mc)
            ELSE IF func = "TS"
            THEN Move(Sees([ts EXCEPT !.tick = tick], <<"calib", tick>>), sl.len)
            ELSE Move(Sees(ts, <<"error", num, ts.tick>>), sl.len)
  BY DEF HostStatus, Move
<1>2. sl.internal = TRUE /\ sl.stamped = TRUE /\ sl.len = 0
  BY DEF ErrorSl
<1>3. w \in {1, 2} /\ Len(bytes) \in Nat /\ p + (3 + w) <= Len(bytes)
  BY DEF Width
<1>4. /\ bytes[p + 1] = <<"sl", sl>> /\ bytes[p + 2] = <<"func", "ERROR">>
      /\ bytes[p + 3] = <<"num", mask>> /\ bytes[p + 4] = <<"ts", lo>>
      /\ w = 2 => bytes[p + 5] = <<"ts", High(tt)>>
  BY DEF ErrorIs
<1>5. HostRecord(State(p + 1, t, l, s, v), bytes) = HostStatus(mc, sl, bytes)
  <2>1. SlAt(bytes, p, sl)
    BY <1>3, <1>4 DEF SlAt
  <2>2. HostRecord(State(p + 1, t, l, s, v), bytes)
            = IF sl.internal THEN HostStatus(mc, sl, bytes) ELSE HostData(mc, sl, bytes)
    <3> HIDE DEF sl
    <3> QED
      BY <2>1, ReadsHead
  <2> QED
    BY <1>2, <2>2
<1> HIDE DEF sl, w, lo
<1>6. mc.pos = p + 2
  BY StateGet
<1>7. /\ func = "ERROR" /\ num = mask
      /\ Reads(bytes, mc.pos, 1, "func") /\ Reads(bytes, mc.pos + 1, 1, "num")
  <2>1. p + 2 \in Nat /\ p + 2 <= Len(bytes) /\ p + 3 \in Nat /\ p + 3 <= Len(bytes)
        /\ (p + 2) + 1 = p + 3
    BY <1>3
  <2>2. Reads(bytes, p + 2, 1, "func") /\ bytes[p + 2][2] = "ERROR"
    BY <1>4, <2>1, ReadsOne
  <2>3. Reads(bytes, p + 3, 1, "num") /\ bytes[p + 3][2] = mask
    BY <1>4, <2>1, ReadsOne
  <2> QED
    BY <1>6, <2>1, <2>2, <2>3
<1>8. ts = State(p + 4 + w, nt, lo, Yes, v)
  <2>1. at2 = State(p + 4, t, l, s, v)
    <3>1. (p + 2) + 2 = p + 4
      OBVIOUS
    <3>2. Move(State(p + 2, t, l, s, v), 2) = State((p + 2) + 2, t, l, s, v)
      BY MoveSees
    <3> QED
      BY <3>1, <3>2
  <2>2. TsAt(bytes, p + 4, s, tt)
    <3>1. p + 4 \in Nat /\ p + 4 + w - 1 <= Len(bytes) /\ (p + 4) + 1 = p + 5
      BY <1>3
    <3>2. ~s => w = 2
      BY DEF w, Width
    <3> QED
      BY <1>3, <1>4, <3>1, <3>2 DEF TsAt, w, lo
  <2>3. HostTs(State(p + 4, t, l, s, v), bytes)
            = State(p + 4 + Width(s), NextTick(t, l, s, tt), Low(tt), Yes, v)
    BY <2>2, ReadsTs
  <2>4. ts = HostTs(at2, bytes)
    BY <1>2
  <2> HIDE DEF at2, ts
  <2> QED
    BY <2>1, <2>3, <2>4 DEF w, lo
<1> HIDE DEF ts, nt, func, num
<1>9. ts.pos = p + 4 + w /\ ts.tick = nt /\ ts.ok
  <2> DEFINE x == State(p + 4 + w, nt, lo, Yes, v)
  <2>1. x.pos = p + 4 + w /\ x.tick = nt /\ x.ok = Yes
    BY StateGet
  <2> QED
    BY <1>8, <2>1 DEF Yes
<1>10. Reads(bytes, ts.pos, sl.len, "data")
  <2>1. /\ ts.pos + 0 - 1 <= Len(bytes)
        /\ \A i \in ts.pos..ts.pos + 0 - 1 : FALSE
    BY <1>3, <1>9
  <2> QED
    BY <1>2, <2>1 DEF Reads
<1>11. HostStatus(mc, sl, bytes) = Move(Sees(ts, <<"error", mask, nt>>), 0)
  <2> HIDE DEF tick, mc
  <2>1. func # "TS"
    BY <1>7
  <2> QED
    BY <1>1, <1>2, <1>7, <1>9, <1>10, <2>1
<1> DEFINE e == <<"error", mask, nt>>
<1> HIDE DEF e
<1>12. Move(Sees(ts, e), 0) = State(p + 4 + w + 0, nt, lo, Yes, Append(v, e))
  <2>1. Sees(ts, e) = State(p + 4 + w, nt, lo, Yes, Append(v, e))
    BY <1>8, MoveSees
  <2> QED
    BY <2>1, MoveSees
<1>13. p + 4 + w + 0 = p + (3 + w) + 1
  BY <1>3
<1> HIDE DEF mc
<1> QED
  BY <1>5, <1>11, <1>12, <1>13 DEF e, nt, w, lo

\* and of a calibration, which it reads in place.
LEMMA ReadsCalib ==
    ASSUME NEW tt \in Nat, NEW bytes, Len(bytes) \in Nat, NEW p \in Nat,
           NEW t, NEW l, NEW s \in BOOLEAN, NEW v,
           p + 5 <= Len(bytes), CalibIs(bytes, p, tt)
    PROVE  HostRecord(State(p + 1, t, l, s, v), bytes)
               = State(p + 5 + 1, tt % WordMod, l, s, Append(v, <<"calib", tt % WordMod>>))
<1> DEFINE sl == CalibSl
           mc == State(p + 2, t, l, s, v)
           func == bytes[mc.pos][2]
           num == bytes[mc.pos + 1][2]
           at2 == Move(mc, 2)
           ts == IF sl.stamped THEN HostTs(at2, bytes) ELSE at2
           tick == bytes[ts.pos][2] + ByteMod * bytes[ts.pos + 1][2]
<1>1. HostStatus(mc, sl, bytes)
          = IF ~Reads(bytes, mc.pos, 1, "func") \/ ~Reads(bytes, mc.pos + 1, 1, "num")
               \/ ~ts.ok \/ ~Reads(bytes, ts.pos, sl.len, "data")
            THEN GivesUp(mc)
            ELSE IF func = "TS"
            THEN Move(Sees([ts EXCEPT !.tick = tick], <<"calib", tick>>), sl.len)
            ELSE Move(Sees(ts, <<"error", num, ts.tick>>), sl.len)
  BY DEF HostStatus, Move
<1>2. sl.internal = TRUE /\ sl.stamped = FALSE /\ sl.len = 2
  BY DEF CalibSl
<1>4. /\ bytes[p + 1] = <<"sl", sl>> /\ bytes[p + 2] = <<"func", "TS">>
      /\ bytes[p + 3] = <<"num", 0>>
      /\ bytes[p + 4] = <<"data", Low(tt)>> /\ bytes[p + 5] = <<"data", High(tt)>>
  BY DEF CalibIs
<1>5. HostRecord(State(p + 1, t, l, s, v), bytes) = HostStatus(mc, sl, bytes)
  <2>1. SlAt(bytes, p, sl)
    BY <1>4 DEF SlAt
  <2>2. HostRecord(State(p + 1, t, l, s, v), bytes)
            = IF sl.internal THEN HostStatus(mc, sl, bytes) ELSE HostData(mc, sl, bytes)
    <3> HIDE DEF sl
    <3> QED
      BY <2>1, ReadsHead
  <2> QED
    BY <1>2, <2>2
<1> HIDE DEF sl
<1>6. mc.pos = p + 2
  BY StateGet
<1>7. func = "TS" /\ Reads(bytes, mc.pos, 1, "func") /\ Reads(bytes, mc.pos + 1, 1, "num")
  <2>1. p + 2 \in Nat /\ p + 2 <= Len(bytes) /\ p + 3 \in Nat /\ p + 3 <= Len(bytes)
        /\ (p + 2) + 1 = p + 3
    OBVIOUS
  <2>2. Reads(bytes, p + 2, 1, "func") /\ bytes[p + 2][2] = "TS"
    BY <1>4, <2>1, ReadsOne
  <2>3. Reads(bytes, p + 3, 1, "num")
    BY <1>4, <2>1, ReadsOne
  <2> QED
    BY <1>6, <2>1, <2>2, <2>3
<1>8. ts = State(p + 4, t, l, s, v)
  <2>1. at2 = State(p + 4, t, l, s, v)
    <3>1. (p + 2) + 2 = p + 4
      OBVIOUS
    <3>2. Move(State(p + 2, t, l, s, v), 2) = State((p + 2) + 2, t, l, s, v)
      BY MoveSees
    <3> QED
      BY <3>1, <3>2
  <2>2. ts = at2
    BY <1>2
  <2> HIDE DEF at2, ts
  <2> QED
    BY <2>1, <2>2
<1> HIDE DEF ts
<1>9. ts.pos = p + 4 /\ ts.ok
  BY <1>8, StateGet DEF Yes
<1>10. Reads(bytes, ts.pos, sl.len, "data")
  <2>1. p + 3 \in Nat /\ 2 \in Nat /\ p + 3 + 2 <= Len(bytes) /\ (p + 3) + 1 = p + 4
    OBVIOUS
  <2>2. \A i \in 1..2 : bytes[p + 3 + i][1] = "data"
    <3>1. \A i \in 1..2 : i = 1 \/ i = 2
      OBVIOUS
    <3>2. p + 3 + 1 = p + 4 /\ p + 3 + 2 = p + 5
      OBVIOUS
    <3>3. bytes[p + 4][1] = "data" /\ bytes[p + 5][1] = "data"
      BY <1>4
    <3> QED
      BY <3>1, <3>2, <3>3
  <2>3. Reads(bytes, (p + 3) + 1, 2, "data")
    BY <2>1, <2>2, ReadsMany
  <2> QED
    BY <1>2, <1>9, <2>1, <2>3
<1>11. tick = tt % WordMod
  <2>1. (p + 4) + 1 = p + 5
    OBVIOUS
  <2>2. tick = Low(tt) + ByteMod * High(tt)
    BY <1>4, <1>9, <2>1
  <2>3. tt % WordMod = Low(tt) + ByteMod * High(tt)
    BY Digits
  <2> QED
    BY <2>2, <2>3
<1> HIDE DEF tick, num, func
<1> DEFINE e == <<"calib", tick>>
<1>12. HostStatus(mc, sl, bytes) = Move(Sees([ts EXCEPT !.tick = tick], e), 2)
  <2> HIDE DEF mc
  <2> QED
    BY <1>1, <1>2, <1>7, <1>9, <1>10
<1> HIDE DEF e
<1>13. Move(Sees([ts EXCEPT !.tick = tick], e), 2) = State(p + 4 + 2, tick, l, s, Append(v, e))
  <2>1. [ts EXCEPT !.tick = tick] = State(p + 4, tick, l, s, v)
    <3>1. [State(p + 4, t, l, s, v) EXCEPT !.tick = tick] = State(p + 4, tick, l, s, v)
      BY StateSet
    <3> QED
      BY <1>8, <3>1
  <2>2. Sees(State(p + 4, tick, l, s, v), e) = State(p + 4, tick, l, s, Append(v, e))
    BY MoveSees
  <2>3. Move(State(p + 4, tick, l, s, Append(v, e)), 2)
            = State(p + 4 + 2, tick, l, s, Append(v, e))
    BY MoveSees
  <2> QED
    BY <2>1, <2>2, <2>3
<1>14. p + 4 + 2 = p + 5 + 1
  OBVIOUS
<1> HIDE DEF mc
<1> QED
  BY <1>5, <1>11, <1>12, <1>13, <1>14 DEF e

-----------------------------------------------------------------------------
(* How the host reads a batch: what follows a record does not change what  *)
(* was understood of it.                                                   *)

Reading(bt, t, l, v) ==
    \A more \in Seq(Byte) :
        After(bt.count, bt.bytes \o more)
            = State(Len(bt.bytes) + 1, t, l, bt.haveFirst, v)

\* The bytes rec, behind byte p.
Holds(bytes, p, rec) == /\ Len(bytes) \in Nat /\ p + Len(rec) <= Len(bytes)
                        /\ \A i \in 1..Len(rec) : bytes[p + i] = rec[i]

\* The batch c is bt and those bytes, one record more.
Extends(c, bt, rec) == /\ bt.bytes \in Seq(Byte) /\ bt.count \in Nat /\ rec \in Seq(Byte)
                       /\ c.bytes = bt.bytes \o rec /\ c.count = bt.count + 1

\* And this is what the host makes of them.
Steps(c, bt, rec, t, l, v, t2, l2, v2) ==
    \A bytes : Holds(bytes, Len(bt.bytes), rec)
        => HostRecord(State(Len(bt.bytes) + 1, t, l, bt.haveFirst, v), bytes)
               = State(Len(bt.bytes) + Len(rec) + 1, t2, l2, c.haveFirst, v2)

\* From a record to the next.
LEMMA ReadingNext ==
    ASSUME NEW c, NEW bt, NEW rec, Extends(c, bt, rec),
           NEW t, NEW l, NEW v, NEW t2, NEW l2, NEW v2,
           Reading(bt, t, l, v), Steps(c, bt, rec, t, l, v, t2, l2, v2)
    PROVE  /\ Reading(c, t2, l2, v2)
           /\ c.bytes \in Seq(Byte) /\ c.count = bt.count + 1
           /\ Len(c.bytes) = Len(bt.bytes) + Len(rec)
           /\ Len(rec) \in Nat /\ Len(bt.bytes) \in Nat
<1> DEFINE h == c.haveFirst
           bs == bt.bytes
<1>1. /\ c.bytes = bs \o rec /\ c.count = bt.count + 1
      /\ bs \in Seq(Byte) /\ bt.count \in Nat /\ rec \in Seq(Byte)
  BY DEF Extends
<1>2. /\ bs \o rec \in Seq(Byte) /\ Len(bs \o rec) = Len(bs) + Len(rec)
      /\ Len(bs) \in Nat /\ Len(rec) \in Nat
  BY <1>1, BytePieces, LenProperties
<1>3. ASSUME NEW more \in Seq(Byte)
      PROVE  After(c.count, c.bytes \o more) = State(Len(c.bytes) + 1, t2, l2, h, v2)
  <2> DEFINE w == (bs \o rec) \o more
             u == rec \o more
  <2>1. /\ w = bs \o u /\ u \in Seq(Byte)
        /\ Len(w) >= Len(bs) + Len(rec) /\ Len(w) \in Nat
        /\ \A i \in 1..Len(rec) : w[Len(bs) + i] = rec[i]
    <3>1. bs \in Seq(Byte) /\ rec \in Seq(Byte) /\ more \in Seq(Byte)
      BY <1>1
    <3> HIDE DEF bs
    <3>2. Lies(Byte, bs, rec, more)
      BY <3>1, Within
    <3> QED
      BY <3>2 DEF Lies
  <2> HIDE DEF u
  <2>2. After(bt.count, bs \o u) = State(Len(bs) + 1, t, l, bt.haveFirst, v)
    BY <2>1 DEF Reading
  <2>3. Holds(w, Len(bs), rec)
    <3> HIDE DEF w, bs
    <3> QED
      BY <1>2, <2>1 DEF Holds
  <2> HIDE DEF w
  <2>4. After(bt.count, w) = State(Len(bs) + 1, t, l, bt.haveFirst, v)
    BY <2>1, <2>2
  <2>5. After(bt.count + 1, w) = HostRecord(After(bt.count, w), w)
    BY <1>1, AfterNext
  <2>6. HostRecord(State(Len(bs) + 1, t, l, bt.haveFirst, v), w)
            = State(Len(bs) + Len(rec) + 1, t2, l2, h, v2)
    BY <2>3 DEF Steps
  <2>7. After(bt.count + 1, w) = State(Len(bs) + Len(rec) + 1, t2, l2, h, v2)
    BY <2>4, <2>5, <2>6
  <2> HIDE DEF h, bs
  <2> QED
    BY <1>1, <1>2, <2>7 DEF w
<1>4. Reading(c, t2, l2, v2)
  BY <1>3 DEF Reading
<1> QED
  BY <1>1, <1>2, <1>4

\* Nothing is read of an empty batch.
LEMMA ReadingEmpty == Reading(EmptyBatch, 0, 0, <<>>)
<1>1. /\ EmptyBatch.bytes = <<>> /\ EmptyBatch.count = 0 /\ EmptyBatch.haveFirst = FALSE
      /\ Len(<<>>) = 0
  BY EmptySeq DEF EmptyBatch
<1>2. HostStart = State(1, 0, 0, FALSE, <<>>)
  BY Zenon DEF HostStart, State, Full, Yes
<1>3. \A bytes : After(0, bytes) = HostStart
  BY AfterNext
<1> DEFINE no == EmptyBatch.haveFirst
<1>4. HostStart = State(1, 0, 0, no, <<>>)
  BY <1>1, <1>2, Zenon
<1> HIDE DEF no
<1>5. \A more \in Seq(Byte) :
          After(EmptyBatch.count, EmptyBatch.bytes \o more)
              = State(Len(EmptyBatch.bytes) + 1, 0, 0, no, <<>>)
  <2>1. Len(EmptyBatch.bytes) + 1 = 1
    BY <1>1
  <2> QED
    BY <1>1, <1>3, <1>4, <2>1
<1> QED
  BY <1>5 DEF Reading, no

-----------------------------------------------------------------------------
(* A sequence whose elements may be anything.                              *)

IsSeq(v) == \E S : v \in Seq(S)

\* What is appended to it.
LEMMA SeqGrows ==
    ASSUME NEW v, IsSeq(v), NEW e
    PROVE  /\ IsSeq(Append(v, e)) /\ Len(Append(v, e)) = Len(v) + 1 /\ Len(v) \in Nat
           /\ Append(v, e)[Len(v) + 1] = e
           /\ \A i \in 1..Len(v) : Append(v, e)[i] = v[i]
<1>1. PICK S : v \in Seq(S)
  BY DEF IsSeq
<1> DEFINE T == S \cup {e}
<1>2. v \in Seq(T)
  <2>1. PICK n \in Nat : v \in [1..n -> S]
    BY <1>1, SeqDef
  <2>2. v \in [1..n -> T]
    BY <2>1
  <2> HIDE DEF T
  <2> QED
    BY <2>2, SeqDef
<1>3. e \in T
  OBVIOUS
<1> HIDE DEF T
<1>4. /\ Append(v, e) \in Seq(T) /\ Len(Append(v, e)) = Len(v) + 1 /\ Len(v) \in Nat
      /\ Append(v, e)[Len(v) + 1] = e
      /\ \A i \in 1..Len(v) : Append(v, e)[i] = v[i]
  BY <1>2, <1>3, AppendProperties, LenProperties
<1> QED
  BY <1>4 DEF IsSeq

-----------------------------------------------------------------------------
(* The ticks in a batch.                                                   *)

\* No two records up to the i-th are a turn of the low byte apart.
CloseIn(s, i) == \A j \in 2..i : s[j][3] < s[j - 1][3] + ByteMod

\* What the host remembers is of the last record.
Latest(bt, s, t, l) ==
    /\ s = <<>> => ~bt.haveFirst
    /\ s # <<>> => /\ bt.haveFirst
                   /\ l = Low(s[Len(s)][3])
                   /\ CloseIn(s, Len(s)) => t = s[Len(s)][3] % WordMod

\* So it finds the tick of the next one (pcan_time.c:82-96).
LEMMA StampTick ==
    ASSUME NEW bt, NEW s \in Seq(Record), NEW t, NEW l, Latest(bt, s, t, l),
           NEW e \in Record, s # <<>> => s[Len(s)][3] <= e[3],
           CloseIn(Append(s, e), Len(s) + 1)
    PROVE  NextTick(t, l, bt.haveFirst, e[3] % WordMod) = e[3] % WordMod
<1> DEFINE n == Len(s)
           at == e[3]
           s2 == Append(s, e)
<1>1. /\ n \in Nat /\ s2[n + 1] = e /\ \A i \in 1..n : s2[i] = s[i]
  BY AppendProperties, LenProperties
<1>2. at \in Nat
  BY DEF Record
<1>3. /\ at % WordMod = Low(at) + ByteMod * High(at)
      /\ Low(at % WordMod) = Low(at) /\ High(at % WordMod) = High(at)
  BY <1>2, Digits
<1>4. CASE s = <<>>
  <2>1. ~bt.haveFirst
    BY <1>4 DEF Latest
  <2>2. NextTick(t, l, bt.haveFirst, at % WordMod)
            = Low(at % WordMod) + ByteMod * High(at % WordMod)
    BY <2>1 DEF NextTick
  <2> QED
    BY <1>3, <2>2
<1>5. CASE s # <<>>
  <2> DEFINE last == s[n][3]
  <2>1. n \in 1..n /\ n # 0 /\ n + 1 \in 2..n + 1 /\ (n + 1) - 1 = n
    BY <1>1, <1>5, EmptySeq
  <2>2. last \in Nat
    <3>1. s[n] \in Record
      BY <2>1, ElementOfSeq
    <3> QED
      BY <3>1 DEF Record
  <2>3. last <= at /\ at < last + ByteMod
    BY <1>1, <1>5, <2>1 DEF CloseIn
  <2>4. CloseIn(s, n)
    <3> SUFFICES ASSUME NEW j \in 2..n PROVE s[j][3] < s[j - 1][3] + ByteMod
      BY DEF CloseIn
    <3>1. j \in 2..n + 1 /\ j \in 1..n /\ j - 1 \in 1..n
      BY <1>1
    <3> QED
      BY <1>1, <3>1 DEF CloseIn
  <2>5. bt.haveFirst /\ l = Low(last) /\ t = last % WordMod
    BY <1>5, <2>4 DEF Latest
  <2>6. High(t) = High(last)
    BY <2>2, <2>5, Digits
  <2>7. at % WordMod = Low(at) + ByteMod * ((High(last) + (IF Low(at) < Low(last) THEN 1 ELSE 0))
                                            % ByteMod)
    BY <1>2, <2>2, <2>3, TickOn
  <2>8. NextTick(t, l, bt.haveFirst, at % WordMod)
            = Low(at % WordMod) + ByteMod * ((High(t) + (IF Low(at % WordMod) < l THEN 1 ELSE 0))
                                             % ByteMod)
    BY <2>5 DEF NextTick
  <2> QED
    BY <1>3, <2>5, <2>6, <2>7, <2>8
<1> QED
  BY <1>4, <1>5

-----------------------------------------------------------------------------
(* A batch that the host understands.                                      *)

BatchOK(bt, s) == /\ bt.bytes \in Seq(Byte) /\ bt.haveFirst \in BOOLEAN
                  /\ bt.count = Len(s) /\ s \in Seq(Record)

Decoded(bt, s, t, l, v) ==
    /\ Reading(bt, t, l, v) /\ IsSeq(v) /\ Len(v) = Len(s)
    /\ \A i \in 1..Len(s) : /\ Understood(v[i], s[i])
                            /\ CloseIn(s, i) => TickOf(v[i]) = s[i][3] % WordMod

\* Whatever it may end with; and one that can be gone on with.
Readable(bt, s) == BatchOK(bt, s) /\ \E t, l, v : Decoded(bt, s, t, l, v)
Open(bt, s) == BatchOK(bt, s) /\ \E t, l, v : Decoded(bt, s, t, l, v) /\ Latest(bt, s, t, l)

\* An empty one.
LEMMA OpenEmpty == Open(EmptyBatch, <<>>)
<1>1. \A S : <<>> \in Seq(S) /\ Len(<<>>) = 0
  BY EmptySeq
<1>2. BatchOK(EmptyBatch, <<>>)
  BY <1>1 DEF BatchOK, EmptyBatch
<1>3. IsSeq(<<>>) /\ \A i \in 1..0 : FALSE
  BY <1>1 DEF IsSeq
<1>4. Decoded(EmptyBatch, <<>>, 0, 0, <<>>)
  BY <1>1, <1>3, ReadingEmpty DEF Decoded
<1>5. Latest(EmptyBatch, <<>>, 0, 0)
  BY DEF Latest, EmptyBatch
<1> QED
  BY <1>2, <1>4, <1>5 DEF Open

\* With one more record, what was understood before stays so.
LEMMA DecodedNext ==
    ASSUME NEW bt, NEW s \in Seq(Record), NEW t, NEW l, NEW v, Decoded(bt, s, t, l, v),
           NEW e \in Record, NEW bt2, NEW t2, NEW l2, NEW x,
           Reading(bt2, t2, l2, Append(v, x)), Understood(x, e),
           CloseIn(Append(s, e), Len(s) + 1) => TickOf(x) = e[3] % WordMod
    PROVE  Decoded(bt2, Append(s, e), t2, l2, Append(v, x))
<1> DEFINE n == Len(s)
           s2 == Append(s, e)
           v2 == Append(v, x)
<1>1. /\ n \in Nat /\ Len(s2) = n + 1 /\ s2[n + 1] = e
      /\ \A i \in 1..n : s2[i] = s[i]
  BY AppendProperties, LenProperties
<1>2. /\ IsSeq(v2) /\ Len(v2) = n + 1 /\ v2[n + 1] = x
      /\ \A i \in 1..n : v2[i] = v[i]
  BY SeqGrows DEF Decoded
<1>3. ASSUME NEW i \in 1..n, CloseIn(s2, i) PROVE CloseIn(s, i)
  <2> SUFFICES ASSUME NEW j \in 2..i PROVE s[j][3] < s[j - 1][3] + ByteMod
    BY DEF CloseIn
  <2>1. j \in 1..n /\ j - 1 \in 1..n
    BY <1>1
  <2>2. s2[j][3] < s2[j - 1][3] + ByteMod
    BY <1>3 DEF CloseIn
  <2> QED
    BY <1>1, <2>1, <2>2
<1> HIDE DEF s2, v2
<1>4. ASSUME NEW i \in 1..n + 1
      PROVE  /\ Understood(v2[i], s2[i])
             /\ CloseIn(s2, i) => TickOf(v2[i]) = s2[i][3] % WordMod
  <2>1. CASE i = n + 1
    <3>1. CloseIn(s2, n + 1) => TickOf(x) = e[3] % WordMod
      BY DEF s2
    <3> QED
      BY <1>1, <1>2, <2>1, <3>1
  <2>2. CASE i # n + 1
    <3>1. i \in 1..n
      BY <1>1, <2>2
    <3>2. /\ Understood(v[i], s[i])
          /\ CloseIn(s, i) => TickOf(v[i]) = s[i][3] % WordMod
      BY <3>1 DEF Decoded
    <3>3. s2[i] = s[i] /\ v2[i] = v[i] /\ (CloseIn(s2, i) => CloseIn(s, i))
      BY <1>1, <1>2, <1>3, <3>1
    <3> HIDE DEF n
    <3> QED
      BY <3>2, <3>3
  <2> QED
    BY <2>1, <2>2
<1>5. Reading(bt2, t2, l2, v2)
  BY DEF v2
<1> QED
  BY <1>1, <1>2, <1>4, <1>5 DEF Decoded, s2, v2

\* What the host remembers after a stamped record.
LEMMA LatestNext ==
    ASSUME NEW s \in Seq(Record), NEW e \in Record, NEW bt2, bt2.haveFirst,
           NEW t2, NEW l2, l2 = Low(e[3]),
           CloseIn(Append(s, e), Len(s) + 1) => t2 = e[3] % WordMod
    PROVE  Latest(bt2, Append(s, e), t2, l2)
<1> DEFINE s2 == Append(s, e)
<1>1. /\ s2 \in Seq(Record) /\ Len(s2) = Len(s) + 1 /\ s2[Len(s) + 1] = e
      /\ Len(s) \in Nat
  BY AppendProperties, LenProperties
<1>2. s2 # <<>>
  BY <1>1, EmptySeq
<1>3. CloseIn(s2, Len(s) + 1) => t2 = e[3] % WordMod
  OBVIOUS
<1> HIDE DEF s2
<1>4. Latest(bt2, s2, t2, l2)
  BY <1>1, <1>2, <1>3 DEF Latest
<1> QED
  BY <1>4 DEF s2

\* A stamped record, whatever it is, of which the host sees x.
LEMMA StampedAdded ==
    ASSUME NEW bt, NEW s, BatchOK(bt, s), NEW t, NEW l, NEW v,
           Decoded(bt, s, t, l, v), Latest(bt, s, t, l),
           NEW e \in Record, s # <<>> => s[Len(s)][3] <= e[3],
           NEW bt2, NEW rec, Extends(bt2, bt, rec), bt2.haveFirst = Yes,
           NEW nt, nt = NextTick(t, l, bt.haveFirst, e[3] % WordMod), NEW x,
           Steps(bt2, bt, rec, t, l, v, nt, Low(e[3]), Append(v, x)),
           Understood(x, e), TickOf(x) = nt
    PROVE  /\ Open(bt2, Append(s, e))
           /\ Len(bt2.bytes) = Len(bt.bytes) + Len(rec)
<1> DEFINE lo == Low(e[3])
<1>1. /\ bt.count = Len(s) /\ s \in Seq(Record) /\ bt.count \in Nat
      /\ bt.haveFirst \in BOOLEAN
  BY LenProperties DEF BatchOK
<1>2. /\ Reading(bt2, nt, lo, Append(v, x))
      /\ bt2.bytes \in Seq(Byte) /\ Len(bt2.bytes) = Len(bt.bytes) + Len(rec)
      /\ bt2.count = bt.count + 1
  <2> HIDE DEF lo
  <2>1. Reading(bt, t, l, v)
    BY DEF Decoded
  <2> QED
    BY <2>1, ReadingNext DEF lo
<1>3. CloseIn(Append(s, e), Len(s) + 1) => nt = e[3] % WordMod
  BY <1>1, StampTick
<1> HIDE DEF lo
<1>4. Decoded(bt2, Append(s, e), nt, lo, Append(v, x))
  BY <1>1, <1>2, <1>3, DecodedNext
<1>5. Latest(bt2, Append(s, e), nt, lo)
  <2>1. bt2.haveFirst
    BY DEF Yes
  <2> QED
    BY <1>1, <1>3, <2>1, LatestNext DEF lo
<1>6. BatchOK(bt2, Append(s, e))
  <2>1. bt2.haveFirst \in BOOLEAN /\ bt2.count = Len(s) + 1
    BY <1>1, <1>2 DEF Yes
  <2>2. Append(s, e) \in Seq(Record) /\ Len(Append(s, e)) = Len(s) + 1
    BY <1>1, AppendProperties
  <2> QED
    BY <1>2, <2>1, <2>2 DEF BatchOK
<1> QED
  BY <1>2, <1>4, <1>5, <1>6 DEF Open

\* pcan_msg_batch_add_frame (pcan_msg.c:41-128).
LEMMA FrameAdded ==
    ASSUME NEW bt, NEW s, Open(bt, s), NEW n \in Frames, NEW at \in Nat,
           s # <<>> => s[Len(s)][3] <= at
    PROVE  /\ Open(WithFrame(bt, FrameAt(n, at)), Append(s, <<"frame", n, at>>))
           /\ BatchLen(WithFrame(bt, FrameAt(n, at)))
                  = BatchLen(bt) + FrameSize(bt, FrameAt(n, at))
<1> DEFINE f == FrameAt(n, at)
           rec == FrameRec(bt, f)
           bt2 == WithFrame(bt, f)
           e == <<"frame", n, at>>
<1>1. /\ bt.bytes \in Seq(Byte) /\ bt.haveFirst \in BOOLEAN
      /\ bt.count = Len(s) /\ s \in Seq(Record) /\ bt.count \in Nat
  BY LenProperties DEF Open, BatchOK
<1>2. PICK t, l, v : Decoded(bt, s, t, l, v) /\ Latest(bt, s, t, l)
  BY DEF Open
<1>3. IsFrame(f, n, at)
  BY FrameFacts
<1> DEFINE k == IdBytes(f)
           w == Width(bt.haveFirst)
           d == DataBytes(f)
           nt == NextTick(t, l, bt.haveFirst, f.ts)
           lo == Low(f.ts)
           x == <<"frame", HostView(f), nt>>
<1>4. TsWidth(bt) = w
  BY DEF TsWidth, Width
<1>5. /\ rec \in Seq(Byte) /\ Len(rec) = 1 + k + w + d
      /\ FrameIs(rec, 0, k, w, d, f)
  BY <1>1, <1>4, FrameRecIs
<1>6. bt2 = Put(bt, rec, TRUE) /\ Put(bt, rec, TRUE).haveFirst = Yes
  BY Writes DEF Put, Yes
<1>7. e \in Record /\ e[1] = "frame" /\ e[2] = n /\ e[3] = at
  BY DEF Record
<1>8. k \in {2, 4} /\ w \in {1, 2} /\ d \in Nat /\ TagBytes(f) = 0 /\ f.ts = at % WordMod
  BY <1>3, PcanMsgAssumption DEF IsFrame, Width
<1> DEFINE p == Len(bt.bytes)
<1>9. p \in Nat
  BY <1>1, LenProperties
<1>10. ASSUME NEW bytes, Holds(bytes, p, rec)
       PROVE  HostRecord(State(p + 1, t, l, bt.haveFirst, v), bytes)
                  = State(p + Len(rec) + 1, nt, lo, Yes, Append(v, x))
  <2>1. /\ Len(bytes) \in Nat /\ p + (1 + k + w + d) <= Len(bytes)
        /\ \A i \in 1..Len(rec) : bytes[p + i] = rec[i]
    BY <1>5, <1>10 DEF Holds
  <2>2. FrameIs(bytes, p, k, w, d, f)
    <3> HIDE DEF rec, k, w, d, f, p
    <3>1. k \in Nat /\ k >= 2 /\ w \in {1, 2} /\ d \in Nat /\ Len(rec) = 1 + k + w + d
      BY <1>5, <1>8
    <3>2. \A i \in 1..Len(rec) : bytes[p + i] = rec[i]
      BY <2>1
    <3>3. bytes[p + 1] = <<"sl", SlOf(f)>>
      <4>1. 1 \in 1..Len(rec) /\ 0 + 1 = 1
        BY <3>1
      <4> QED
        BY <1>5, <3>2, <4>1 DEF FrameIs
    <3>4. ASSUME NEW i \in 1..k PROVE bytes[p + 1 + i] = <<"id", WordOf(f)>>
      <4>1. 1 + i \in 1..Len(rec) /\ 0 + 1 + i = 1 + i /\ p + (1 + i) = p + 1 + i
        BY <1>9, <3>1
      <4> QED
        BY <1>5, <3>2, <4>1 DEF FrameIs
    <3>5. bytes[p + 1 + k + 1] = <<"ts", Low(f.ts)>>
      <4>1. /\ 1 + k + 1 \in 1..Len(rec) /\ 0 + 1 + k + 1 = 1 + k + 1
            /\ p + (1 + k + 1) = p + 1 + k + 1
        BY <1>9, <3>1
      <4> QED
        BY <1>5, <3>2, <4>1 DEF FrameIs
    <3>6. w = 2 => bytes[p + 1 + k + 2] = <<"ts", High(f.ts)>>
      <4>1. w = 2 => /\ 1 + k + 2 \in 1..Len(rec) /\ 0 + 1 + k + 2 = 1 + k + 2
                     /\ p + (1 + k + 2) = p + 1 + k + 2
        BY <1>9, <3>1
      <4> QED
        BY <1>5, <3>2, <4>1 DEF FrameIs
    <3>7. ASSUME NEW i \in 1..d PROVE bytes[p + 1 + k + w + i] = <<"data", f.data[i]>>
      <4>1. /\ 1 + k + w + i \in 1..Len(rec) /\ 0 + 1 + k + w + i = 1 + k + w + i
            /\ p + (1 + k + w + i) = p + 1 + k + w + i
        BY <1>9, <3>1
      <4> QED
        BY <1>5, <3>2, <4>1 DEF FrameIs
    <3> QED
      BY <3>3, <3>4, <3>5, <3>6, <3>7 DEF FrameIs
  <2> HIDE DEF f, rec, p
  <2>3. HostRecord(State(p + 1, t, l, bt.haveFirst, v), bytes)
            = State(p + (1 + k + w + d) + 1, nt, lo, Yes, Append(v, x))
    BY <1>1, <1>3, <1>9, <2>1, <2>2, ReadsFrame
  <2> QED
    BY <1>5, <2>3
<1>11. Understood(x, e) /\ TickOf(x) = nt
  <2>1. x[1] = "frame" /\ x[2] = HostView(f) /\ x[3] = nt
    OBVIOUS
  <2> HIDE DEF x, f, e
  <2> QED
    BY <1>7, <2>1 DEF Understood, TickOf, f
<1>12. Open(bt2, Append(s, e)) /\ Len(bt2.bytes) = p + Len(rec)
  <2>1. Extends(bt2, bt, rec)
    <3> HIDE DEF rec, bt2
    <3> QED
      BY <1>1, <1>5, <1>6 DEF Extends, Put
  <2>2. BatchOK(bt, s)
    BY DEF Open
  <2>3. lo = Low(e[3]) /\ nt = NextTick(t, l, bt.haveFirst, e[3] % WordMod)
    BY <1>7, <1>8, Digits
  <2>4. bt2.haveFirst = Yes /\ (s # <<>> => s[Len(s)][3] <= e[3])
    BY <1>6, <1>7
  <2> HIDE DEF x, rec, bt2, nt, lo, e
  <2>5. Steps(bt2, bt, rec, t, l, v, nt, Low(e[3]), Append(v, x))
    BY <1>6, <1>10, <2>3 DEF Steps
  <2> QED
    BY <1>2, <1>7, <1>11, <2>1, <2>2, <2>3, <2>4, <2>5, StampedAdded
<1>13. BatchLen(bt2) = BatchLen(bt) + FrameSize(bt, f)
  <2>1. FrameSize(bt, f) = 1 + k + w + d + 0
    BY <1>4, <1>8 DEF FrameSize
  <2> HIDE DEF rec, k, w, d, p, bt2
  <2>2. Len(bt2.bytes) = p + (1 + k + w + d)
    BY <1>5, <1>12
  <2>3. BatchLen(bt2) = HeaderLen + (p + (1 + k + w + d)) /\ BatchLen(bt) = HeaderLen + p
    BY <2>2 DEF BatchLen, p
  <2> QED
    BY <1>8, <1>9, <2>1, <2>3 DEF HeaderLen
<1> QED
  BY <1>12, <1>13 DEF bt2, e

\* pcan_msg_batch_add_error (pcan_msg.c:131-201).
LEMMA ErrorAdded ==
    ASSUME NEW bt, NEW s, Open(bt, s), NEW mask \in Masks, NEW at \in Nat,
           s # <<>> => s[Len(s)][3] <= at
    PROVE  /\ Open(WithError(bt, mask, at % WordMod), Append(s, <<"error", mask, at>>))
           /\ BatchLen(WithError(bt, mask, at % WordMod))
                  = BatchLen(bt) + StatusSize(bt, <<>>, TRUE)
<1> DEFINE tt == at % WordMod
           rec == ErrorRec(bt, mask, tt)
           bt2 == WithError(bt, mask, tt)
           e == <<"error", mask, at>>
           w == Width(bt.haveFirst)
           p == Len(bt.bytes)
<1>1. /\ bt.bytes \in Seq(Byte) /\ bt.haveFirst \in BOOLEAN
      /\ bt.count = Len(s) /\ s \in Seq(Record) /\ bt.count \in Nat /\ p \in Nat
  BY LenProperties DEF Open, BatchOK
<1>2. PICK t, l, v : Decoded(bt, s, t, l, v) /\ Latest(bt, s, t, l)
  BY DEF Open
<1>3. tt \in Nat /\ Low(tt) = Low(at) /\ w \in {1, 2}
  BY Digits DEF Width
<1>4. TsWidth(bt) = w
  BY DEF TsWidth, Width
<1> DEFINE nt == NextTick(t, l, bt.haveFirst, tt)
           x == <<"error", mask, nt>>
<1> HIDE DEF tt
<1>5. /\ rec \in Seq(Byte) /\ Len(rec) = 3 + w
      /\ ErrorIs(rec, 0, w, mask, tt)
  BY <1>1, <1>3, <1>4, ErrorRecIs
<1>6. bt2 = Put(bt, rec, TRUE) /\ Put(bt, rec, TRUE).haveFirst = Yes
  BY <1>1, <1>3, Writes DEF Put, Yes
<1>7. e \in Record /\ e[1] = "error" /\ e[2] = mask /\ e[3] = at
  BY DEF Record
<1>8. ASSUME NEW bytes, Holds(bytes, p, rec)
      PROVE  HostRecord(State(p + 1, t, l, bt.haveFirst, v), bytes)
                 = State(p + Len(rec) + 1, nt, Low(tt), Yes, Append(v, x))
  <2>1. /\ Len(bytes) \in Nat /\ p + (3 + w) <= Len(bytes)
        /\ \A i \in 1..Len(rec) : bytes[p + i] = rec[i]
    BY <1>5, <1>8 DEF Holds
  <2>2. ErrorIs(bytes, p, w, mask, tt)
    <3> HIDE DEF rec, w, p
    <3>1. /\ 1 \in 1..Len(rec) /\ 2 \in 1..Len(rec) /\ 3 \in 1..Len(rec)
          /\ 4 \in 1..Len(rec) /\ (w = 2 => 5 \in 1..Len(rec))
      BY <1>3, <1>5
    <3>2. /\ rec[1] = <<"sl", ErrorSl>> /\ rec[2] = <<"func", "ERROR">>
          /\ rec[3] = <<"num", mask>> /\ rec[4] = <<"ts", Low(tt)>>
          /\ w = 2 => rec[5] = <<"ts", High(tt)>>
      <4>1. 0 + 1 = 1 /\ 0 + 2 = 2 /\ 0 + 3 = 3 /\ 0 + 4 = 4 /\ 0 + 5 = 5
        OBVIOUS
      <4> QED
        BY <1>5, <4>1 DEF ErrorIs
    <3> QED
      BY <2>1, <3>1, <3>2 DEF ErrorIs
  <2> HIDE DEF rec, p
  <2>3. HostRecord(State(p + 1, t, l, bt.haveFirst, v), bytes)
            = State(p + (3 + w) + 1, nt, Low(tt), Yes, Append(v, x))
    BY <1>1, <2>1, <2>2, ReadsError
  <2> QED
    BY <1>5, <2>3
<1>9. Understood(x, e) /\ TickOf(x) = nt
  <2>1. x[1] = "error" /\ x[2] = mask /\ x[3] = nt
    OBVIOUS
  <2> HIDE DEF x, e
  <2> QED
    BY <1>7, <2>1 DEF Understood, TickOf
<1>10. Open(bt2, Append(s, e)) /\ Len(bt2.bytes) = p + Len(rec)
  <2>1. Extends(bt2, bt, rec)
    <3> HIDE DEF rec, bt2
    <3> QED
      BY <1>1, <1>5, <1>6 DEF Extends, Put
  <2>2. BatchOK(bt, s)
    BY DEF Open
  <2>3. nt = NextTick(t, l, bt.haveFirst, e[3] % WordMod)
    BY <1>7 DEF tt
  <2>4. bt2.haveFirst = Yes /\ (s # <<>> => s[Len(s)][3] <= e[3])
    BY <1>6, <1>7
  <2> HIDE DEF x, rec, bt2, nt, e
  <2>5. Steps(bt2, bt, rec, t, l, v, nt, Low(e[3]), Append(v, x))
    BY <1>3, <1>6, <1>7, <1>8 DEF Steps
  <2> QED
    BY <1>2, <1>7, <1>9, <2>1, <2>2, <2>3, <2>4, <2>5, StampedAdded
<1>11. BatchLen(bt2) = BatchLen(bt) + StatusSize(bt, <<>>, TRUE)
  <2>1. StatusSize(bt, <<>>, TRUE) = 3 + w
    BY <1>3, <1>4, EmptySeq DEF StatusSize
  <2> HIDE DEF rec, w, p, bt2
  <2>2. Len(bt2.bytes) = p + (3 + w)
    BY <1>5, <1>10
  <2>3. BatchLen(bt2) = HeaderLen + (p + (3 + w)) /\ BatchLen(bt) = HeaderLen + p
    BY <2>2 DEF BatchLen, p
  <2>4. p \in Nat /\ w \in Nat
    BY <1>1, <1>3
  <2>5. HeaderLen + (p + (3 + w)) = HeaderLen + p + (3 + w)
    BY <2>4 DEF HeaderLen
  <2> HIDE DEF e
  <2> QED
    BY <2>1, <2>3, <2>5
<1> QED
  BY <1>10, <1>11 DEF bt2, e, tt

\* pcan_msg_batch_add_calib_ts (pcan_msg.c:182-195): have_first stays as it is.
LEMMA CalibAdded ==
    ASSUME NEW bt, NEW s, Open(bt, s), NEW at \in Nat
    PROVE  /\ Readable(WithCalib(bt, at % WordMod), Append(s, <<"calib", 0, at>>))
           /\ BatchLen(WithCalib(bt, at % WordMod)) = BatchLen(bt) + 5
<1> DEFINE tt == at % WordMod
           rec == CalibRec(tt)
           bt2 == WithCalib(bt, tt)
           e == <<"calib", 0, at>>
           x == <<"calib", tt>>
           p == Len(bt.bytes)
<1>1. /\ bt.bytes \in Seq(Byte) /\ bt.haveFirst \in BOOLEAN
      /\ bt.count = Len(s) /\ s \in Seq(Record) /\ bt.count \in Nat /\ p \in Nat
  BY LenProperties DEF Open, BatchOK
<1>2. PICK t, l, v : Decoded(bt, s, t, l, v)
  BY DEF Open
<1>3. tt \in Nat /\ tt % WordMod = tt
  <2>1. /\ tt \in Nat /\ tt = Low(at) + ByteMod * High(at)
        /\ Low(tt) = Low(at) /\ High(tt) = High(at)
    BY Digits
  <2> HIDE DEF tt
  <2>2. tt % WordMod = Low(tt) + ByteMod * High(tt)
    BY <2>1, Digits
  <2> QED
    BY <2>1, <2>2
<1>4. tt = at % WordMod
  OBVIOUS
<1> HIDE DEF tt
<1>5. rec \in Seq(Byte) /\ Len(rec) = 5 /\ CalibIs(rec, 0, tt)
  BY <1>3, CalibRecIs
<1>6. /\ bt2.bytes = bt.bytes \o rec /\ bt2.count = bt.count + 1
      /\ bt2.haveFirst = bt.haveFirst
  <2>1. bt2 = Put(bt, rec, FALSE)
    BY <1>3, Writes
  <2> HIDE DEF bt2, rec
  <2> QED
    BY <1>1, <2>1 DEF Put
<1>7. e \in Record /\ e[1] = "calib" /\ e[3] = at
  BY DEF Record
<1>8. ASSUME NEW bytes, Holds(bytes, p, rec)
      PROVE  HostRecord(State(p + 1, t, l, bt.haveFirst, v), bytes)
                 = State(p + Len(rec) + 1, tt, l, bt.haveFirst, Append(v, x))
  <2>1. /\ Len(bytes) \in Nat /\ p + 5 <= Len(bytes)
        /\ \A i \in 1..Len(rec) : bytes[p + i] = rec[i]
    BY <1>5, <1>8 DEF Holds
  <2>2. CalibIs(bytes, p, tt)
    <3> HIDE DEF rec, p
    <3>1. /\ 1 \in 1..Len(rec) /\ 2 \in 1..Len(rec) /\ 3 \in 1..Len(rec)
          /\ 4 \in 1..Len(rec) /\ 5 \in 1..Len(rec)
      BY <1>5
    <3>2. /\ rec[1] = <<"sl", CalibSl>> /\ rec[2] = <<"func", "TS">>
          /\ rec[3] = <<"num", 0>> /\ rec[4] = <<"data", Low(tt)>>
          /\ rec[5] = <<"data", High(tt)>>
      <4>1. 0 + 1 = 1 /\ 0 + 2 = 2 /\ 0 + 3 = 3 /\ 0 + 4 = 4 /\ 0 + 5 = 5
        OBVIOUS
      <4> QED
        BY <1>5, <4>1 DEF CalibIs
    <3> QED
      BY <2>1, <3>1, <3>2 DEF CalibIs
  <2> HIDE DEF rec, p
  <2>3. HostRecord(State(p + 1, t, l, bt.haveFirst, v), bytes)
            = State(p + 5 + 1, tt % WordMod, l, bt.haveFirst,
                    Append(v, <<"calib", tt % WordMod>>))
    BY <1>1, <1>3, <2>1, <2>2, ReadsCalib
  <2> QED
    BY <1>3, <1>5, <2>3
<1>9. Understood(x, e) /\ TickOf(x) = tt
  <2>1. x[1] = "calib" /\ x[2] = tt
    OBVIOUS
  <2> HIDE DEF x, e
  <2> QED
    BY <1>7, <2>1 DEF Understood, TickOf
<1> HIDE DEF x, rec, bt2, e
<1>10. /\ Reading(bt2, tt, l, Append(v, x))
       /\ bt2.bytes \in Seq(Byte) /\ Len(bt2.bytes) = p + Len(rec)
  <2>1. Extends(bt2, bt, rec)
    BY <1>1, <1>5, <1>6 DEF Extends
  <2>2. Steps(bt2, bt, rec, t, l, v, tt, l, Append(v, x))
    BY <1>6, <1>8 DEF Steps
  <2>3. Reading(bt, t, l, v)
    BY <1>2 DEF Decoded
  <2> HIDE DEF p
  <2> QED
    BY <2>1, <2>2, <2>3, ReadingNext DEF p
<1>11. Decoded(bt2, Append(s, e), tt, l, Append(v, x))
  <2>1. TickOf(x) = e[3] % WordMod
    BY <1>4, <1>7, <1>9
  <2> QED
    BY <1>1, <1>2, <1>7, <1>9, <1>10, <2>1, DecodedNext
<1>12. BatchOK(bt2, Append(s, e))
  <2>1. Append(s, e) \in Seq(Record) /\ Len(Append(s, e)) = Len(s) + 1
    BY <1>1, <1>7, AppendProperties
  <2> QED
    BY <1>1, <1>6, <1>10, <2>1 DEF BatchOK
<1>13. Readable(bt2, Append(s, e))
  BY <1>11, <1>12 DEF Readable
<1>14. BatchLen(bt2) = BatchLen(bt) + 5
  <2> HIDE DEF p
  <2>1. Len(bt2.bytes) = p + 5
    BY <1>5, <1>10
  <2>2. BatchLen(bt2) = HeaderLen + (p + 5) /\ BatchLen(bt) = HeaderLen + p
    BY <2>1 DEF BatchLen, p
  <2>3. HeaderLen + (p + 5) = HeaderLen + p + 5
    BY <1>1 DEF HeaderLen
  <2> QED
    BY <2>2, <2>3
<1> QED
  BY <1>13, <1>14 DEF bt2, e, tt

-----------------------------------------------------------------------------
(* The ticks on the way: no record is put into the batch that is older     *)
(* than the last one in it.                                                *)

\* No frame behind it was received before x.
Ahead(x) == /\ x <= now
            /\ \A i \in 1..Len(ring) : x <= ring[i][2]
            /\ rxHand # <<>> => x <= rxHand[2]

\* The frames in the ring and in the hand of twai_rx_task are in the order of
\* their ticks.
Sorted == /\ \A i \in 1..Len(ring) :
                 /\ ring[i][2] <= now
                 /\ \A j \in i..Len(ring) : ring[i][2] <= ring[j][2]
                 /\ rxHand # <<>> => ring[i][2] <= rxHand[2]
          /\ rxHand # <<>> => rxHand[2] <= now

\* The tick of the last record in the batch.
LastAt == IF inBatch = <<>> THEN 0 ELSE inBatch[Len(inBatch)][3]

Timely == /\ LastAt <= now
          /\ pc = "drain" => Ahead(LastAt)
          /\ hand # <<>> /\ hand[1] = "frame" => Ahead(hand[3])

\* The one at the head of the ring is the oldest.
LEMMA OldestFirst ==
    ASSUME TypeOK, Sorted, ring # <<>>
    PROVE  Head(ring)[2] \in Nat /\ Ahead(Head(ring)[2])
<1>1. ring \in Seq(Stamped) /\ Len(ring) \in Nat /\ Len(ring) # 0
  BY LenProperties, EmptySeq DEF TypeOK
<1>2. Head(ring) = ring[1] /\ 1 \in 1..Len(ring)
  BY <1>1, HeadTailProperties
<1>3. ring[1] \in Stamped
  BY <1>1, <1>2, ElementOfSeq
<1> QED
  BY <1>2, <1>3 DEF Sorted, Ahead, Stamped

\* A step only adds behind it, and takes the oldest away.
LEMMA RingNext ==
    ASSUME TypeOK, [Next]_vars
    PROVE  /\ now' \in {now, now + 1}
           /\ \/ UNCHANGED <<ring, rxHand>>
              \/ UNCHANGED ring /\ rxHand = <<>> /\ rxHand' = <<arrived + 1, now>>
              \/ rxHand # <<>> /\ rxHand' = <<>> /\ ring' \in {ring, Append(ring, rxHand)}
              \/ UNCHANGED rxHand /\ ring # <<>> /\ ring' = Tail(ring)
<1>1. CASE TaskStep
  <2>1. UNCHANGED <<now, rxHand>>
    BY <1>1 DEF TaskStep, TaskPop, TaskPopTimeout, TaskDrain, TaskDrained, TaskAdd,
          TaskCheck, TaskCalib, TaskAnchored, TaskEvent, TaskEventsDone, TaskNothing,
          TaskFlushed, TaskFrame, rxVars
  <2>2. ring' = ring \/ (ring # <<>> /\ ring' = Tail(ring))
    BY <1>1 DEF TaskStep, TaskPop, TaskPopTimeout, TaskDrain, TaskDrained, TaskAdd,
          TaskCheck, TaskCalib, TaskAnchored, TaskEvent, TaskEventsDone, TaskNothing,
          TaskFlushed, TakeFrame
  <2> QED
    BY <2>1, <2>2
<1>2. CASE Tick \/ DrvAlert \/ CtrlService \/ UNCHANGED vars
  BY <1>2 DEF Tick, DrvAlert, CtrlService, vars, rxVars
<1>3. CASE RxStamp
  BY <1>3 DEF RxStamp, RxFrame
<1>4. CASE RxPush
  BY <1>4 DEF RxPush, RxFrame
<1> QED
  BY <1>1, <1>2, <1>3, <1>4 DEF Next

\* So both stay true.
LEMMA AheadNext ==
    ASSUME TypeOK, Sorted, [Next]_vars
    PROVE  Sorted' /\ \A x \in Nat : Ahead(x) => Ahead(x)'
<1> DEFINE n == Len(ring)
<1>1. /\ ring \in Seq(Stamped) /\ n \in Nat /\ now \in Nat
      /\ \A i \in 1..n : ring[i] \in Stamped /\ ring[i][2] \in Nat
      /\ rxHand # <<>> => rxHand \in Stamped /\ rxHand[2] \in Nat
  <2>1. ring \in Seq(Stamped) /\ (rxHand # <<>> => rxHand \in Stamped)
    BY DEF TypeOK
  <2>2. \A i \in 1..n : ring[i] \in Stamped
    BY <2>1, ElementOfSeq
  <2>3. \A f \in Stamped : f[2] \in Nat
    BY DEF Stamped
  <2> QED
    BY <2>1, <2>2, <2>3, LenProperties DEF TypeOK
<1>2. now' \in {now, now + 1}
  BY RingNext
<1>3. CASE UNCHANGED <<ring, rxHand>>
  <2>1. now <= now' /\ now' \in Nat
    BY <1>1, <1>2
  <2> HIDE DEF n
  <2>2. Sorted'
    <3>1. ASSUME NEW i \in 1..Len(ring)
          PROVE  /\ ring[i][2] <= now'
                 /\ \A j \in i..Len(ring) : ring[i][2] <= ring[j][2]
                 /\ rxHand # <<>> => ring[i][2] <= rxHand[2]
      BY <1>1, <2>1, <3>1 DEF Sorted, n
    <3>2. rxHand # <<>> => rxHand[2] <= now'
      BY <1>1, <2>1 DEF Sorted
    <3> QED
      BY <1>3, <3>1, <3>2 DEF Sorted
  <2>3. ASSUME NEW x \in Nat, Ahead(x) PROVE Ahead(x)'
    <3>1. x <= now'
      BY <1>1, <2>1, <2>3 DEF Ahead
    <3> QED
      BY <1>3, <2>3, <3>1 DEF Ahead
  <2> QED
    BY <2>2, <2>3
<1>4. CASE UNCHANGED ring /\ rxHand = <<>> /\ rxHand' = <<arrived + 1, now>>
  <2>1. now <= now' /\ now' \in Nat /\ rxHand' # <<>> /\ rxHand'[2] = now
    BY <1>1, <1>2, <1>4
  <2>2. ASSUME NEW i \in 1..n
        PROVE  /\ ring[i][2] <= now' /\ ring[i][2] <= now
               /\ \A j \in i..n : ring[i][2] <= ring[j][2]
    BY <1>1, <2>1, <2>2 DEF Sorted
  <2>3. Sorted'
    BY <1>4, <2>1, <2>2 DEF Sorted
  <2>4. ASSUME NEW x \in Nat, Ahead(x) PROVE Ahead(x)'
    <3>1. x <= now' /\ x <= now
      BY <1>1, <2>1, <2>4 DEF Ahead
    <3> QED
      BY <1>4, <2>1, <2>4, <3>1 DEF Ahead
  <2> QED
    BY <2>3, <2>4
<1>5. CASE rxHand # <<>> /\ rxHand' = <<>> /\ ring' = Append(ring, rxHand)
  <2>1. now <= now' /\ now' \in Nat /\ rxHand \in Stamped /\ rxHand[2] \in Nat
    BY <1>1, <1>2, <1>5
  <2>2. /\ Len(ring') = n + 1 /\ ring'[n + 1] = rxHand
        /\ \A i \in 1..n : ring'[i] = ring[i]
    BY <1>1, <1>5, <2>1, AppendProperties
  <2>3. /\ rxHand[2] <= now
        /\ \A i \in 1..n : /\ ring[i][2] <= rxHand[2]
                           /\ \A j \in i..n : ring[i][2] <= ring[j][2]
    BY <1>5 DEF Sorted
  <2> HIDE DEF n
  <2>4. \A i \in 1..n + 1 : i = n + 1 \/ i \in 1..n
    BY <1>1
  <2>5. ASSUME NEW i \in 1..n + 1
        PROVE  ring'[i][2] <= now' /\ ring'[i][2] <= rxHand[2]
    <3>1. CASE i = n + 1
      <4>1. ring'[i][2] = rxHand[2] /\ rxHand[2] <= now'
        BY <1>1, <2>1, <2>2, <2>3, <3>1
      <4> QED
        BY <2>1, <4>1
    <3>2. CASE i \in 1..n
      <4>1. ring'[i][2] = ring[i][2] /\ ring[i][2] \in Nat /\ ring[i][2] <= rxHand[2]
        BY <1>1, <2>2, <2>3, <3>2
      <4> QED
        BY <1>1, <2>1, <2>3, <4>1
    <3>3. i = n + 1 \/ i \in 1..n
      BY <2>4
    <3> QED
      BY <3>1, <3>2, <3>3
  <2>6. ASSUME NEW i \in 1..n + 1, NEW j \in i..n + 1
        PROVE  ring'[i][2] <= ring'[j][2]
    <3>1. CASE j = n + 1
      BY <2>2, <2>5, <3>1
    <3>2. CASE j # n + 1
      <4>1. i \in 1..n /\ j \in i..n /\ j \in 1..n
        BY <1>1, <3>2
      <4> QED
        BY <2>2, <2>3, <4>1
    <3> QED
      BY <3>1, <3>2
  <2>7. Sorted'
    BY <1>5, <2>2, <2>5, <2>6 DEF Sorted
  <2>8. ASSUME NEW x \in Nat, Ahead(x) PROVE Ahead(x)'
    <3>1. x <= now' /\ x <= rxHand[2] /\ \A i \in 1..n : x <= ring[i][2]
      BY <1>1, <1>5, <2>1, <2>8 DEF Ahead, n
    <3>2. \A i \in 1..n + 1 : x <= ring'[i][2]
      BY <2>2, <2>4, <3>1
    <3> QED
      BY <1>5, <2>2, <3>1, <3>2 DEF Ahead
  <2> QED
    BY <2>7, <2>8
<1>6. CASE rxHand # <<>> /\ rxHand' = <<>> /\ ring' = ring
  <2>1. now <= now' /\ now' \in Nat
    BY <1>1, <1>2
  <2>2. Sorted'
    <3>1. ASSUME NEW i \in 1..n
          PROVE  ring[i][2] <= now' /\ \A j \in i..n : ring[i][2] <= ring[j][2]
      BY <1>1, <2>1, <3>1 DEF Sorted
    <3> QED
      BY <1>6, <3>1 DEF Sorted
  <2>3. ASSUME NEW x \in Nat, Ahead(x) PROVE Ahead(x)'
    <3>1. x <= now'
      BY <1>1, <2>1, <2>3 DEF Ahead
    <3> QED
      BY <1>6, <2>3, <3>1 DEF Ahead
  <2> QED
    BY <2>2, <2>3
<1>7. CASE UNCHANGED rxHand /\ ring # <<>> /\ ring' = Tail(ring)
  <2>1. now <= now' /\ now' \in Nat
    BY <1>1, <1>2
  <2>2. Len(ring') = n - 1 /\ \A i \in 1..n - 1 : ring'[i] = ring[i + 1]
    <3>1. /\ Len(Tail(ring)) = Len(ring) - 1
          /\ \A i \in 1..Len(Tail(ring)) : Tail(ring)[i] = ring[i + 1]
      BY <1>1, <1>7, HeadTailProperties
    <3> QED
      BY <1>7, <3>1
  <2> HIDE DEF n
  <2>3. \A i \in 1..n - 1 : i + 1 \in 1..n
    BY <1>1
  <2>4. ASSUME NEW i \in 1..n - 1
        PROVE  /\ ring'[i][2] <= now'
               /\ \A j \in i..n - 1 : ring'[i][2] <= ring'[j][2]
               /\ rxHand # <<>> => ring'[i][2] <= rxHand[2]
    <3>1. /\ ring[i + 1][2] <= now /\ ring[i + 1][2] \in Nat
          /\ \A j \in i + 1..n : ring[i + 1][2] <= ring[j][2]
          /\ rxHand # <<>> => ring[i + 1][2] <= rxHand[2]
      BY <1>1, <2>3 DEF Sorted, n
    <3>2. ASSUME NEW j \in i..n - 1 PROVE ring'[i][2] <= ring'[j][2]
      <4>1. j + 1 \in i + 1..n /\ j \in 1..n - 1
        BY <1>1
      <4> QED
        BY <2>2, <3>1, <4>1
    <3>3. ring'[i] = ring[i + 1]
      BY <2>2
    <3> QED
      BY <1>1, <2>1, <3>1, <3>2, <3>3
  <2>5. rxHand # <<>> => rxHand[2] <= now'
    BY <1>1, <2>1 DEF Sorted
  <2>6. Sorted'
    BY <1>7, <2>2, <2>4, <2>5 DEF Sorted
  <2>7. ASSUME NEW x \in Nat, Ahead(x) PROVE Ahead(x)'
    <3>1. x <= now' /\ \A i \in 1..n : x <= ring[i][2]
      BY <1>1, <2>1, <2>7 DEF Ahead, n
    <3>2. \A i \in 1..n - 1 : x <= ring'[i][2]
      BY <2>2, <2>3, <3>1
    <3> QED
      BY <1>7, <2>2, <2>7, <3>1, <3>2 DEF Ahead
  <2> QED
    BY <2>6, <2>7
<1> QED
  BY <1>3, <1>4, <1>5, <1>6, <1>7, RingNext

-----------------------------------------------------------------------------
(* The batch of usb_tx_task.  It can be gone on with but for the moment    *)
(* between a calibration record and the flush behind it: that record       *)
(* leaves the host with another tick than the last stamp.                  *)

Clean == /\ pc \in {"pop", "calib", "add", "anchored"} => inBatch = <<>>
         /\ inBatch = <<>> => b = EmptyBatch

Shaped == /\ BatchLen(b) <= BufSize
          /\ IF pc = "flush" /\ ret = "anchored" THEN Readable(b, inBatch)
             ELSE Open(b, inBatch)

BatchInv == RecordsInv /\ Sorted /\ Timely /\ Clean /\ Shaped

\* The tick of the last record, and of the one that is added.
LEMMA LastIs ==
    ASSUME TypeOK
    PROVE  /\ LastAt \in Nat
           /\ inBatch # <<>> => inBatch[Len(inBatch)][3] = LastAt
           /\ inBatch = <<>> => LastAt = 0
           /\ inBatch' = <<>> => LastAt' = 0
           /\ \A e \in Record : inBatch' = Append(inBatch, e)
                  => LastAt' = e[3] /\ inBatch' # <<>>
<1>1. inBatch \in Seq(Record) /\ Len(inBatch) \in Nat
  BY LenProperties DEF TypeOK
<1>2. LastAt \in Nat
  <2>1. CASE inBatch # <<>>
    <3>1. Len(inBatch) \in 1..Len(inBatch)
      BY <1>1, <2>1, EmptySeq
    <3>2. inBatch[Len(inBatch)] \in Record
      BY <1>1, <3>1, ElementOfSeq
    <3>3. inBatch[Len(inBatch)][3] \in Nat
      BY <3>2 DEF Record
    <3> QED
      BY <2>1, <3>3 DEF LastAt
  <2> QED
    BY <2>1 DEF LastAt
<1>3. ASSUME NEW e \in Record, inBatch' = Append(inBatch, e)
      PROVE  LastAt' = e[3] /\ inBatch' # <<>>
  <2>1. /\ inBatch' \in Seq(Record) /\ Len(inBatch') = Len(inBatch) + 1
        /\ inBatch'[Len(inBatch) + 1] = e
    BY <1>1, <1>3, AppendProperties
  <2>2. inBatch' # <<>>
    BY <1>1, <2>1, EmptySeq
  <2> QED
    BY <2>1, <2>2 DEF LastAt
<1> QED
  BY <1>2, <1>3 DEF LastAt

\* The largest record fits in an empty batch.
LEMMA EmptyRoom ==
    /\ BatchLen(EmptyBatch) <= BufSize /\ BatchLen(EmptyBatch) + 5 <= BufSize
    /\ BatchLen(EmptyBatch) + StatusSize(EmptyBatch, <<>>, TRUE) <= BufSize
    /\ \A n \in Frames, at \in Nat :
           BatchLen(EmptyBatch) + FrameSize(EmptyBatch, FrameAt(n, at)) <= BufSize
<1>1. BatchLen(EmptyBatch) = 2 /\ TsWidth(EmptyBatch) = 2 /\ Len(<<>>) = 0
  BY EmptySeq DEF BatchLen, HeaderLen, EmptyBatch, TsWidth
<1>2. StatusSize(EmptyBatch, <<>>, TRUE) = 5
  BY <1>1 DEF StatusSize
<1>3. ASSUME NEW n \in Frames, NEW at \in Nat
      PROVE  2 + FrameSize(EmptyBatch, FrameAt(n, at)) <= BufSize
  <2> DEFINE f == FrameAt(n, at)
  <2>1. /\ IdBytes(f) \in {2, 4} /\ TagBytes(f) = 0
        /\ DataBytes(f) \in 0..MaxDlc
    BY FrameFacts DEF IsFrame
  <2> HIDE DEF f
  <2>2. FrameSize(EmptyBatch, f) = 1 + IdBytes(f) + 2 + DataBytes(f) + 0
    BY <1>1, <2>1 DEF FrameSize
  <2>3. FrameSize(EmptyBatch, f) <= 7 + MaxDlc /\ FrameSize(EmptyBatch, f) \in Nat
    BY <2>1, <2>2, PcanMsgAssumption
  <2> QED
    BY <2>3, PcanMsgAssumption DEF f
<1>4. 2 + 0 <= BufSize /\ 2 + 5 <= BufSize
  BY PcanMsgAssumption
<1> DEFINE w == BatchLen(EmptyBatch)
<1>5. w = 2
  BY <1>1
<1> HIDE DEF w
<1>6. ASSUME NEW n \in Frames, NEW at \in Nat
      PROVE  w + FrameSize(EmptyBatch, FrameAt(n, at)) <= BufSize
  BY <1>3, <1>5
<1>7. w <= BufSize /\ w + 5 <= BufSize
  BY <1>4, <1>5
<1> QED
  BY <1>2, <1>6, <1>7 DEF w

\* Steps that leave the batch and the hand alone.
LEMMA IdleBatch ==
    ASSUME BatchInv, [Next]_vars, UNCHANGED <<hand, b, inBatch>>,
           pc' = "drain" => pc = "drain",
           pc' \in {"pop", "calib", "add", "anchored"} => inBatch = <<>>,
           pc' = "flush" /\ ret' = "anchored" => pc = "flush" /\ ret = "anchored",
           pc = "flush" /\ ret = "anchored"
               => (pc' = "flush" /\ ret' = "anchored") \/ inBatch = <<>>
    PROVE  BatchInv'
<1> USE DEF BatchInv
<1>1. TypeOK /\ RecordsInv'
  BY RecordsNext DEF RecordsInv
<1>2. Sorted' /\ \A x \in Nat : Ahead(x) => Ahead(x)'
  BY <1>1, AheadNext
<1>3. LastAt' = LastAt /\ LastAt \in Nat
  BY <1>1, LastIs DEF LastAt
<1>4. Timely'
  <2>1. LastAt <= now'
    <3>1. now' \in {now, now + 1} /\ now \in Nat /\ LastAt <= now
      BY <1>1, RingNext DEF TypeOK, Timely
    <3> QED
      BY <1>3, <3>1
  <2>2. pc' = "drain" => Ahead(LastAt)'
    BY <1>2, <1>3 DEF Timely, Ahead
  <2>3. hand # <<>> /\ hand[1] = "frame" => Ahead(hand[3])'
    <3>1. hand # <<>> /\ hand[1] = "frame" => hand[3] \in Nat
      BY <1>1, HandOf
    <3> QED
      BY <1>2, <3>1 DEF Timely, Ahead
  <2> QED
    BY <1>3, <2>1, <2>2, <2>3 DEF Timely
<1>5. Clean'
  BY DEF Clean
<1>6. Shaped'
  BY OpenEmpty DEF Clean, Shaped
<1> QED
  BY <1>1, <1>2, <1>4, <1>5, <1>6

\* What the others do, and time.
LEMMA RestBatch ==
    ASSUME BatchInv,
           Tick \/ RxStamp \/ RxPush \/ DrvAlert \/ CtrlService \/ UNCHANGED vars
    PROVE  BatchInv'
<1>1. UNCHANGED <<hand, b, inBatch, pc, ret>>
  BY DEF Tick, RxStamp, RxPush, RxFrame, DrvAlert, CtrlService, vars, taskVars
<1>2. [Next]_vars
  BY DEF Next
<1> QED
  BY <1>1, <1>2, IdleBatch DEF BatchInv, Clean

\* The steps of the task that only go on.
LEMMA PlainBatch ==
    ASSUME BatchInv, [Next]_vars,
           TaskPopTimeout \/ TaskDrained \/ TaskCheck \/ TaskAnchored
               \/ TaskEventsDone \/ TaskNothing
    PROVE  BatchInv'
<1>1. UNCHANGED <<hand, b, inBatch>>
  BY DEF TaskPopTimeout, TaskDrained, TaskCheck, TaskAnchored, TaskEventsDone, TaskNothing
<1>2. CASE TaskPopTimeout \/ TaskDrained \/ TaskCheck \/ TaskAnchored \/ TaskEventsDone
  <2>1. /\ pc # "flush" /\ pc' \notin {"drain", "pop", "calib", "add", "anchored"}
        /\ pc' = "flush" => ret' # "anchored"
    BY <1>2 DEF TaskPopTimeout, TaskDrained, TaskCheck, TaskAnchored, TaskEventsDone,
                FlushThen
  <2> QED
    BY <1>1, <2>1, IdleBatch
<1>3. CASE TaskNothing
  <2>1. inBatch = <<>>
    <3>1. inBatch \in Seq(Record) /\ Len(inBatch) = 0
      BY <1>3 DEF BatchInv, RecordsInv, TypeOK, TaskNothing
    <3> QED
      BY <3>1, EmptySeq
  <2>2. pc' \in Rets
    BY <1>3 DEF BatchInv, RecordsInv, TypeOK, TaskNothing
  <2>3. pc' # "drain" /\ pc' # "flush"
    BY <2>2 DEF Rets
  <2> QED
    BY <1>1, <2>1, <2>3, IdleBatch
<1> QED
  BY <1>2, <1>3

\* The flush leaves an empty batch (main.c:265-272).
LEMMA FlushBatch == ASSUME BatchInv, [Next]_vars, TaskFlushed PROVE BatchInv'
<1> USE DEF BatchInv
<1>1. /\ pc' = ret /\ b' = EmptyBatch /\ inBatch' = <<>> /\ UNCHANGED <<ret, hand>>
  BY DEF TaskFlushed
<1>2. TypeOK /\ RecordsInv'
  BY RecordsNext DEF RecordsInv
<1>3. Sorted' /\ \A x \in Nat : Ahead(x) => Ahead(x)'
  BY <1>2, AheadNext
<1>4. pc' \notin {"drain", "flush"}
  BY <1>1, <1>2 DEF TypeOK, Rets
<1>5. Timely'
  <2>1. LastAt' = 0 /\ now' \in Nat
    BY <1>1, <1>2, LastIs DEF RecordsInv, TypeOK
  <2>2. hand # <<>> /\ hand[1] = "frame" => Ahead(hand[3])'
    <3>1. hand # <<>> /\ hand[1] = "frame" => hand[3] \in Nat
      BY <1>2, HandOf
    <3> QED
      BY <1>1, <1>3, <3>1 DEF Timely, Ahead
  <2>3. LastAt' <= now'
    BY <2>1
  <2> QED
    BY <1>1, <1>4, <2>2, <2>3 DEF Timely
<1>6. Clean' /\ Shaped'
  BY <1>1, <1>4, OpenEmpty, EmptyRoom DEF Clean, Shaped
<1> QED
  BY <1>2, <1>3, <1>5, <1>6

\* A stamped record that fits is added to a batch that can be gone on with.
LEMMA AddBatch ==
    ASSUME BatchInv, [Next]_vars, pc \in {"pop", "drain", "add", "events"},
           NEW e \in Record, inBatch' = Append(inBatch, e),
           Open(b', inBatch'), BatchLen(b') <= BufSize,
           hand' = <<>>, pc' \in {"drain", "events"},
           e[3] <= now', pc' = "drain" => Ahead(e[3])'
    PROVE  BatchInv'
<1>1. RecordsInv' /\ Sorted' /\ TypeOK
  BY RecordsNext, AheadNext DEF BatchInv, RecordsInv
<1>2. LastAt' = e[3] /\ inBatch' # <<>>
  BY <1>1, LastIs
<1>3. pc' = "drain" => Ahead(LastAt)'
  BY <1>2 DEF Ahead
<1>4. Timely'
  BY <1>2, <1>3 DEF Timely
<1>5. Clean' /\ Shaped'
  BY <1>2 DEF Clean, Shaped
<1> QED
  BY <1>1, <1>4, <1>5 DEF BatchInv

\* pcan_rb_pop and the attempt to add what it gave (main.c:311-331).
LEMMA TakeBatch == ASSUME BatchInv, [Next]_vars, TaskPop \/ TaskDrain PROVE BatchInv'
<1> DEFINE f == Head(ring)
<1>1. pc \in {"pop", "drain"} /\ TakeFrame("drain") /\ ring # <<>>
  BY DEF TaskPop, TaskDrain, TakeFrame
<1>2. RecordsInv' /\ Sorted' /\ TypeOK /\ HandKept
  BY RecordsNext, AheadNext DEF BatchInv, RecordsInv
<1>3. PICK at \in Nat : at = f[2]
  BY <1>1, <1>2, OldestFirst DEF BatchInv
<1>4. Ahead(at) /\ Ahead(at)' /\ at <= now'
  <2>1. Ahead(at) /\ Ahead(at)'
    BY <1>1, <1>2, <1>3, OldestFirst, AheadNext DEF BatchInv
  <2> QED
    BY <2>1 DEF Ahead
<1>5. PICK n \in Frames : n = f[1]
  BY <1>1, <1>2, FirstsHead DEF TypeOK
<1>6. hand = <<>>
  BY <1>1, <1>2 DEF HandKept
<1> HIDE DEF f
<1>7. CASE FrameFits(b, FrameAt(n, at))
  <2> DEFINE e == <<"frame", n, at>>
             c == WithFrame(b, FrameAt(n, at))
  <2>1. /\ inBatch' = Append(inBatch, e) /\ b' = c /\ pc' = "drain" /\ hand' = hand
    BY <1>1, <1>3, <1>5, <1>7 DEF TakeFrame, Batches, f
  <2>2. e \in Record /\ e[3] = at
    BY DEF Record
  <2>3. Open(b, inBatch)
    BY <1>1 DEF BatchInv, Shaped
  <2>4. inBatch # <<>> => inBatch[Len(inBatch)][3] <= at
    <3>1. CASE pc = "pop"
      BY <3>1 DEF BatchInv, Clean
    <3>2. CASE pc = "drain"
      <4>1. Ahead(LastAt) /\ LastAt \in Nat
        BY <1>2, <3>2, LastIs DEF BatchInv, Timely
      <4>2. LastAt <= at
        <5>1. ring \in Seq(Stamped) /\ Len(ring) \in Nat /\ Len(ring) # 0
          BY <1>1, <1>2, LenProperties, EmptySeq DEF TypeOK
        <5>2. 1 \in 1..Len(ring) /\ ring[1] = f
          BY <5>1, <1>1, HeadTailProperties DEF f
        <5> QED
          BY <1>3, <4>1, <5>2 DEF Ahead
      <4> QED
        BY <1>2, <4>2, LastIs
    <3> QED
      BY <1>1, <3>1, <3>2
  <2>5. /\ Open(c, Append(inBatch, e))
        /\ BatchLen(c) = BatchLen(b) + FrameSize(b, FrameAt(n, at))
    BY <2>3, <2>4, FrameAdded
  <2>6. BatchLen(c) <= BufSize
    BY <1>7, <2>5 DEF FrameFits, Fits
  <2> HIDE DEF e, c
  <2> QED
    BY <1>1, <1>4, <1>6, <2>1, <2>2, <2>5, <2>6, AddBatch
<1>8. CASE ~FrameFits(b, FrameAt(n, at))
  <2>1. /\ pc' = "flush" /\ ret' = "add" /\ hand' = <<"frame", n, at>>
        /\ UNCHANGED <<b, inBatch>>
    BY <1>1, <1>3, <1>5, <1>8 DEF TakeFrame, FlushThen, f
  <2>2. LastAt' <= now'
    <3>1. LastAt' = LastAt /\ LastAt \in Nat /\ LastAt <= now
      BY <1>2, <2>1, LastIs DEF LastAt, BatchInv, Timely
    <3>2. now' \in {now, now + 1} /\ now \in Nat
      BY <1>2, RingNext DEF TypeOK
    <3> QED
      BY <3>1, <3>2
  <2>3. Ahead(hand[3])'
    <3>1. hand'[3] = at
      BY <2>1
    <3> QED
      BY <1>4, <3>1 DEF Ahead
  <2>4. Timely'
    BY <2>1, <2>2, <2>3 DEF Timely
  <2>5. Clean' /\ Shaped'
    BY <1>1, <2>1 DEF BatchInv, Clean, Shaped
  <2> QED
    BY <1>2, <2>4, <2>5 DEF BatchInv
<1> QED
  BY <1>7, <1>8

\* What waited in the hand for the flush (main.c:315, 326, 360).
LEMMA AddedBatch == ASSUME BatchInv, [Next]_vars, TaskAdd PROVE BatchInv'
<1>1. pc = "add" /\ hand # <<>> /\ hand' = <<>> /\ now' = now
  BY DEF TaskAdd, TaskFrame, BatchInv, RecordsInv, HandKept
<1>2. TypeOK
  BY DEF BatchInv, RecordsInv
<1>3. inBatch = <<>> /\ b = EmptyBatch /\ Open(b, inBatch) /\ now \in Nat
  BY <1>1, <1>2 DEF BatchInv, Clean, Shaped, TypeOK
<1>4. CASE hand[1] = "frame"
  <2>1. PICK n \in Frames, at \in Nat : n = hand[2] /\ at = hand[3]
    BY <1>1, <1>2, <1>4, HandOf
  <2> DEFINE e == <<"frame", n, at>>
             c == WithFrame(b, FrameAt(n, at))
  <2>2. inBatch' = Append(inBatch, e) /\ b' = c /\ pc' = "drain"
    BY <1>4, <2>1 DEF TaskAdd, Batches
  <2>3. e \in Record /\ e[3] = at
    BY DEF Record
  <2>4. Ahead(at)' /\ at <= now'
    <3>1. Ahead(at)
      BY <1>1, <1>4, <2>1 DEF BatchInv, Timely
    <3>2. Ahead(at)'
      BY <1>2, <3>1, AheadNext DEF BatchInv
    <3> QED
      BY <3>2 DEF Ahead
  <2>5. /\ Open(c, Append(inBatch, e))
        /\ BatchLen(c) = BatchLen(b) + FrameSize(b, FrameAt(n, at))
    BY <1>3, FrameAdded
  <2>6. BatchLen(c) <= BufSize
    BY <1>3, <2>5, EmptyRoom
  <2> HIDE DEF e, c
  <2> QED
    BY <1>1, <2>2, <2>3, <2>4, <2>5, <2>6, AddBatch
<1>5. CASE hand[1] = "error"
  <2>1. PICK mask \in Masks : mask = hand[2]
    BY <1>1, <1>2, <1>5, HandOf
  <2>2. PICK at \in Nat : at = now
    BY <1>3
  <2> DEFINE e == <<"error", mask, at>>
             c == WithError(b, mask, at % WordMod)
  <2>3. inBatch' = Append(inBatch, e) /\ b' = c /\ pc' = "events"
    BY <1>5, <2>1, <2>2 DEF TaskAdd, Batches
  <2>4. e \in Record /\ e[3] = at /\ at <= now'
    BY <1>1, <2>2 DEF Record
  <2>5. /\ Open(c, Append(inBatch, e))
        /\ BatchLen(c) = BatchLen(b) + StatusSize(b, <<>>, TRUE)
    BY <1>3, ErrorAdded
  <2>6. BatchLen(c) <= BufSize
    BY <1>3, <2>5, EmptyRoom
  <2> HIDE DEF e, c
  <2> QED
    BY <1>1, <2>3, <2>4, <2>5, <2>6, AddBatch
<1> QED
  BY <1>1, <1>2, <1>4, <1>5, HandOf

\* Posted masks are stamped as they are folded in (main.c:356-364).
LEMMA EventBatch == ASSUME BatchInv, [Next]_vars, TaskEvent PROVE BatchInv'
<1>1. /\ pc = "events" /\ evts # <<>> /\ now' = now
  BY DEF TaskEvent, TaskFrame
<1>2. TypeOK /\ HandKept
  BY DEF BatchInv, RecordsInv
<1>3. hand = <<>> /\ Open(b, inBatch) /\ now \in Nat
  BY <1>1, <1>2 DEF BatchInv, HandKept, Shaped, TypeOK
<1>4. PICK mask \in Masks : mask = Head(evts)
  <2>1. evts \in Seq(Masks)
    BY <1>2 DEF TypeOK
  <2> QED
    BY <1>1, <2>1, HeadTailProperties
<1>5. CASE ErrorFits(b)
  <2>1. PICK at \in Nat : at = now
    BY <1>3
  <2> DEFINE e == <<"error", mask, at>>
             c == WithError(b, mask, at % WordMod)
  <2>2. inBatch' = Append(inBatch, e) /\ b' = c /\ pc' = "events" /\ hand' = hand
    BY <1>1, <1>4, <1>5, <2>1 DEF TaskEvent, Batches
  <2>3. e \in Record /\ e[3] = at /\ at <= now'
    BY <1>1, <2>1 DEF Record
  <2>4. inBatch # <<>> => inBatch[Len(inBatch)][3] <= at
    BY <1>2, <2>1, LastIs DEF BatchInv, Timely
  <2>5. /\ Open(c, Append(inBatch, e))
        /\ BatchLen(c) = BatchLen(b) + StatusSize(b, <<>>, TRUE)
    BY <1>3, <2>4, ErrorAdded
  <2>6. BatchLen(c) <= BufSize
    BY <1>5, <2>5 DEF ErrorFits, StatusFits, Fits
  <2> HIDE DEF e, c
  <2> QED
    BY <1>1, <1>3, <2>2, <2>3, <2>5, <2>6, AddBatch
<1>6. CASE ~ErrorFits(b)
  <2>1. /\ pc' = "flush" /\ ret' = "add" /\ hand' = <<"error", mask>>
        /\ UNCHANGED <<b, inBatch>>
    BY <1>4, <1>6 DEF TaskEvent, FlushThen
  <2>2. RecordsInv' /\ Sorted'
    BY <1>2, RecordsNext, AheadNext DEF BatchInv
  <2>3. LastAt' = LastAt /\ LastAt <= now'
    BY <1>1, <2>1 DEF LastAt, BatchInv, Timely
  <2>4. Timely'
    BY <2>1, <2>3 DEF Timely
  <2>5. Clean' /\ Shaped'
    BY <1>1, <2>1 DEF BatchInv, Clean, Shaped
  <2> QED
    BY <2>2, <2>4, <2>5 DEF BatchInv
<1> QED
  BY <1>5, <1>6

\* A calibration record comes into an empty batch (main.c:346-349).
LEMMA CalibBatch == ASSUME BatchInv, [Next]_vars, TaskCalib PROVE BatchInv'
<1>1. /\ pc = "calib" /\ pc' = "flush" /\ ret' = "anchored" /\ hand' = hand /\ now' = now
      /\ Batches("calib", 0, now, WithCalib(b, now % WordMod))
  BY DEF TaskCalib, TaskFrame, FlushThen
<1>2. TypeOK /\ RecordsInv' /\ Sorted' /\ hand = <<>>
  BY <1>1, RecordsNext, AheadNext DEF BatchInv, RecordsInv, HandKept
<1>3. inBatch = <<>> /\ b = EmptyBatch /\ Open(b, inBatch)
  BY <1>1 DEF BatchInv, Clean, Shaped
<1>4. PICK at \in Nat : at = now
  BY <1>2 DEF TypeOK
<1> DEFINE e == <<"calib", 0, at>>
           c == WithCalib(b, at % WordMod)
<1>5. inBatch' = Append(inBatch, e) /\ b' = c
  BY <1>1, <1>4 DEF Batches
<1>6. e \in Record /\ e[3] = at /\ at <= now'
  BY <1>1, <1>4 DEF Record
<1>7. Readable(c, Append(inBatch, e)) /\ BatchLen(c) = BatchLen(b) + 5
  BY <1>3, CalibAdded
<1>8. BatchLen(c) <= BufSize
  BY <1>3, <1>7, EmptyRoom
<1> HIDE DEF e, c
<1>9. LastAt' = at /\ inBatch' # <<>>
  BY <1>2, <1>5, <1>6, LastIs
<1>10. Timely'
  BY <1>1, <1>2, <1>6, <1>9 DEF Timely
<1>11. Clean' /\ Shaped'
  BY <1>1, <1>5, <1>7, <1>8, <1>9 DEF Clean, Shaped
<1> QED
  BY <1>2, <1>10, <1>11 DEF BatchInv

\* It is what the system starts with, and every step keeps it.
LEMMA BatchInit == Init => BatchInv
<1> SUFFICES ASSUME Init PROVE BatchInv
  OBVIOUS
<1>1. RecordsInv /\ TypeOK
  BY RecordsInit DEF RecordsInv
<1>2. Len(ring) = 0 /\ Sorted
  BY EmptySeq DEF Init, Sorted
<1>3. Timely
  BY DEF Init, Timely, LastAt
<1>4. Clean /\ Shaped
  BY OpenEmpty, EmptyRoom DEF Init, Clean, Shaped
<1> QED
  BY <1>1, <1>2, <1>3, <1>4 DEF BatchInv

\* By the kind of the step.
LEMMA BatchNext == BatchInv /\ [Next]_vars => BatchInv'
BY RestBatch, PlainBatch, FlushBatch, TakeBatch, AddedBatch, EventBatch, CalibBatch
   DEF Next, TaskStep

\* What the host makes of a batch that is readable.
LEMMA ReadableSays ==
    ASSUME BatchInv
    PROVE  \E t, l, v : /\ HostDecode(b) = State(Len(b.bytes) + 1, t, l, b.haveFirst, v)
                        /\ Decoded(b, inBatch, t, l, v)
<1>1. PICK t, l, v : Decoded(b, inBatch, t, l, v)
  BY DEF BatchInv, Shaped, Open, Readable
<1>2. b.bytes \in Seq(Byte) /\ b.count \in Nat
  BY LenProperties DEF BatchInv, RecordsInv, TypeOK, Shaped, Open, Readable, BatchOK
<1>3. <<>> \in Seq(Byte) /\ b.bytes \o <<>> = b.bytes
  BY <1>2, EmptySeq, ConcatEmptySeq
<1>4. After(b.count, b.bytes \o <<>>) = State(Len(b.bytes) + 1, t, l, b.haveFirst, v)
  BY <1>1, <1>3 DEF Decoded, Reading
<1>5. HostDecode(b) = After(b.count, b.bytes)
  BY <1>2, DecodeAfter
<1> QED
  BY <1>1, <1>3, <1>4, <1>5

\* The size that pcan_msg checks before it adds a record is the size it writes
\* (pcan_msg.c:71, 151), so a batch stays within its buffer; and a host that
\* decodes it as host_decode_batch does (test_pcan_msg.c:199-220) reads to its
\* last byte and understands each record, in order, as what usb_tx_task put in
\* (main.c:311-364).
THEOREM Readings == Spec => []HostInStep
<1>1. BatchInv => HostInStep
  <2> SUFFICES ASSUME BatchInv PROVE HostInStep
    OBVIOUS
  <2>1. PICK t, l, v : /\ HostDecode(b) = State(Len(b.bytes) + 1, t, l, b.haveFirst, v)
                       /\ Decoded(b, inBatch, t, l, v)
    BY ReadableSays
  <2> DEFINE r == HostDecode(b)
  <2>2. r.ok = Yes /\ r.pos = Len(b.bytes) + 1 /\ r.seen = v
    BY <2>1, StateGet
  <2> HIDE DEF r
  <2>3. inBatch \in Seq(Record) /\ DOMAIN inBatch = 1..Len(inBatch)
    BY LenProperties DEF BatchInv, RecordsInv, TypeOK
  <2>4. Len(v) = Len(inBatch) /\ \A i \in 1..Len(inBatch) : Understood(v[i], inBatch[i])
    BY <2>1 DEF Decoded
  <2>5. BatchLen(b) <= BufSize
    BY DEF BatchInv, Shaped
  <2> QED
    BY <2>2, <2>3, <2>4, <2>5 DEF HostInStep, r, Yes
<1> QED
  BY <1>1, BatchInit, BatchNext, PTL DEF Spec

\* The tick the host computes for a record from the low byte in it is the one
\* of its reception (pcan_time.c:82-96), as long as no gap before it hides a
\* turn of that byte.
THEOREM Ticks == Spec => []TicksRight
<1>1. BatchInv => TicksRight
  <2> SUFFICES ASSUME BatchInv, NEW i \in DOMAIN inBatch, Close(i) PROVE TickRight(i)
    BY DEF TicksRight
  <2>1. PICK t, l, v : /\ HostDecode(b) = State(Len(b.bytes) + 1, t, l, b.haveFirst, v)
                       /\ Decoded(b, inBatch, t, l, v)
    BY ReadableSays
  <2>2. HostDecode(b).seen = v
    BY <2>1, StateGet
  <2>3. i \in 1..Len(inBatch)
    BY LenProperties DEF BatchInv, RecordsInv, TypeOK
  <2>4. CloseIn(inBatch, i)
    BY DEF Close, CloseIn
  <2>5. TickOf(v[i]) = inBatch[i][3] % WordMod
    BY <2>1, <2>3, <2>4 DEF Decoded
  <2> QED
    BY <2>2, <2>5 DEF TickRight
<1> QED
  BY <1>1, BatchInit, BatchNext, PTL DEF Spec
=============================================================================
