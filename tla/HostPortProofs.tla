---------------------------- MODULE HostPortProofs ----------------------------
(***************************************************************************)
(* Proofs about what the host writes: the controller ends up with the last *)
(* of each setting, and a transfer is decoded into the frames that the     *)
(* host put in, or not at all.                                             *)
(***************************************************************************)
EXTENDS HostPort, Integers, SequenceTheorems, WellFoundedInduction, TLAPS

-----------------------------------------------------------------------------
(* Induction over the naturals.                                            *)

\* A set that holds 0 and with every number the next one holds them all.
LEMMA SetInduction ==
    ASSUME NEW S, 0 \in S, \A n \in Nat : n \in S => n + 1 \in S
    PROVE  Nat \subseteq S
<1> DEFINE T == {n \in Nat : n \notin S}
           R == OpToRel(<, Nat)
<1>1. IsWellFoundedOn(R, Nat)
  BY NatLessThanWellFounded, Zenon
<1>2. ASSUME T # {} PROVE FALSE
  <2>1. T \subseteq Nat
    OBVIOUS
  <2> HIDE DEF T, R
  <2>2. PICK x \in T : \A y \in T : ~ (<<y, x>> \in R)
    BY <1>1, <1>2, <2>1, WFMin
  <2>3. \A y \in Nat : y < x /\ x \in Nat => <<y, x>> \in R
    BY DEF R, OpToRel
  <2>4. x \in Nat /\ x \notin S
    BY DEF T
  <2>5. x # 0 /\ x - 1 \in Nat /\ x - 1 < x /\ (x - 1) + 1 = x
    BY <2>4
  <2>6. x - 1 \notin T
    BY <2>2, <2>3, <2>4, <2>5
  <2>7. x - 1 \in S
    BY <2>5, <2>6 DEF T
  <2> QED
    BY <2>4, <2>5, <2>7
<1> QED
  BY <1>2

\* A set of numbers up to n that is not empty has a greatest one.
LEMMA Greatest ==
    ASSUME NEW n \in Nat, NEW T, T \subseteq 1..n, T # {}
    PROVE  \E i \in T : \A j \in T : j <= i
<1> DEFINE S == {m \in Nat : m <= n => ((\E k \in T : k > n - m)
                                        => \E i \in T : \A j \in T : j <= i)}
<1>1. 0 \in S
  <2>1. \A k \in T : ~(k > n - 0)
    OBVIOUS
  <2> QED
    BY <2>1
<1>2. ASSUME NEW m \in Nat, m \in S PROVE m + 1 \in S
  <2> SUFFICES ASSUME m + 1 <= n, NEW k \in T, k > n - (m + 1)
               PROVE  \E i \in T : \A j \in T : j <= i
    OBVIOUS
  <2>1. CASE \E j \in T : j > n - m
    BY <1>2, <2>1
  <2>2. CASE \A j \in T : ~(j > n - m)
    <3>1. \A j \in T : j <= k
      <4> TAKE j \in T
      <4>1. j \in Nat /\ k \in Nat /\ ~(j > n - m)
        BY <2>2
      <4> QED
        BY <4>1
    <3> QED
      BY <3>1
  <2> QED
    BY <2>1, <2>2
<1> HIDE DEF S
<1>3. n \in S
  BY <1>1, <1>2, SetInduction
<1>4. (\E k \in T : k > n - n) => \E i \in T : \A j \in T : j <= i
  BY <1>3 DEF S
<1>5. \A k \in T : k > n - n
  OBVIOUS
<1> QED
  BY <1>4, <1>5

-----------------------------------------------------------------------------
(* The last of a sequence of commands.                                     *)

Commands == ({"BITRATE"} \X Btrs) \cup ({"XCVER", "SILENT", "LED"} \X BOOLEAN)

At(s, kind, G) == {i \in DOMAIN s : s[i][1] = kind /\ s[i][2] \in G}

\* The argument of the last command of a kind, if it is one that counts.
Last(s, kind, default, G) ==
    IF At(s, kind, G) = {} THEN default
    ELSE s[CHOOSE i \in At(s, kind, G) : \A j \in At(s, kind, G) : j <= i][2]

\* A command more.
LEMMA LastAppend ==
    ASSUME NEW S, NEW s \in Seq(S), NEW e \in S, NEW kind, NEW default, NEW G
    PROVE  Last(Append(s, e), kind, default, G)
               = IF e[1] = kind /\ e[2] \in G THEN e[2] ELSE Last(s, kind, default, G)
<1> DEFINE t == Append(s, e)
           n == Len(s)
           A == At(s, kind, G)
           B == At(t, kind, G)
<1>1. /\ n \in Nat /\ t \in Seq(S) /\ Len(t) = n + 1 /\ t[n + 1] = e
      /\ \A i \in 1..n : t[i] = s[i]
      /\ DOMAIN s = 1..n /\ DOMAIN t = 1..n + 1
  <2>1. Len(t) = n + 1 /\ t \in Seq(S)
    BY AppendProperties
  <2> QED
    BY <2>1, AppendProperties, LenProperties
<1> HIDE DEF t, n
<1>2. A \subseteq 1..n
  BY <1>1 DEF At
<1>3. CASE e[1] = kind /\ e[2] \in G
  <2>1. n + 1 \in B /\ \A j \in B : j <= n + 1
    BY <1>1, <1>3 DEF At
  <2>2. \A i \in B : (\A j \in B : j <= i) => i = n + 1
    <3> TAKE i \in B
    <3>1. i \in 1..n + 1
      BY <1>1 DEF At
    <3> QED
      BY <1>1, <2>1, <3>1
  <2> HIDE DEF B
  <2>3. (CHOOSE i \in B : \A j \in B : j <= i) = n + 1
    BY <2>1, <2>2
  <2> QED
    BY <1>1, <1>3, <2>1, <2>3 DEF Last, B, t
<1>4. CASE ~(e[1] = kind /\ e[2] \in G)
  <2>1. B = A
    BY <1>1, <1>4 DEF At
  <2>2. CASE A = {}
    BY <1>4, <2>1, <2>2 DEF Last, t
  <2>3. CASE A # {}
    <3> DEFINE m == CHOOSE i \in A : \A j \in A : j <= i
    <3>1. m \in A
      <4>1. \E i \in A : \A j \in A : j <= i
        BY <1>1, <1>2, <2>3, Greatest
      <4> HIDE DEF A
      <4> QED
        BY <4>1
    <3>2. t[m] = s[m]
      BY <1>1, <1>2, <3>1
    <3>3. Last(s, kind, default, G) = s[m][2]
      BY <2>3 DEF Last
    <3>4. Last(t, kind, default, G) = t[m][2]
      BY <2>1, <2>3 DEF Last
    <3> HIDE DEF m
    <3> QED
      BY <1>4, <3>2, <3>3, <3>4 DEF t
  <2> QED
    BY <2>2, <2>3
<1> QED
  BY <1>3, <1>4

\* Before any command.
LEMMA LastEmpty == \A kind, default, G : Last(<<>>, kind, default, G) = default
<1>1. DOMAIN <<>> = {}
  OBVIOUS
<1> QED
  BY <1>1 DEF Last, At

-----------------------------------------------------------------------------
(* The rate the driver gets.                                               *)

Best(g, rate) ==
    g = [i \in 1..Len(SupportedBitrates) |->
            IF i = 1 \/ Distance(rate, SupportedBitrates[i]) < Distance(rate, g[i - 1])
            THEN SupportedBitrates[i] ELSE g[i - 1]]

Nearer(rate, i, a) == IF Distance(rate, SupportedBitrates[i]) < Distance(rate, a)
                      THEN SupportedBitrates[i] ELSE a

\* The function of nearest_supported_bitrate, value by value.
LEMMA BestIs ==
    ASSUME NEW rate, NEW g, Best(g, rate)
    PROVE  /\ g[1] = SupportedBitrates[1]
           /\ g[2] = Nearer(rate, 2, g[1]) /\ g[3] = Nearer(rate, 3, g[2])
           /\ g[4] = Nearer(rate, 4, g[3]) /\ g[5] = Nearer(rate, 5, g[4])
           /\ g[6] = Nearer(rate, 6, g[5])
<1>1. Len(SupportedBitrates) = 6
  BY DEF SupportedBitrates
<1>2. ASSUME NEW i \in 1..6
      PROVE  g[i] = IF i = 1 \/ Distance(rate, SupportedBitrates[i]) < Distance(rate, g[i - 1])
                    THEN SupportedBitrates[i] ELSE g[i - 1]
  BY <1>1 DEF Best
<1>3. ASSUME NEW i \in 2..6 PROVE g[i] = Nearer(rate, i, g[i - 1])
  BY <1>2 DEF Nearer
<1>4. /\ g[2] = Nearer(rate, 2, g[2 - 1]) /\ g[3] = Nearer(rate, 3, g[3 - 1])
      /\ g[4] = Nearer(rate, 4, g[4 - 1]) /\ g[5] = Nearer(rate, 5, g[5 - 1])
      /\ g[6] = Nearer(rate, 6, g[6 - 1])
  BY <1>3
<1>5. g[1] = SupportedBitrates[1]
  BY <1>2
<1> QED
  BY <1>4, <1>5

\* It is there.
LEMMA BestExists == \A rate : \E g : Best(g, rate)
<1> TAKE rate
<1> DEFINE a1 == SupportedBitrates[1]
           a2 == Nearer(rate, 2, a1)
           a3 == Nearer(rate, 3, a2)
           a4 == Nearer(rate, 4, a3)
           a5 == Nearer(rate, 5, a4)
           a6 == Nearer(rate, 6, a5)
           g == [i \in 1..6 |-> IF i = 1 THEN a1 ELSE IF i = 2 THEN a2 ELSE IF i = 3 THEN a3
                                ELSE IF i = 4 THEN a4 ELSE IF i = 5 THEN a5 ELSE a6]
           step(i) == IF i = 1 \/ Distance(rate, SupportedBitrates[i]) < Distance(rate, g[i - 1])
                      THEN SupportedBitrates[i] ELSE g[i - 1]
<1> HIDE DEF a1, a2, a3, a4, a5, a6
<1>1. /\ g[1] = a1 /\ g[2] = a2 /\ g[3] = a3 /\ g[4] = a4 /\ g[5] = a5 /\ g[6] = a6
  OBVIOUS
<1> HIDE DEF g
<1>2. /\ g[1] = step(1) /\ g[2] = step(2) /\ g[3] = step(3)
      /\ g[4] = step(4) /\ g[5] = step(5) /\ g[6] = step(6)
  BY <1>1 DEF Nearer, a1, a2, a3, a4, a5, a6
<1>3. ASSUME NEW i \in 1..6 PROVE g[i] = step(i)
  <2>1. i = 1 \/ i = 2 \/ i = 3 \/ i = 4 \/ i = 5 \/ i = 6
    OBVIOUS
  <2> HIDE DEF step
  <2> QED
    BY <1>2, <2>1
<1>4. g = [i \in 1..6 |-> step(i)]
  <2>1. g = [i \in 1..6 |-> g[i]]
    BY DEF g
  <2> HIDE DEF step
  <2> QED
    BY <1>3, <2>1
<1>5. Len(SupportedBitrates) = 6
  BY DEF SupportedBitrates
<1> QED
  BY <1>4, <1>5 DEF Best

\* One of two rates is the nearer one, and the nearest stays so.
LEMMA NearerIs ==
    ASSUME NEW rate \in Nat, NEW i \in 1..6, NEW a \in Nat
    PROVE  LET c == Nearer(rate, i, a)
           IN  /\ SupportedBitrates[i] \in Nat /\ c \in Nat
               /\ c = a \/ c = SupportedBitrates[i]
               /\ Distance(c, rate) <= Distance(a, rate)
               /\ Distance(c, rate) <= Distance(SupportedBitrates[i], rate)
<1>1. SupportedBitrates[i] \in Nat
  BY DEF SupportedBitrates
<1> QED
  BY <1>1 DEF Nearer, Distance

\* The rate that is set is one that the controller supports, and none of
\* those is nearer to the rate that was asked for (nearest_supported_bitrate).
LEMMA NearestIs ==
    ASSUME NEW rate \in Nat
    PROVE  /\ NearestSupported(rate) \in Supported
           /\ \A r \in Supported :
                 Distance(NearestSupported(rate), rate) <= Distance(r, rate)
<1> DEFINE g == CHOOSE h : Best(h, rate)
           S(i) == SupportedBitrates[i]
<1>1. NearestSupported(rate) = g[6]
  <2>1. Len(SupportedBitrates) = 6
    BY DEF SupportedBitrates
  <2> QED
    BY <2>1 DEF NearestSupported, Best
<1>2. Best(g, rate)
  BY BestExists
<1> HIDE DEF g
<1>3. /\ g[1] = S(1)
      /\ g[2] = Nearer(rate, 2, g[1]) /\ g[3] = Nearer(rate, 3, g[2])
      /\ g[4] = Nearer(rate, 4, g[3]) /\ g[5] = Nearer(rate, 5, g[4])
      /\ g[6] = Nearer(rate, 6, g[5])
  BY <1>2, BestIs
<1> DEFINE D(a) == Distance(a, rate)
<1>4. ASSUME NEW i \in 1..6, NEW a \in Nat, NEW c, c = Nearer(rate, i, a)
      PROVE  /\ S(i) \in Nat /\ c \in Nat /\ c \in {a, S(i)}
             /\ D(c) <= D(a) /\ D(c) <= D(S(i))
  BY <1>4, NearerIs, Zenon
<1>5. \A a \in Nat : D(a) \in Int
  BY DEF Distance
<1>6. Supported = {S(1), S(2), S(3), S(4), S(5), S(6)}
  <2>1. DOMAIN SupportedBitrates = 1..6
    BY DEF SupportedBitrates
  <2> HIDE DEF S
  <2>2. Supported = {S(i) : i \in 1..6}
    BY <2>1 DEF Supported, S
  <2> QED
    BY <2>2
<1> HIDE DEF S, D
<1>7. S(1) \in Nat /\ g[1] \in Nat
  <2>1. S(1) \in Nat
    BY DEF S, SupportedBitrates
  <2> QED
    BY <1>3, <2>1
<1>a. /\ S(2) \in Nat /\ g[2] \in Nat /\ g[2] \in {g[1], S(2)}
      /\ D(g[2]) <= D(g[1]) /\ D(g[2]) <= D(S(2))
  BY <1>3, <1>4, <1>7
<1>b. /\ S(3) \in Nat /\ g[3] \in Nat /\ g[3] \in {g[2], S(3)}
      /\ D(g[3]) <= D(g[2]) /\ D(g[3]) <= D(S(3))
  BY <1>3, <1>4, <1>a
<1>c. /\ S(4) \in Nat /\ g[4] \in Nat /\ g[4] \in {g[3], S(4)}
      /\ D(g[4]) <= D(g[3]) /\ D(g[4]) <= D(S(4))
  BY <1>3, <1>4, <1>b
<1>d. /\ S(5) \in Nat /\ g[5] \in Nat /\ g[5] \in {g[4], S(5)}
      /\ D(g[5]) <= D(g[4]) /\ D(g[5]) <= D(S(5))
  BY <1>3, <1>4, <1>c
<1>e. /\ S(6) \in Nat /\ g[6] \in Nat /\ g[6] \in {g[5], S(6)}
      /\ D(g[6]) <= D(g[5]) /\ D(g[6]) <= D(S(6))
  BY <1>3, <1>4, <1>d
<1>9. g[6] \in Supported
  BY <1>3, <1>6, <1>a, <1>b, <1>c, <1>d, <1>e
<1>10. \A r \in Supported : D(g[6]) <= D(r)
  <2>1. /\ D(g[1]) \in Int /\ D(g[2]) \in Int /\ D(g[3]) \in Int
        /\ D(g[4]) \in Int /\ D(g[5]) \in Int /\ D(g[6]) \in Int
        /\ \A r \in Supported : D(r) \in Int
    BY <1>5, <1>6, <1>7, <1>a, <1>b, <1>c, <1>d, <1>e
  <2> QED
    BY <1>3, <1>6, <1>a, <1>b, <1>c, <1>d, <1>e, <2>1
<1> QED
  BY <1>1, <1>9, <1>10 DEF D

-----------------------------------------------------------------------------
(* The settings.                                                           *)

Settings == [bitrate : Nat, busOn : BOOLEAN, silent : BOOLEAN, led : BOOLEAN,
             pending : BOOLEAN]

Driver == [installed : BOOLEAN, bitrate : Nat, mode : {"listen", "normal"},
           standby : BOOLEAN]

DevType  == st \in Settings /\ asked \in Seq(Commands)
CtrlType == /\ cpc \in {"loop", "cleared", "snapped", "led"}
            /\ snap \in Settings /\ refused \in BOOLEAN
            /\ hal \in Driver

No == FALSE   \* FALSE, as a value

\* What the host asked for last.
LastBtr(s)    == Last(s, "BITRATE", "x001C", DOMAIN BtrTable)
LastXcver(s)  == Last(s, "XCVER", No, BOOLEAN)
LastSilent(s) == Last(s, "SILENT", No, BOOLEAN)

\* It is what s_dev_state keeps.
Remembered == /\ LastBtr(asked) \in DOMAIN BtrTable
              /\ st.bitrate = BtrTable[LastBtr(asked)]
              /\ st.busOn = LastXcver(asked)
              /\ st.silent = LastSilent(asked)

\* The settings are the same, or the driver has got them.
Same(a, c) == a.bitrate = c.bitrate /\ a.busOn = c.busOn /\ a.silent = c.silent
Has(h, s) == /\ h.installed = s.busOn
             /\ h.standby = ~h.installed
             /\ h.installed => /\ h.mode = ModeOf(s)
                               /\ h.bitrate = NearestSupported(s.bitrate)

\* A setting was asked for.
Asked(s) == \E i \in DOMAIN s : s[i][1] # "LED"

\* While no newer command waits, what ctrl_task took is what is set, and once it
\* is done the driver has it.
Taken   == cpc = "snapped" /\ ~st.pending => Same(snap, st)
Applied == cpc \in {"loop", "led"} /\ ~st.pending /\ ~refused /\ Asked(asked)
           => Has(hal, st)

SettingsInv == DevType /\ CtrlType /\ Remembered /\ Taken /\ Applied

\* The rates of the table.
LEMMA TableRates == /\ \A btr \in DOMAIN BtrTable : BtrTable[btr] \in Nat \ {0}
                    /\ "x001C" \in DOMAIN BtrTable
                    /\ BtrTable["x001C"] = DefaultBitrate
BY DEF BtrTable, DefaultBitrate

\* And those of the controller.
LEMMA SupportedNat == Supported \subseteq Nat
BY DEF Supported, SupportedBitrates

\* What a command leaves of the others.
LEMMA AskedAppend ==
    ASSUME NEW s \in Seq(Commands), NEW e \in Commands
    PROVE  /\ Append(s, e) \in Seq(Commands)
           /\ e[1] = "LED" /\ Asked(Append(s, e)) => Asked(s)
<1>1. /\ Append(s, e) \in Seq(Commands) /\ Len(Append(s, e)) = Len(s) + 1
      /\ Append(s, e)[Len(s) + 1] = e /\ Len(s) \in Nat
      /\ \A i \in 1..Len(s) : Append(s, e)[i] = s[i]
      /\ DOMAIN s = 1..Len(s) /\ DOMAIN Append(s, e) = 1..Len(s) + 1
  <2>1. Append(s, e) \in Seq(Commands) /\ Len(Append(s, e)) = Len(s) + 1
    BY AppendProperties
  <2> QED
    BY <2>1, AppendProperties, LenProperties
<1> DEFINE t == Append(s, e)
           n == Len(s)
<1> HIDE DEF t, n
<1>2. ASSUME e[1] = "LED", NEW i \in DOMAIN t, t[i][1] # "LED"
      PROVE  i \in DOMAIN s /\ s[i][1] # "LED"
  <2>1. i \in 1..n + 1 /\ i # n + 1
    BY <1>1, <1>2 DEF t, n
  <2>2. i \in 1..n
    BY <1>1, <2>1 DEF n
  <2> QED
    BY <1>1, <1>2, <2>2 DEF t, n
<1> QED
  BY <1>1, <1>2 DEF Asked, t

\* One command.
Handled(s, e) ==
    /\ LastBtr(Append(s, e)) = IF e[1] = "BITRATE" /\ e[2] \in DOMAIN BtrTable
                               THEN e[2] ELSE LastBtr(s)
    /\ LastXcver(Append(s, e)) = IF e[1] = "XCVER" /\ e[2] \in BOOLEAN
                                 THEN e[2] ELSE LastXcver(s)
    /\ LastSilent(Append(s, e)) = IF e[1] = "SILENT" /\ e[2] \in BOOLEAN
                                  THEN e[2] ELSE LastSilent(s)

\* It is the last one of its kind.
LEMMA HandledIs ==
    ASSUME NEW s \in Seq(Commands), NEW e \in Commands
    PROVE  Handled(s, e)
<1>1. \A kind, default, G :
         Last(Append(s, e), kind, default, G)
             = IF e[1] = kind /\ e[2] \in G THEN e[2] ELSE Last(s, kind, default, G)
  BY LastAppend
<1> QED
  BY <1>1 DEF Handled, LastBtr, LastXcver, LastSilent

\* pcan_cmd_init.
LEMMA InitSettings == ASSUME Init PROVE SettingsInv
<1>1. <<>> \in Seq(Commands) /\ DOMAIN <<>> = {}
  BY EmptySeq
<1> DEFINE s == [bitrate |-> 500, busOn |-> FALSE, silent |-> FALSE, led |-> FALSE,
                 pending |-> FALSE]
<1>2. DevType /\ CtrlType
  <2>1. s \in Settings
    BY DEF Settings
  <2>2. st = s /\ snap = s /\ asked = <<>> /\ refused \in BOOLEAN /\ cpc = "loop"
    BY DEF Init, DefaultBitrate
  <2>3. hal \in Driver
    BY DEF Init, DefaultBitrate, Driver
  <2> HIDE DEF s
  <2> QED
    BY <1>1, <2>1, <2>2, <2>3 DEF DevType, CtrlType
<1>3. Remembered
  BY LastEmpty, TableRates DEF Init, Remembered, LastBtr, LastXcver, LastSilent, No
<1>4. Taken
  BY DEF Init, Taken
<1>5. Applied
  BY <1>1 DEF Init, Applied, Asked
<1> QED
  BY <1>2, <1>3, <1>4, <1>5 DEF SettingsInv

\* pcan_cmd_handle, SET BITRATE.
LEMMA BitrateSettings == ASSUME SettingsInv, CmdBitrate PROVE SettingsInv'
<1> USE DEF SettingsInv
<1> PICK btr \in Btrs :
      /\ Command("BITRATE", btr)
      /\ st' = [st EXCEPT !.bitrate = IF BtrToBitrate(btr) # 0 THEN BtrToBitrate(btr) ELSE @,
                          !.pending = TRUE]
  BY DEF CmdBitrate
<1> DEFINE e == <<"BITRATE", btr>>
           rate == IF BtrToBitrate(btr) # 0 THEN BtrToBitrate(btr) ELSE st.bitrate
<1>1. e \in Commands
  BY DEF Commands
<1>2. /\ asked' = Append(asked, e) /\ asked' \in Seq(Commands)
      /\ UNCHANGED ctrlVars
  BY <1>1, AskedAppend DEF Command, DevType
<1>3. rate = IF btr \in DOMAIN BtrTable THEN BtrTable[btr] ELSE st.bitrate
  BY TableRates DEF BtrToBitrate
<1>4. rate \in Nat
  BY <1>3, TableRates DEF DevType, Settings
<1> HIDE DEF rate
<1>5. st' = [st EXCEPT !.bitrate = rate, !.pending = TRUE]
  BY DEF rate
<1>6. /\ st' \in Settings /\ st'.bitrate = rate /\ st'.pending = TRUE
      /\ st'.busOn = st.busOn /\ st'.silent = st.silent
  BY <1>4, <1>5 DEF DevType, Settings
<1>7. Handled(asked, e)
  BY <1>1, HandledIs DEF DevType
<1>8. Remembered'
  BY <1>2, <1>3, <1>6, <1>7 DEF Remembered, Handled
<1>9. DevType' /\ CtrlType'
  BY <1>2, <1>6 DEF DevType, CtrlType, ctrlVars
<1>10. Taken' /\ Applied'
  BY <1>6 DEF Taken, Applied
<1> QED
  BY <1>8, <1>9, <1>10

\* SET XCVER.
LEMMA XcverSettings == ASSUME SettingsInv, CmdXcver PROVE SettingsInv'
<1> USE DEF SettingsInv
<1> PICK on \in BOOLEAN : /\ Command("XCVER", on)
                          /\ st' = [st EXCEPT !.busOn = on, !.pending = TRUE]
  BY DEF CmdXcver
<1> DEFINE e == <<"XCVER", on>>
<1>1. e \in Commands
  BY DEF Commands
<1>2. /\ asked' = Append(asked, e) /\ asked' \in Seq(Commands)
      /\ UNCHANGED ctrlVars
  BY <1>1, AskedAppend DEF Command, DevType
<1>3. /\ st' \in Settings /\ st'.busOn = on /\ st'.pending = TRUE
      /\ st'.bitrate = st.bitrate /\ st'.silent = st.silent
  BY DEF DevType, Settings
<1>4. Handled(asked, e)
  BY <1>1, HandledIs DEF DevType
<1>5. Remembered'
  BY <1>2, <1>3, <1>4 DEF Remembered, Handled
<1>6. DevType' /\ CtrlType'
  BY <1>2, <1>3 DEF DevType, CtrlType, ctrlVars
<1>7. Taken' /\ Applied'
  BY <1>3 DEF Taken, Applied
<1> QED
  BY <1>5, <1>6, <1>7

\* SET SILENT.
LEMMA SilentSettings == ASSUME SettingsInv, CmdSilent PROVE SettingsInv'
<1> USE DEF SettingsInv
<1> PICK silent \in BOOLEAN : /\ Command("SILENT", silent)
                              /\ st' = [st EXCEPT !.silent = silent, !.pending = TRUE]
  BY DEF CmdSilent
<1> DEFINE e == <<"SILENT", silent>>
<1>1. e \in Commands
  BY DEF Commands
<1>2. /\ asked' = Append(asked, e) /\ asked' \in Seq(Commands)
      /\ UNCHANGED ctrlVars
  BY <1>1, AskedAppend DEF Command, DevType
<1>3. /\ st' \in Settings /\ st'.silent = silent /\ st'.pending = TRUE
      /\ st'.bitrate = st.bitrate /\ st'.busOn = st.busOn
  BY DEF DevType, Settings
<1>4. Handled(asked, e)
  BY <1>1, HandledIs DEF DevType
<1>5. Remembered'
  BY <1>2, <1>3, <1>4 DEF Remembered, Handled
<1>6. DevType' /\ CtrlType'
  BY <1>2, <1>3 DEF DevType, CtrlType, ctrlVars
<1>7. Taken' /\ Applied'
  BY <1>3 DEF Taken, Applied
<1> QED
  BY <1>5, <1>6, <1>7

\* SET LED: the settings stay, and so does the flag.
LEMMA LedSettings == ASSUME SettingsInv, CmdLed PROVE SettingsInv'
<1> USE DEF SettingsInv
<1> PICK on \in BOOLEAN : /\ Command("LED", on)
                          /\ st' = [st EXCEPT !.led = on]
  BY DEF CmdLed
<1> DEFINE e == <<"LED", on>>
<1>1. e \in Commands
  BY DEF Commands
<1>2. /\ asked' = Append(asked, e) /\ asked' \in Seq(Commands)
      /\ UNCHANGED ctrlVars
      /\ Asked(asked') => Asked(asked)
  BY <1>1, AskedAppend DEF Command, DevType
<1>3. /\ st' \in Settings /\ st'.pending = st.pending /\ Same(st', st)
  BY DEF DevType, Settings, Same
<1>4. Handled(asked, e)
  BY <1>1, HandledIs DEF DevType
<1>5. Remembered'
  BY <1>2, <1>3, <1>4 DEF Remembered, Handled, Same
<1>6. DevType' /\ CtrlType'
  BY <1>2, <1>3 DEF DevType, CtrlType, ctrlVars
<1>7. Taken'
  BY <1>2, <1>3 DEF Taken, Same, ctrlVars
<1>8. Applied'
  BY <1>2, <1>3 DEF Applied, Same, Has, ModeOf, ctrlVars
<1> QED
  BY <1>5, <1>6, <1>7, <1>8

\* ctrl_task.
LEMMA CtrlSettings ==
    ASSUME SettingsInv, CtrlClear \/ CtrlStep
    PROVE  SettingsInv'
<1> USE DEF SettingsInv
<1>1. CASE CtrlClear
  <2> USE <1>1 DEF CtrlClear
  <2>1. /\ st' \in Settings /\ Same(st', st)
    BY DEF DevType, Settings, Same
  <2>2. DevType' /\ CtrlType' /\ Taken' /\ Applied'
    BY <2>1 DEF DevType, CtrlType, Taken, Applied
  <2>3. Remembered'
    BY <2>1 DEF Remembered, Same
  <2> QED
    BY <2>2, <2>3
<1>2. CASE CtrlPass
  <2> USE <1>2 DEF CtrlPass, CtrlFrame, devVars
  <2>1. DevType' /\ CtrlType' /\ Remembered'
    BY DEF DevType, CtrlType, Remembered
  <2>2. Taken' /\ Applied'
    BY DEF Taken, Applied
  <2> QED
    BY <2>1, <2>2
<1>3. CASE CtrlSnapshot
  <2> USE <1>3 DEF CtrlSnapshot, CtrlFrame, devVars
  <2>1. DevType' /\ CtrlType' /\ Remembered'
    BY DEF DevType, CtrlType, Remembered
  <2>2. Taken' /\ Applied'
    BY DEF Taken, Applied, Same
  <2> QED
    BY <2>1, <2>2
<1>4. CASE CtrlApply
  <2> USE <1>4 DEF CtrlApply, CtrlFrame, devVars
  <2>1. DevType' /\ CtrlType' /\ Remembered' /\ Taken'
    <3>1. hal' \in Driver
      <4>1. NearestSupported(snap.bitrate) \in Nat /\ ModeOf(snap) \in {"listen", "normal"}
        BY NearestIs, SupportedNat DEF CtrlType, Settings, ModeOf
      <4>2. Started(snap.bitrate, ModeOf(snap)) \in Driver
        BY <4>1 DEF Started, Driver
      <4>3. Stopped \in Driver
        BY DEF Stopped, Driver, CtrlType
      <4> QED
        BY <4>2, <4>3 DEF CtrlType
    <3> QED
      BY <3>1 DEF DevType, CtrlType, Remembered, Taken
  <2>2. Applied'
    <3>1. SUFFICES ASSUME ~st.pending, ~refused' PROVE Has(hal', st)
      BY DEF Applied
    <3>2. Same(snap, st)
      BY <3>1 DEF Taken
    <3>3. hal' = IF snap.busOn THEN Started(snap.bitrate, ModeOf(snap)) ELSE Stopped
      BY <3>1
    <3>4. snap.busOn \in BOOLEAN
      BY DEF CtrlType, Settings
    <3>5. CASE snap.busOn
      <4>1. hal' = Started(snap.bitrate, ModeOf(snap))
        BY <3>3, <3>5
      <4>2. /\ hal'.installed = TRUE /\ hal'.standby = FALSE /\ hal'.mode = ModeOf(snap)
            /\ hal'.bitrate = NearestSupported(snap.bitrate)
        BY <4>1 DEF Started
      <4>3. ModeOf(snap) = ModeOf(st) /\ st.bitrate = snap.bitrate /\ st.busOn = snap.busOn
        BY <3>2 DEF Same, ModeOf
      <4> HIDE <1>4
      <4>4. st.busOn = TRUE
        BY <3>4, <3>5, <4>3
      <4> QED
        BY <4>2, <4>3, <4>4 DEF Has
    <3>6. CASE ~snap.busOn
      <4>1. hal' = Stopped
        BY <3>3, <3>6
      <4>2. hal'.installed = FALSE /\ hal'.standby = TRUE
        BY <4>1 DEF Stopped, CtrlType, Driver
      <4>3. st.busOn = FALSE
        BY <3>2, <3>4, <3>6 DEF Same
      <4> QED
        BY <4>2, <4>3 DEF Has
    <3> QED
      BY <3>5, <3>6
  <2> QED
    BY <2>1, <2>2
<1>5. CASE CtrlLed
  <2> USE <1>5 DEF CtrlLed, CtrlFrame, devVars
  <2>1. DevType' /\ CtrlType' /\ Remembered'
    BY DEF DevType, CtrlType, Remembered
  <2>2. Taken' /\ Applied'
    BY DEF Taken, Applied
  <2> QED
    BY <2>1, <2>2
<1> QED
  BY <1>1, <1>2, <1>3, <1>4, <1>5 DEF CtrlStep

\* What touches none of it.
LEMMA OtherSettings ==
    ASSUME SettingsInv, UNCHANGED <<devVars, ctrlVars>>
    PROVE  SettingsInv'
BY DEF SettingsInv, DevType, CtrlType, Remembered, Taken, Applied, devVars, ctrlVars

\* The settings are kept, taken and applied as asked for, whatever comes in between.
THEOREM SettingsKept == Spec => []SettingsInv
<1>1. Init => SettingsInv
  BY InitSettings
<1>2. SettingsInv /\ [Next]_vars => SettingsInv'
  <2> SUFFICES ASSUME SettingsInv, [Next]_vars PROVE SettingsInv'
    OBVIOUS
  <2>1. CASE CmdBitrate \/ CmdXcver \/ CmdSilent \/ CmdLed
    BY <2>1, BitrateSettings, XcverSettings, SilentSettings, LedSettings
  <2>2. CASE CtrlClear \/ CtrlStep
    BY <2>2, CtrlSettings
  <2>3. CASE HostSends \/ DevReceives
    BY <2>3, OtherSettings DEF HostSends, DevReceives
  <2>4. CASE UNCHANGED vars
    BY <2>4, OtherSettings DEF vars
  <2> QED
    BY <2>1, <2>2, <2>3, <2>4 DEF Next
<1> QED
  BY <1>1, <1>2, PTL DEF Spec

\* What the property reads from the commands is what was asked for last.
LEMMA LastIs ==
    ASSUME DevType
    PROVE  /\ LastOf("BITRATE", "x001C", Known) = LastBtr(asked)
           /\ LastOf("XCVER", FALSE, Always) = LastXcver(asked)
           /\ LastOf("SILENT", FALSE, Always) = LastSilent(asked)
<1>1. \A i \in DOMAIN asked : asked[i] \in Commands
  BY ElementOfSeq, LenProperties DEF DevType
<1>2. \A i \in DOMAIN asked : asked[i][1] \in {"XCVER", "SILENT"} => asked[i][2] \in BOOLEAN
  BY <1>1 DEF Commands
<1>3. LastOf("BITRATE", "x001C", Known) = LastBtr(asked)
  BY DEF LastOf, LastBtr, Last, At, Known
<1>6. LastOf("XCVER", FALSE, Always) = LastXcver(asked)
  <2> DEFINE A == {i \in DOMAIN asked : asked[i][1] = "XCVER" /\ Always(asked[i][2])}
  <2>1. LastOf("XCVER", FALSE, Always)
            = IF A = {} THEN No ELSE asked[CHOOSE i \in A : \A j \in A : j <= i][2]
    BY DEF LastOf, No
  <2>2. A = At(asked, "XCVER", BOOLEAN)
    BY <1>2 DEF At, Always
  <2> HIDE DEF A
  <2> QED
    BY <2>1, <2>2 DEF LastXcver, Last
<1>7. LastOf("SILENT", FALSE, Always) = LastSilent(asked)
  <2> DEFINE A == {i \in DOMAIN asked : asked[i][1] = "SILENT" /\ Always(asked[i][2])}
  <2>1. LastOf("SILENT", FALSE, Always)
            = IF A = {} THEN No ELSE asked[CHOOSE i \in A : \A j \in A : j <= i][2]
    BY DEF LastOf, No
  <2>2. A = At(asked, "SILENT", BOOLEAN)
    BY <1>2 DEF At, Always
  <2> HIDE DEF A
  <2> QED
    BY <2>1, <2>2 DEF LastSilent, Last
<1> QED
  BY <1>3, <1>6, <1>7

\* When ctrl_task has caught up and the driver did not refuse, the controller runs
\* with the last of each setting the host sent, at the nearest rate it supports
\* (main.c:680, twai_hal.c nearest_supported_bitrate).
THEOREM Settled == Spec => []SettledAsAsked
<1>1. SettingsInv => SettledAsAsked
  <2> SUFFICES ASSUME SettingsInv PROVE SettledAsAsked
    OBVIOUS
  <2> USE DEF SettingsInv
  <2> DEFINE btr == LastOf("BITRATE", "x001C", Known)
             on == LastOf("XCVER", FALSE, Always)
             silent == LastOf("SILENT", FALSE, Always)
  <2>1. btr \in DOMAIN BtrTable /\ st.bitrate = BtrTable[btr] /\ st.busOn = on
        /\ st.silent = silent
    BY LastIs DEF Remembered
  <2> HIDE DEF btr, on, silent
  <2>2. ASSUME cpc = "loop", ~st.pending, ~refused, Asked(asked)
        PROVE  Has(hal, st)
    BY <2>2 DEF Applied
  <2>3. /\ NearestSupported(BtrTable[btr]) \in Supported
        /\ \A r \in Supported :
              Distance(NearestSupported(BtrTable[btr]), BtrTable[btr])
                  <= Distance(r, BtrTable[btr])
    BY <2>1, TableRates, NearestIs
  <2> QED
    BY <2>1, <2>2, <2>3 DEF SettledAsAsked, Has, ModeOf, Asked, btr, on, silent
<1> QED
  BY <1>1, SettingsKept, PTL

-----------------------------------------------------------------------------
(* Three functions defined by recursion: what the host's encoder has       *)
(* written after i records, which frames those hold, and where the device's *)
(* decoder stands behind them.                                             *)

Fresh == [pos |-> 1, out |-> <<>>, ok |-> TRUE]

First(kind) == IF kind = "decode" THEN Fresh ELSE <<>>

\* From record to record; a is the list of records, or the bytes, and w the writer.
Onward(kind, a, w, i, v) ==
    IF kind = "encode" THEN v \o HostRecordBytes(a[i])
    ELSE IF kind = "frames" THEN IF IsStatus(a[i]) THEN v ELSE Append(v, Expected(a[i], w))
    ELSE TxRecord(v, a, w)

Runs(kind, a, w, g, n) ==
    g = [i \in 0..n |-> IF i = 0 THEN First(kind) ELSE Onward(kind, a, w, i, g[i - 1])]

\* There is such a function.
LEMMA RunsExist ==
    ASSUME NEW kind, NEW a, NEW w
    PROVE  \A n \in Nat : \E g : Runs(kind, a, w, g, n)
<1> DEFINE S == {n \in Nat : \E g : Runs(kind, a, w, g, n)}
<1>1. 0 \in S
  <2> DEFINE g == [i \in 0..0 |-> First(kind)]
  <2>1. Runs(kind, a, w, g, 0)
    BY DEF Runs
  <2> QED
    BY <2>1
<1>2. ASSUME NEW n \in Nat, n \in S PROVE n + 1 \in S
  <2>1. PICK g : Runs(kind, a, w, g, n)
    BY <1>2
  <2> DEFINE h == [i \in 0..n + 1 |-> IF i = n + 1 THEN Onward(kind, a, w, n + 1, g[n])
                                      ELSE g[i]]
             step(i) == IF i = 0 THEN First(kind) ELSE Onward(kind, a, w, i, h[i - 1])
  <2>2. ASSUME NEW i \in 0..n + 1 PROVE h[i] = step(i)
    <3>1. CASE i = n + 1
      <4>1. i # 0 /\ i - 1 = n /\ n \in 0..n + 1 /\ n # n + 1
        BY <3>1
      <4> QED
        BY <3>1, <4>1
    <3>2. CASE i # n + 1
      <4>1. i \in 0..n
        BY <3>2
      <4>2. g[i] = IF i = 0 THEN First(kind) ELSE Onward(kind, a, w, i, g[i - 1])
        BY <2>1, <4>1 DEF Runs
      <4>3. h[i] = g[i] /\ (i # 0 => h[i - 1] = g[i - 1])
        BY <4>1
      <4> QED
        BY <4>2, <4>3
    <3> QED
      BY <3>1, <3>2
  <2>3. Runs(kind, a, w, h, n + 1)
    <3>1. h = [i \in 0..n + 1 |-> h[i]]
      OBVIOUS
    <3> HIDE DEF h
    <3> QED
      BY <2>2, <3>1 DEF Runs
  <2> QED
    BY <2>3
<1> HIDE DEF S
<1>3. Nat \subseteq S
  BY <1>1, <1>2, SetInduction
<1> QED
  BY <1>3 DEF S

\* A longer one begins with a shorter one.
LEMMA RunsAgree ==
    ASSUME NEW kind, NEW a, NEW w, NEW n \in Nat, NEW m \in Nat, n <= m,
           NEW g, Runs(kind, a, w, g, n), NEW h, Runs(kind, a, w, h, m)
    PROVE  g[n] = h[n]
<1> DEFINE S == {i \in Nat : i <= n => g[i] = h[i]}
<1>1. 0 \in S
  BY DEF Runs
<1>2. ASSUME NEW i \in Nat, i \in S PROVE i + 1 \in S
  <2>1. SUFFICES ASSUME i + 1 <= n PROVE g[i + 1] = h[i + 1]
    OBVIOUS
  <2>2. g[i] = h[i]
    BY <1>2, <2>1
  <2>3. i + 1 \in 0..n /\ i + 1 \in 0..m /\ i + 1 # 0 /\ (i + 1) - 1 = i
    BY <2>1
  <2>4. g[i + 1] = Onward(kind, a, w, i + 1, g[i])
        /\ h[i + 1] = Onward(kind, a, w, i + 1, h[i])
    BY <2>3 DEF Runs
  <2> QED
    BY <2>2, <2>4
<1> HIDE DEF S
<1>3. Nat \subseteq S
  BY <1>1, <1>2, SetInduction
<1> QED
  BY <1>3 DEF S

\* Its first value, and the next one.
LEMMA RunsNext ==
    ASSUME NEW kind, NEW a, NEW w, NEW n \in Nat,
           NEW g, Runs(kind, a, w, g, n), NEW h, Runs(kind, a, w, h, n + 1)
    PROVE  g[0] = First(kind) /\ h[n + 1] = Onward(kind, a, w, n + 1, g[n])
<1>1. n + 1 \in Nat /\ n <= n + 1 /\ n + 1 # 0 /\ (n + 1) - 1 = n /\ n + 1 \in 0..n + 1
      /\ 0 \in 0..n
  OBVIOUS
<1>2. g[n] = h[n]
  BY <1>1, RunsAgree
<1>3. h[n + 1] = Onward(kind, a, w, n + 1, h[n])
  BY <1>1 DEF Runs
<1>4. g[0] = First(kind)
  BY <1>1 DEF Runs
<1> QED
  BY <1>2, <1>3, <1>4

\* The encoder.
EncodeRuns(a, g, n) == g = [i \in 0..n |-> IF i = 0 THEN <<>>
                                           ELSE g[i - 1] \o HostRecordBytes(a[i])]
Encoded(a, n) == (CHOOSE g : EncodeRuns(a, g, n))[n]

\* Its bytes grow by those of a record.
LEMMA EncodedNext ==
    ASSUME NEW a
    PROVE  /\ HostBytes(a) = Encoded(a, Len(a))
           /\ Encoded(a, 0) = <<>>
           /\ \A n \in Nat : Encoded(a, n + 1) = Encoded(a, n) \o HostRecordBytes(a[n + 1])
<1>1. \A n, g : EncodeRuns(a, g, n) <=> Runs("encode", a, 0, g, n)
  BY DEF EncodeRuns, Runs, First, Onward
<1>2. ASSUME NEW n \in Nat
      PROVE  Encoded(a, n + 1) = Encoded(a, n) \o HostRecordBytes(a[n + 1])
  <2> DEFINE f == CHOOSE g : EncodeRuns(a, g, n)
             h == CHOOSE g : EncodeRuns(a, g, n + 1)
  <2>1. EncodeRuns(a, f, n) /\ EncodeRuns(a, h, n + 1)
    <3>1. n + 1 \in Nat
      OBVIOUS
    <3>2. (\E g : EncodeRuns(a, g, n)) /\ (\E g : EncodeRuns(a, g, n + 1))
      BY <1>1, <3>1, RunsExist
    <3> QED
      BY <3>2
  <2>2. Encoded(a, n) = f[n] /\ Encoded(a, n + 1) = h[n + 1]
    BY DEF Encoded
  <2> HIDE DEF f, h
  <2>3. h[n + 1] = Onward("encode", a, 0, n + 1, f[n])
    BY <1>1, <2>1, RunsNext
  <2> QED
    BY <2>2, <2>3 DEF Onward
<1>3. Encoded(a, 0) = <<>>
  <2> DEFINE f == CHOOSE g : EncodeRuns(a, g, 0)
  <2>1. EncodeRuns(a, f, 0)
    BY <1>1, RunsExist
  <2>2. f[0] = <<>>
    BY <2>1 DEF EncodeRuns
  <2> QED
    BY <2>2 DEF Encoded
<1>4. HostBytes(a) = Encoded(a, Len(a))
  BY DEF HostBytes, Encoded, EncodeRuns
<1> QED
  BY <1>2, <1>3, <1>4

\* The frames.
FramesRuns(a, w, g, n) ==
    g = [i \in 0..n |-> IF i = 0 THEN <<>>
                        ELSE IF IsStatus(a[i]) THEN g[i - 1]
                        ELSE Append(g[i - 1], Expected(a[i], w))]
FramesTo(a, w, n) == (CHOOSE g : FramesRuns(a, w, g, n))[n]

\* One more, or none.
LEMMA FramesNext ==
    ASSUME NEW a, NEW w
    PROVE  /\ FramesOf(a, w) = FramesTo(a, w, Len(a))
           /\ FramesTo(a, w, 0) = <<>>
           /\ \A n \in Nat : FramesTo(a, w, n + 1)
                 = IF IsStatus(a[n + 1]) THEN FramesTo(a, w, n)
                   ELSE Append(FramesTo(a, w, n), Expected(a[n + 1], w))
<1>1. \A n, g : FramesRuns(a, w, g, n) <=> Runs("frames", a, w, g, n)
  BY DEF FramesRuns, Runs, First, Onward
<1>2. ASSUME NEW n \in Nat
      PROVE  FramesTo(a, w, n + 1) = IF IsStatus(a[n + 1]) THEN FramesTo(a, w, n)
                                     ELSE Append(FramesTo(a, w, n), Expected(a[n + 1], w))
  <2> DEFINE f == CHOOSE g : FramesRuns(a, w, g, n)
             h == CHOOSE g : FramesRuns(a, w, g, n + 1)
  <2>1. FramesRuns(a, w, f, n) /\ FramesRuns(a, w, h, n + 1)
    <3>1. n + 1 \in Nat
      OBVIOUS
    <3>2. (\E g : FramesRuns(a, w, g, n)) /\ (\E g : FramesRuns(a, w, g, n + 1))
      BY <1>1, <3>1, RunsExist
    <3> QED
      BY <3>2
  <2>2. FramesTo(a, w, n) = f[n] /\ FramesTo(a, w, n + 1) = h[n + 1]
    BY DEF FramesTo
  <2> HIDE DEF f, h
  <2>3. h[n + 1] = Onward("frames", a, w, n + 1, f[n])
    BY <1>1, <2>1, RunsNext
  <2> QED
    BY <2>2, <2>3 DEF Onward
<1>3. FramesTo(a, w, 0) = <<>>
  <2> DEFINE f == CHOOSE g : FramesRuns(a, w, g, 0)
  <2>1. FramesRuns(a, w, f, 0)
    BY <1>1, RunsExist
  <2>2. f[0] = <<>>
    BY <2>1 DEF FramesRuns
  <2> QED
    BY <2>2 DEF FramesTo
<1>4. FramesOf(a, w) = FramesTo(a, w, Len(a))
  BY DEF FramesOf, FramesTo, FramesRuns
<1> QED
  BY <1>2, <1>3, <1>4

\* The decoder.
DecodeRuns(bytes, w, g, n) == g = [i \in 0..n |-> IF i = 0 THEN Fresh
                                                 ELSE TxRecord(g[i - 1], bytes, w)]
DecodedTo(bytes, w, n) == (CHOOSE g : DecodeRuns(bytes, w, g, n))[n]

\* The writer of the frames: the transmit counter of a full transfer.
Writer(bytes) == IF HeaderLen + Len(bytes) >= BufSize THEN bytes[BufSize - HeaderLen][2] ELSE 0

\* It goes on record by record.
LEMMA DecodedNext ==
    ASSUME NEW bytes, NEW w
    PROVE  /\ DecodedTo(bytes, w, 0) = Fresh
           /\ \A n \in Nat : DecodedTo(bytes, w, n + 1) = TxRecord(DecodedTo(bytes, w, n), bytes, w)
<1>1. \A n, g : DecodeRuns(bytes, w, g, n) <=> Runs("decode", bytes, w, g, n)
  BY DEF DecodeRuns, Runs, First, Onward
<1>2. ASSUME NEW n \in Nat
      PROVE  DecodedTo(bytes, w, n + 1) = TxRecord(DecodedTo(bytes, w, n), bytes, w)
  <2> DEFINE f == CHOOSE g : DecodeRuns(bytes, w, g, n)
             h == CHOOSE g : DecodeRuns(bytes, w, g, n + 1)
  <2>1. DecodeRuns(bytes, w, f, n) /\ DecodeRuns(bytes, w, h, n + 1)
    <3>1. n + 1 \in Nat
      OBVIOUS
    <3>2. (\E g : DecodeRuns(bytes, w, g, n)) /\ (\E g : DecodeRuns(bytes, w, g, n + 1))
      BY <1>1, <3>1, RunsExist
    <3> QED
      BY <3>2
  <2>2. DecodedTo(bytes, w, n) = f[n] /\ DecodedTo(bytes, w, n + 1) = h[n + 1]
    BY DEF DecodedTo
  <2> HIDE DEF f, h
  <2>3. h[n + 1] = Onward("decode", bytes, w, n + 1, f[n])
    BY <1>1, <2>1, RunsNext
  <2> QED
    BY <2>2, <2>3 DEF Onward
<1>3. DecodedTo(bytes, w, 0) = Fresh
  <2> DEFINE f == CHOOSE g : DecodeRuns(bytes, w, g, 0)
  <2>1. DecodeRuns(bytes, w, f, 0)
    BY <1>1, RunsExist
  <2>2. f[0] = Fresh
    BY <2>1 DEF DecodeRuns
  <2> QED
    BY <2>2 DEF DecodedTo
<1> QED
  BY <1>2, <1>3

\* pcan_msg_decode_tx is that decoder.
LEMMA DecodeIs ==
    \A bytes, n :
        DecodeTx(bytes, n)
            = IF bytes = <<>> \/ ~DecodedTo(bytes, Writer(bytes), n).ok THEN Malformed
              ELSE DecodedTo(bytes, Writer(bytes), n).out
BY DEF DecodeTx, DecodedTo, DecodeRuns, Writer, Fresh

-----------------------------------------------------------------------------
(* The bytes of a record of the host.                                      *)

SlOf(r) == IF IsStatus(r) THEN [internal |-> TRUE, len |-> r.status]
           ELSE [internal |-> FALSE, ext |-> r.ext, rtr |-> r.rtr, len |-> r.dlc]
WordOf(r) == [id |-> r.id, srr |-> r.srr, at |-> r.ss]

Byte == {"sl", "id", "data", "tag", "func", "num", "pad", "tail"}
        \X ({SlOf(r) : r \in Records} \cup {WordOf(r) : r \in Records}
            \cup {r.data[i] : r \in Records, i \in 1..MaxDlc} \cup {0, 1})

\* Two parts of a record, one behind the other.
LEMMA Pieces ==
    ASSUME NEW S, NEW s \in Seq(S), NEW r \in Seq(S)
    PROVE  /\ s \o r \in Seq(S) /\ Len(s \o r) = Len(s) + Len(r)
           /\ Len(s) \in Nat /\ Len(r) \in Nat
           /\ \A i \in 1..Len(s) : (s \o r)[i] = s[i]
           /\ \A i \in 1..Len(r) : (s \o r)[Len(s) + i] = r[i]
<1>1. Len(s) \in Nat /\ Len(r) \in Nat
  BY LenProperties
<1>2. /\ s \o r \in Seq(S) /\ Len(s \o r) = Len(s) + Len(r)
      /\ \A i \in 1..Len(s) + Len(r) : (s \o r)[i] = IF i <= Len(s) THEN s[i]
                                                     ELSE r[i - Len(s)]
  BY ConcatProperties
<1> DEFINE w == s \o r
           k == Len(s)
           m == Len(r)
<1> HIDE DEF w, k, m
<1>3. /\ k \in Nat /\ m \in Nat
      /\ \A i \in 1..k + m : w[i] = IF i <= k THEN s[i] ELSE r[i - k]
  BY <1>1, <1>2 DEF w, k, m
<1>4. \A i \in 1..k : w[i] = s[i]
  BY <1>3
<1>5. ASSUME NEW i \in 1..m PROVE w[k + i] = r[i]
  <2>1. k + i \in 1..k + m /\ ~(k + i <= k) /\ (k + i) - k = i
    BY <1>3
  <2> QED
    BY <1>3, <2>1
<1> QED
  BY <1>1, <1>2, <1>4, <1>5 DEF w, k, m

\* In particular of bytes.
LEMMA BytePieces ==
    \A u, v \in Seq(Byte) :
        /\ u \o v \in Seq(Byte) /\ Len(u \o v) = Len(u) + Len(v)
        /\ \A i \in 1..Len(u) : (u \o v)[i] = u[i]
        /\ \A i \in 1..Len(v) : (u \o v)[Len(u) + i] = v[i]
BY Pieces

\* A part of n bytes.
LEMMA PieceIs ==
    ASSUME NEW S, NEW n \in Nat, NEW s, s \in [1..n -> S]
    PROVE  s \in Seq(S) /\ Len(s) = n
<1>1. s \in Seq(S)
  BY SeqDef
<1>2. Len(s) \in Nat /\ DOMAIN s = 1..Len(s)
  BY <1>1, LenProperties
<1>3. 1..Len(s) = 1..n
  BY <1>2
<1> QED
  BY <1>1, <1>2, <1>3


\* A byte, n times.
LEMMA RepeatIs ==
    ASSUME NEW n \in Nat, NEW x \in Byte
    PROVE  /\ Repeat(x, n) \in Seq(Byte) /\ Len(Repeat(x, n)) = n
           /\ \A i \in 1..n : Repeat(x, n)[i] = x
<1>1. Repeat(x, n) \in [1..n -> Byte]
  BY DEF Repeat
<1> QED
  BY <1>1, PieceIs DEF Repeat

\* A record begins behind byte p, as far as there are bytes.
SlAt(bytes, p, n, r) == p + 1 <= n => bytes[p + 1] = <<"sl", SlOf(r)>>

\* The record of a frame.
Tag(r) == IF r.srr THEN 1 ELSE 0
FrameIs(bytes, p, n, r, k, d) ==
    /\ \A i \in 1..k : p + 1 + i <= n => bytes[p + 1 + i] = <<"id", WordOf(r)>>
    /\ \A i \in 1..d : p + 1 + k + i <= n
                       => bytes[p + 1 + k + i] = <<"data", r.data[i]>>
    /\ r.srr /\ p + 1 + k + d + 1 <= n => bytes[p + 1 + k + d + 1] = <<"tag", 0>>

RecordLen(r) == IF IsStatus(r) THEN 3 + r.status
                ELSE 1 + IdBytes(r) + DataBytes(r) + Tag(r)

\* The n bytes there are hold the record behind byte p, or the beginning of it.
RecordAt(bytes, p, n, r) ==
    /\ SlAt(bytes, p, n, r)
    /\ ~IsStatus(r) => FrameIs(bytes, p, n, r, IdBytes(r), DataBytes(r))

\* The numbers of a record.
RecordFacts(r) ==
    IF IsStatus(r) THEN r.status \in Nat
    ELSE /\ r.ext \in BOOLEAN /\ r.rtr \in BOOLEAN /\ r.srr \in BOOLEAN /\ r.ss \in BOOLEAN
         /\ r.dlc \in Nat /\ IdBytes(r) \in {2, 4}
         /\ DataBytes(r) \in Nat /\ DataBytes(r) <= MaxDlc /\ Tag(r) \in {0, 1}
\* It has them.
LEMMA FactsHold == \A r \in Records : RecordFacts(r)
<1> TAKE r \in Records
<1>1. MaxDlc \in Nat
  BY PcanMsgAssumption
<1>2. CASE IsStatus(r)
  BY <1>2, HostPortAssumption DEF RecordFacts
<1>3. CASE ~IsStatus(r)
  <2>1. /\ {r.ext, r.rtr, r.srr, r.ss} \subseteq BOOLEAN /\ r.dlc \in 0..MaxLen
    BY <1>3, HostPortAssumption
  <2>2. /\ r.ext \in BOOLEAN /\ r.rtr \in BOOLEAN /\ r.srr \in BOOLEAN /\ r.ss \in BOOLEAN
    BY <2>1
  <2>3. r.dlc \in Nat
    BY <2>1 DEF MaxLen
  <2>4. DataBytes(r) \in Nat /\ DataBytes(r) <= MaxDlc
    BY <1>1, <2>2, <2>3 DEF DataBytes, Saturated
  <2>5. IdBytes(r) \in {2, 4} /\ Tag(r) \in {0, 1}
    BY DEF IdBytes, Tag
  <2> QED
    BY <1>3, <2>2, <2>3, <2>4, <2>5 DEF RecordFacts
<1> QED
  BY <1>2, <1>3

\* What host_encode_tx writes of it.
LEMMA RecordIs ==
    ASSUME NEW r \in Records
    PROVE  LET b == HostRecordBytes(r)
           IN  /\ b \in Seq(Byte) /\ Len(b) = RecordLen(r)
               /\ RecordAt(b, 0, Len(b), r)
<1> DEFINE b == HostRecordBytes(r)
           sl == <<"sl", SlOf(r)>>
<1>1. sl \in Byte
  BY DEF Byte
<1>2. CASE IsStatus(r)
  <2> DEFINE n == r.status
             x == <<"func", 0>>
             y == <<"num", 0>>
             z == <<"data", 0>>
             one == <<sl, x, y>>
             rest == Repeat(z, n)
             all == one \o rest
  <2>1. n \in Nat
    BY <1>2, FactsHold DEF RecordFacts
  <2>2. x \in Byte /\ y \in Byte /\ z \in Byte
    BY DEF Byte
  <2>3. b = all
    BY <1>2 DEF HostRecordBytes, SlOf
  <2> HIDE DEF sl, x, y, z, n
  <2>4. one \in Seq(Byte) /\ Len(one) = 3 /\ one[1] = sl
    BY <1>1, <2>2
  <2>5. rest \in Seq(Byte) /\ Len(rest) = n
    BY <2>1, <2>2, RepeatIs
  <2> HIDE DEF one, rest
  <2>6. /\ all \in Seq(Byte) /\ Len(all) = 3 + n
        /\ \A i \in 1..3 : all[i] = one[i]
    <3>1. /\ all \in Seq(Byte) /\ Len(all) = Len(one) + Len(rest)
          /\ \A i \in 1..Len(one) : all[i] = one[i]
      BY <2>4, <2>5, BytePieces
    <3> HIDE DEF all
    <3> QED
      BY <2>4, <2>5, <3>1
  <2> HIDE DEF all
  <2>7. all[1] = sl
    BY <2>4, <2>6
  <2>8. RecordAt(b, 0, Len(b), r)
    BY <1>2, <2>3, <2>7 DEF RecordAt, SlAt, sl
  <2> QED
    BY <1>2, <2>3, <2>6, <2>8 DEF RecordLen, n
<1>3. CASE ~IsStatus(r)
  <2> DEFINE k == IdBytes(r)
             d == DataBytes(r)
             t == Tag(r)
             id == <<"id", WordOf(r)>>
             tg == <<"tag", 0>>
             one == <<sl>>
             ids == Repeat(id, k)
             dat == [i \in 1..d |-> <<"data", r.data[i]>>]
             tag == IF r.srr THEN <<tg>> ELSE <<>>
             x == one \o ids
             y == x \o dat
             z == y \o tag
  <2>1. /\ k \in {2, 4} /\ d \in Nat /\ d <= MaxDlc /\ t \in {0, 1} /\ r.srr \in BOOLEAN
        /\ t = IF r.srr THEN 1 ELSE 0
    BY <1>3, FactsHold DEF RecordFacts, Tag
  <2>2. id \in Byte /\ tg \in Byte
    BY DEF Byte
  <2>3. b = z
    BY <1>3 DEF HostRecordBytes, FrameHead, SlOf, WordOf
  <2>4. dat \in Seq(Byte) /\ Len(dat) = d /\ \A i \in 1..d : dat[i] = <<"data", r.data[i]>>
    <3>1. ASSUME NEW i \in 1..d PROVE <<"data", r.data[i]>> \in Byte
      <4>1. i \in 1..MaxDlc
        BY <2>1, PcanMsgAssumption
      <4> QED
        BY <4>1 DEF Byte
    <3>2. dat \in [1..d -> Byte]
      BY <3>1
    <3> QED
      BY <2>1, <3>2, PieceIs
  <2> HIDE DEF sl, id, tg, k, d, t, dat
  <2>5. one \in Seq(Byte) /\ Len(one) = 1 /\ one[1] = sl
    BY <1>1
  <2>6. ids \in Seq(Byte) /\ Len(ids) = k /\ \A i \in 1..k : ids[i] = id
    <3>1. k \in Nat
      BY <2>1
    <3> QED
      BY <2>2, <3>1, RepeatIs
  <2>7. tag \in Seq(Byte) /\ Len(tag) = t /\ (r.srr => tag[1] = tg)
    <3>1. <<>> \in Seq(Byte) /\ Len(<<>>) = 0
      BY EmptySeq
    <3>2. <<tg>> \in Seq(Byte) /\ Len(<<tg>>) = 1 /\ <<tg>>[1] = tg
      BY <2>2
    <3> QED
      BY <2>1, <3>1, <3>2
  <2> HIDE DEF one, ids, tag
  <2>8. /\ x \in Seq(Byte) /\ Len(x) = Len(one) + Len(ids)
        /\ \A i \in 1..Len(one) : x[i] = one[i]
        /\ \A i \in 1..Len(ids) : x[Len(one) + i] = ids[i]
    BY BytePieces, <2>5, <2>6
  <2> HIDE DEF x
  <2>9. /\ y \in Seq(Byte) /\ Len(y) = Len(x) + Len(dat)
        /\ \A i \in 1..Len(x) : y[i] = x[i]
        /\ \A i \in 1..Len(dat) : y[Len(x) + i] = dat[i]
    BY BytePieces, <2>4, <2>8
  <2> HIDE DEF y
  <2>10. /\ z \in Seq(Byte) /\ Len(z) = Len(y) + Len(tag)
         /\ \A i \in 1..Len(y) : z[i] = y[i]
         /\ \A i \in 1..Len(tag) : z[Len(y) + i] = tag[i]
    BY BytePieces, <2>7, <2>9
  <2> HIDE DEF z
  <2>11. Len(x) = 1 + k /\ Len(y) = 1 + k + d /\ Len(z) = 1 + k + d + t /\ k \in Nat
    BY <2>1, <2>4, <2>5, <2>6, <2>7, <2>8, <2>9, <2>10
  <2>12. z[1] = sl
    <3>1. 1 \in 1..1 + k /\ 1 \in 1..1 + k + d
      BY <2>1, <2>11
    <3> QED
      BY <2>5, <2>8, <2>9, <2>10, <2>11, <3>1
  <2>13. ASSUME NEW i \in 1..k PROVE z[1 + i] = id
    <3>1. 1 + i \in 1..1 + k /\ 1 + i \in 1..1 + k + d
      BY <2>1, <2>11
    <3>2. x[1 + i] = ids[i]
      BY <2>5, <2>6, <2>8
    <3>3. y[1 + i] = x[1 + i] /\ z[1 + i] = y[1 + i]
      BY <2>9, <2>10, <2>11, <3>1
    <3> QED
      BY <2>6, <3>2, <3>3
  <2>14. ASSUME NEW i \in 1..d PROVE z[1 + k + i] = dat[i]
    <3>1. 1 + k + i \in 1..1 + k + d
      BY <2>1, <2>11
    <3> QED
      BY <2>4, <2>9, <2>10, <2>11, <3>1
  <2>15. r.srr => z[1 + k + d + 1] = tg
    BY <2>1, <2>7, <2>10, <2>11
  <2>16. RecordAt(z, 0, Len(z), r)
    <3>1. /\ 0 + 1 = 1 /\ \A i \in Nat : 0 + 1 + i = 1 + i
          /\ 0 + 1 + k = 1 + k
      BY <2>11
    <3>2. SlAt(z, 0, Len(z), r)
      BY <2>12, <3>1 DEF SlAt, sl
    <3>3. FrameIs(z, 0, Len(z), r, k, d)
      BY <2>4, <2>13, <2>14, <2>15, <3>1 DEF FrameIs, id, tg
    <3> QED
      BY <3>2, <3>3 DEF RecordAt, k, d
  <2> QED
    BY <1>3, <2>3, <2>10, <2>11, <2>16 DEF RecordLen, k, d, t
<1> QED
  BY <1>2, <1>3

-----------------------------------------------------------------------------
(* How the device reads it.                                                *)

\* Its state: next it reads byte p, and it has the frames o.
Tx(p, o, x) == [pos |-> p, out |-> o, ok |-> x]
Yes == TRUE   \* TRUE, as a value
Broken(s) == \E p, o : s = Tx(p, o, No)

\* What an assignment to one of its parts makes of it.
LEMMA TxSet ==
    \A p, o, x, q :
        /\ [Tx(p, o, x) EXCEPT !.pos = q] = Tx(q, o, x)
        /\ [Tx(p, o, x) EXCEPT !.out = q] = Tx(p, q, x)
        /\ [Tx(p, o, x) EXCEPT !.ok = q] = Tx(p, o, q)
        /\ Tx(p, o, x).pos = p /\ Tx(p, o, x).out = o /\ Tx(p, o, x).ok = x
BY DEF Tx

\* To give up.
LEMMA TxGivesUp == \A p, o, x : GivesUp(Tx(p, o, x)) = Tx(p, o, No)
<1> TAKE p, o, x
<1> DEFINE s == Tx(p, o, x)
<1>1. GivesUp(s) = [s EXCEPT !.ok = No]
  <2> HIDE DEF s
  <2> QED
    BY DEF GivesUp, No
<1> QED
  BY <1>1, TxSet

\* To go on, and to note a frame.
Move(s, q) == [s EXCEPT !.pos = q]
Note(s, q, f) == [s EXCEPT !.pos = q, !.out = f]
\* As far as the state goes.
LEMMA TxNote ==
    ASSUME NEW p, NEW o, NEW x, NEW q, NEW f
    PROVE  Note(Tx(p, o, x), q, f) = Tx(q, f, x) /\ Move(Tx(p, o, x), q) = Tx(q, o, x)
<1> DEFINE s == Tx(p, o, x)
           s1 == [s EXCEPT !.pos = q]
<1>1. s1 = Tx(q, o, x)
  BY TxSet
<1>2. [s1 EXCEPT !.out = f] = Tx(q, f, x)
  <2> HIDE DEF s1
  <2> QED
    BY <1>1, TxSet
<1> HIDE DEF s
<1>3. [s EXCEPT !.pos = q, !.out = f] = [s1 EXCEPT !.out = f]
  OBVIOUS
<1> HIDE DEF s1
<1> QED
  BY <1>1, <1>2, <1>3 DEF Note, Move, s, s1

\* m bytes of a role behind byte p can be read if they are there.
LEMMA ReadsIff ==
    ASSUME NEW bytes, NEW n \in Nat, Len(bytes) = n, NEW p \in Nat, NEW m \in Nat, NEW role,
           \A i \in 1..m : p + i <= n => bytes[p + i][1] = role
    PROVE  Reads(bytes, p + 1, m, role) <=> p + m <= n
<1>1. ASSUME p + m <= n, NEW i \in p + 1..p + 1 + m - 1 PROVE bytes[i][1] = role
  <2>1. i - p \in 1..m /\ p + (i - p) = i /\ p + (i - p) <= n
    BY <1>1
  <2>2. bytes[p + (i - p)][1] = role
    BY <2>1
  <2> QED
    BY <2>1, <2>2
<1>2. p + 1 + m - 1 <= n <=> p + m <= n
  OBVIOUS
<1> QED
  BY <1>1, <1>2 DEF Reads

\* A status record is skipped, if all of it is there.
LEMMA ReadsStatus ==
    ASSUME NEW r \in Records, IsStatus(r), NEW bytes, NEW n \in Nat, Len(bytes) = n,
           NEW p \in Nat, NEW o, NEW w, RecordAt(bytes, p, n, r)
    PROVE  IF p + RecordLen(r) <= n
           THEN TxRecord(Tx(p + 1, o, Yes), bytes, w) = Tx(p + RecordLen(r) + 1, o, Yes)
           ELSE Broken(TxRecord(Tx(p + 1, o, Yes), bytes, w))
<1> DEFINE s == Tx(p + 1, o, Yes)
           m == r.status
           at1 == [s EXCEPT !.pos = @ + 1]
<1>1. m \in Nat /\ RecordLen(r) = 3 + m
  BY FactsHold DEF RecordFacts, RecordLen
<1>2. Reads(bytes, p + 1, 1, "sl") <=> p + 1 <= n
  <2>1. \A i \in 1..1 : p + i <= n => bytes[p + i][1] = "sl"
    <3>1. \A i \in 1..1 : i = 1
      OBVIOUS
    <3> QED
      BY <3>1 DEF RecordAt, SlAt
  <2> QED
    BY <2>1, ReadsIff
<1>3. p + 1 <= n => bytes[p + 1][2] = [internal |-> TRUE, len |-> m]
  BY DEF RecordAt, SlAt, SlOf
<1>4. s.pos = p + 1 /\ s.ok = TRUE
  BY TxSet DEF Yes
<1>5. at1 = Tx(p + 2, o, Yes)
  <2>1. at1 = Move(s, p + 2)
    <3> HIDE DEF s
    <3>1. at1 = [s EXCEPT !.pos = s.pos + 1]
      OBVIOUS
    <3>2. s.pos + 1 = p + 2
      BY <1>4
    <3> QED
      BY <3>1, <3>2 DEF Move
  <2>2. Move(s, p + 2) = Tx(p + 2, o, Yes)
    BY TxNote
  <2> HIDE DEF at1, s
  <2> QED
    BY <2>1, <2>2
<1>6. at1.pos = p + 2
  <2> HIDE DEF at1
  <2> QED
    BY <1>5, TxSet
<1> HIDE DEF s, m
<1>7. CASE ~(p + 1 <= n)
  <2>1. TxRecord(s, bytes, w) = GivesUp(s)
    BY <1>2, <1>4, <1>7 DEF TxRecord
  <2>2. GivesUp(s) = Tx(p + 1, o, No)
    BY TxGivesUp DEF s
  <2>3. ~(p + (3 + m) <= n)
    BY <1>1, <1>7
  <2> QED
    BY <1>1, <2>1, <2>2, <2>3 DEF Broken, s
<1>8. CASE p + 1 <= n
  <2> DEFINE sl == bytes[p + 1][2]
  <2>1. sl.internal = TRUE /\ sl.len = m
    BY <1>3, <1>8
  <2>2. TxRecord(s, bytes, w)
            = IF ~sl.internal THEN TxData(at1, sl, bytes, w)
              ELSE IF at1.pos + 1 + sl.len <= Len(bytes)
              THEN [at1 EXCEPT !.pos = @ + 2 + sl.len] ELSE GivesUp(at1)
    BY <1>2, <1>4, <1>8 DEF TxRecord
  <2> HIDE DEF at1, sl
  <2>3. TxRecord(s, bytes, w)
            = IF at1.pos + 1 + m <= n THEN Move(at1, at1.pos + 2 + m) ELSE GivesUp(at1)
    BY <2>1, <2>2 DEF Move
  <2>4. /\ at1.pos + 1 + m <= n <=> p + (3 + m) <= n
        /\ at1.pos + 2 + m = p + (3 + m) + 1
    BY <1>1, <1>6
  <2>5. GivesUp(at1) = Tx(p + 2, o, No)
    BY <1>5, TxGivesUp
  <2>6. Move(at1, at1.pos + 2 + m) = Tx(p + (3 + m) + 1, o, Yes)
    BY <1>5, <2>4, TxNote
  <2> QED
    BY <1>1, <2>3, <2>4, <2>5, <2>6 DEF Broken, s
<1> QED
  BY <1>7, <1>8

\* A frame is decoded, if all of it is there.
LEMMA ReadsFrame ==
    ASSUME NEW r \in Records, ~IsStatus(r), NEW bytes, NEW n \in Nat, Len(bytes) = n,
           NEW p \in Nat, NEW o, NEW w, RecordAt(bytes, p, n, r)
    PROVE  IF p + RecordLen(r) <= n
           THEN TxRecord(Tx(p + 1, o, Yes), bytes, w)
                    = Tx(p + RecordLen(r) + 1, Append(o, Expected(r, w)), Yes)
           ELSE Broken(TxRecord(Tx(p + 1, o, Yes), bytes, w))
<1> DEFINE s == Tx(p + 1, o, Yes)
           k == IdBytes(r)
           d == DataBytes(r)
           t == Tag(r)
           at1 == [s EXCEPT !.pos = @ + 1]
<1>1. /\ k \in {2, 4} /\ k \in Nat /\ k >= 2 /\ d \in Nat /\ d <= MaxDlc /\ t \in {0, 1} /\ t \in Nat
      /\ RecordLen(r) = 1 + k + d + t
      /\ r.ext \in BOOLEAN /\ r.rtr \in BOOLEAN /\ r.srr \in BOOLEAN
  BY FactsHold DEF RecordFacts, RecordLen
<1>2. Reads(bytes, p + 1, 1, "sl") <=> p + 1 <= n
  <2>1. \A i \in 1..1 : p + i <= n => bytes[p + i][1] = "sl"
    <3>1. \A i \in 1..1 : i = 1
      OBVIOUS
    <3> QED
      BY <3>1 DEF RecordAt, SlAt
  <2> QED
    BY <2>1, ReadsIff
<1>3. p + 1 <= n => bytes[p + 1][2] = SlOf(r)
  BY DEF RecordAt, SlAt
<1>4. s.pos = p + 1 /\ s.ok = TRUE
  BY TxSet DEF Yes
<1>5. at1 = Tx(p + 2, o, Yes)
  <2>1. at1 = Move(s, p + 2)
    <3> HIDE DEF s
    <3>1. at1 = [s EXCEPT !.pos = s.pos + 1]
      OBVIOUS
    <3>2. s.pos + 1 = p + 2
      BY <1>4
    <3> QED
      BY <3>1, <3>2 DEF Move
  <2>2. Move(s, p + 2) = Tx(p + 2, o, Yes)
    BY TxNote
  <2> HIDE DEF at1, s
  <2> QED
    BY <2>1, <2>2
<1> HIDE DEF at1
<1>6. at1.pos = p + 2 /\ at1.out = o
  BY <1>5, TxSet
<1> HIDE DEF s
<1>7. CASE ~(p + 1 <= n)
  <2>1. TxRecord(s, bytes, w) = GivesUp(s)
    BY <1>2, <1>4, <1>7 DEF TxRecord
  <2>2. GivesUp(s) = Tx(p + 1, o, No)
    BY TxGivesUp DEF s
  <2>3. ~(p + (1 + k + d + t) <= n)
    <3> HIDE DEF k, d, t
    <3> QED
      BY <1>1, <1>7
  <2> QED
    BY <1>1, <2>1, <2>2, <2>3 DEF Broken, s
<1>8. CASE p + 1 <= n
  <2> DEFINE sl == SlOf(r)
             n2 == IF sl.ext THEN 4 ELSE 2
             word == bytes[at1.pos][2]
             size == IF sl.rtr THEN 0 ELSE Saturated(sl.len)
             data == [i \in 1..size |-> bytes[at1.pos + n2 + i - 1][2]]
             tag == TxTag(sl, word)
  <2>1. sl.internal = FALSE /\ sl.ext = r.ext /\ sl.rtr = r.rtr /\ sl.len = r.dlc
    BY DEF SlOf
  <2>2. TxRecord(s, bytes, w) = TxData(at1, sl, bytes, w)
    <3>1. bytes[s.pos][2] = sl
      BY <1>3, <1>4, <1>8
    <3> HIDE DEF sl
    <3> QED
      BY <1>2, <1>4, <1>8, <2>1, <3>1 DEF TxRecord, at1
  <2>3. n2 = k /\ size = d
    BY <2>1 DEF IdBytes, DataBytes
  <2>4. TxData(at1, sl, bytes, w)
            = IF ~Reads(bytes, at1.pos, n2, "id") \/ ~Reads(bytes, at1.pos + n2, size, "data")
                 \/ ~Reads(bytes, at1.pos + n2 + size, tag, "tag")
              THEN GivesUp(at1)
              ELSE [at1 EXCEPT !.pos = @ + n2 + size + tag,
                               !.out = Append(@, TxFrame(sl, word, data, w))]
    BY DEF TxData
  <2>5. /\ \A i \in 1..k : p + 1 + i <= n => bytes[p + 1 + i] = <<"id", WordOf(r)>>
        /\ \A i \in 1..d : p + 1 + k + i <= n
                           => bytes[p + 1 + k + i] = <<"data", r.data[i]>>
        /\ r.srr /\ p + 1 + k + d + 1 <= n => bytes[p + 1 + k + d + 1] = <<"tag", 0>>
    BY DEF RecordAt, FrameIs
  <2> DEFINE x == TxFrame(sl, word, data, w)
  <2> HIDE DEF k, d, sl, n2, size, data
  <2>6. Reads(bytes, at1.pos, n2, "id") <=> p + 1 + k <= n
    <3>1. p + 1 \in Nat /\ (p + 1) + 1 = p + 2
      OBVIOUS
    <3>2. \A i \in 1..k : p + 1 + i <= n => bytes[p + 1 + i][1] = "id"
      BY <2>5
    <3>3. Reads(bytes, (p + 1) + 1, k, "id") <=> (p + 1) + k <= n
      BY <1>1, <3>1, <3>2, ReadsIff
    <3> QED
      BY <1>6, <2>3, <3>1, <3>3
  <2>7. Reads(bytes, at1.pos + n2, size, "data") <=> p + 1 + k + d <= n
    <3>1. p + 1 + k \in Nat /\ (p + 1 + k) + 1 = p + 2 + k
      BY <1>1
    <3>2. \A i \in 1..d : p + 1 + k + i <= n => bytes[p + 1 + k + i][1] = "data"
      BY <2>5
    <3>3. Reads(bytes, (p + 1 + k) + 1, d, "data") <=> (p + 1 + k) + d <= n
      BY <1>1, <3>1, <3>2, ReadsIff
    <3> QED
      BY <1>6, <2>3, <3>1, <3>3
  <2>8. p + 1 + k <= n => word = WordOf(r) /\ tag = t
    <3>1. SUFFICES ASSUME p + 1 + k <= n PROVE word = WordOf(r) /\ tag = t
      OBVIOUS
    <3>2. 1 \in 1..k /\ p + 1 + 1 = p + 2 /\ p + 1 + 1 <= n
      BY <1>1, <3>1
    <3>3. bytes[p + 1 + 1] = <<"id", WordOf(r)>>
      BY <2>5, <3>2
    <3>4. word = WordOf(r)
      BY <1>6, <3>2, <3>3
    <3>5. word.srr = r.srr
      BY <3>4 DEF WordOf
    <3> QED
      BY <3>4, <3>5 DEF TxTag, Tag
  <2>9. Reads(bytes, p + 2 + k + d, t, "tag") <=> p + 1 + k + d + t <= n
    <3>1. p + 1 + k + d \in Nat /\ (p + 1 + k + d) + 1 = p + 2 + k + d
      BY <1>1
    <3>2. \A i \in 1..t : i = 1 /\ r.srr
      BY <1>1 DEF Tag
    <3>3. \A i \in 1..t : p + 1 + k + d + i <= n => bytes[p + 1 + k + d + i][1] = "tag"
      BY <2>5, <3>2
    <3> HIDE DEF t
    <3>4. Reads(bytes, (p + 1 + k + d) + 1, t, "tag") <=> (p + 1 + k + d) + t <= n
      BY <1>1, <3>1, <3>3, ReadsIff
    <3> QED
      BY <3>1, <3>4
  <2> HIDE DEF word, tag, t
  <2>10. CASE ~(p + RecordLen(r) <= n)
    <3>1. CASE ~(p + 1 + k <= n)
      BY <1>5, <2>2, <2>4, <2>6, <2>10, <3>1, TxGivesUp DEF Broken, s
    <3>2. CASE p + 1 + k <= n
      <4>1. tag = t
        BY <2>8, <3>2
      <4>2. ~(p + 1 + k + d + t <= n)
        BY <1>1, <2>10
      <4>3. at1.pos + n2 + size = p + 2 + k + d
        BY <1>6, <2>3
      <4>4. ~Reads(bytes, at1.pos + n2 + size, tag, "tag")
        BY <2>9, <4>1, <4>2, <4>3
      <4> QED
        BY <1>5, <2>2, <2>4, <2>10, <4>4, TxGivesUp DEF Broken, s
    <3> QED
      BY <3>1, <3>2
  <2>11. CASE p + RecordLen(r) <= n
    <3>1. p + 1 + k + d + t <= n /\ p + 1 + k + d <= n /\ p + 1 + k <= n
      BY <1>1, <2>11
    <3>2. word = WordOf(r) /\ tag = t
      BY <2>8, <3>1
    <3>3. at1.pos + n2 + size = p + 2 + k + d
      BY <1>6, <2>3
    <3>4. TxData(at1, sl, bytes, w) = [at1 EXCEPT !.pos = @ + n2 + size + tag,
                                                  !.out = Append(@, x)]
      BY <2>4, <2>6, <2>7, <2>9, <3>1, <3>2, <3>3
    <3>5. \A i \in 1..d : bytes[at1.pos + n2 + i - 1][2] = r.data[i]
      <4> TAKE i \in 1..d
      <4>1. at1.pos + n2 + i - 1 = p + 1 + k + i /\ p + 1 + k + i <= n
        BY <1>1, <1>6, <2>3, <3>1
      <4> QED
        BY <2>5, <4>1
    <3>6. data = [i \in 1..d |-> r.data[i]]
      BY <2>3, <3>5 DEF data
    <3>7. x = Expected(r, w)
      <4> DEFINE da == [i \in 1..d |-> r.data[i]]
      <4>1. Expected(r, w) = [id |-> r.id, ext |-> r.ext, rtr |-> r.rtr, srr |-> r.srr,
                              ss |-> r.ss, dlc |-> Saturated(r.dlc), data |-> da,
                              writer |-> w]
        BY DEF Expected, d
      <4>2. data = da
        BY <3>6
      <4> HIDE DEF da
      <4>3. word.id = r.id /\ word.srr = r.srr /\ word.at = r.ss
        BY <3>2 DEF WordOf
      <4>4. sl.ext = r.ext /\ sl.rtr = r.rtr /\ Saturated(sl.len) = Saturated(r.dlc)
        BY <2>1
      <4> QED
        BY <4>1, <4>2, <4>3, <4>4 DEF TxFrame
    <3> HIDE DEF x
    <3>8. [at1 EXCEPT !.pos = @ + n2 + size + tag, !.out = Append(@, x)]
              = Note(at1, at1.pos + n2 + size + tag, Append(at1.out, x))
      BY DEF Note
    <3>9. at1.pos + n2 + size + tag = p + RecordLen(r) + 1
      BY <1>1, <3>2, <3>3
    <3>10. TxRecord(s, bytes, w) = Tx(p + RecordLen(r) + 1, Append(o, x), Yes)
      BY <1>5, <1>6, <2>2, <3>4, <3>8, <3>9, TxNote
    <3> QED
      BY <2>11, <3>7, <3>10 DEF s
  <2> QED
    BY <2>10, <2>11
<1> QED
  BY <1>7, <1>8

-----------------------------------------------------------------------------
(* A list of records.                                                      *)

\* What the encoder has written stays.
Grows(e, f) == /\ Len(e) <= Len(f)
               /\ \A i \in 1..Len(e) : f[i] = e[i]

\* Record by record.
LEMMA EncodedGrows ==
    ASSUME NEW records \in Seq(Records), NEW n \in Nat, n + 1 <= Len(records),
           NEW e \in Seq(Byte), NEW f, e = Encoded(records, n), f = Encoded(records, n + 1)
    PROVE  /\ f \in Seq(Byte)
           /\ Len(f) = Len(e) + RecordLen(records[n + 1])
           /\ Len(e) \in Nat /\ RecordLen(records[n + 1]) \in Nat
           /\ records[n + 1] \in Records
           /\ Grows(e, f)
           /\ \A i \in 1..RecordLen(records[n + 1]) :
                 f[Len(e) + i] = HostRecordBytes(records[n + 1])[i]
<1> DEFINE r == records[n + 1]
           b == HostRecordBytes(r)
<1>1. r \in Records
  <2>1. n + 1 \in 1..Len(records)
    BY LenProperties
  <2> QED
    BY <2>1, ElementOfSeq
<1>2. b \in Seq(Byte) /\ Len(b) = RecordLen(r)
  BY <1>1, RecordIs
<1>3. f = e \o b
  BY EncodedNext
<1> HIDE DEF b, r
<1>4. /\ e \o b \in Seq(Byte) /\ Len(e \o b) = Len(e) + Len(b)
      /\ \A i \in 1..Len(e) : (e \o b)[i] = e[i]
      /\ \A i \in 1..Len(b) : (e \o b)[Len(e) + i] = b[i]
  BY <1>2, BytePieces
<1>5. Len(e) \in Nat /\ Len(b) \in Nat
  BY <1>2, LenProperties
<1>6. f \in Seq(Byte) /\ Len(f) = Len(e) + RecordLen(r) /\ RecordLen(r) \in Nat
  BY <1>2, <1>3, <1>4, <1>5
<1>7. Grows(e, f)
  BY <1>3, <1>4, <1>5 DEF Grows
<1>8. \A i \in 1..RecordLen(r) : f[Len(e) + i] = b[i]
  BY <1>2, <1>3, <1>4
<1> QED
  BY <1>1, <1>5, <1>6, <1>7, <1>8 DEF b, r

\* From any record to any later one.
LEMMA EncodedPrefix ==
    ASSUME NEW records \in Seq(Records)
    PROVE  \A j \in 0..Len(records) :
               /\ Encoded(records, j) \in Seq(Byte)
               /\ Len(Encoded(records, j)) \in Nat
               /\ \A k \in 0..j : Grows(Encoded(records, k), Encoded(records, j))
<1> DEFINE E(k) == Encoded(records, k)
           N == Len(records)
           S == {j \in Nat : j <= N => /\ E(j) \in Seq(Byte)
                                       /\ \A k \in 0..j : Grows(E(k), E(j))}
<1> HIDE DEF E
<1>1. 0 \in S
  <2>1. E(0) = <<>>
    BY EncodedNext DEF E
  <2>2. <<>> \in Seq(Byte) /\ Len(<<>>) = 0
    BY EmptySeq
  <2>3. Grows(<<>>, <<>>)
    BY <2>2 DEF Grows
  <2>4. \A k \in 0..0 : k = 0
    OBVIOUS
  <2> QED
    BY <2>1, <2>2, <2>3, <2>4
<1>2. ASSUME NEW j \in Nat, j \in S PROVE j + 1 \in S
  <2> SUFFICES ASSUME j + 1 <= N
               PROVE  E(j + 1) \in Seq(Byte) /\ \A k \in 0..j + 1 : Grows(E(k), E(j + 1))
    OBVIOUS
  <2>0. N \in Nat
    BY LenProperties
  <2>1. E(j) \in Seq(Byte) /\ \A k \in 0..j : Grows(E(k), E(j))
    BY <1>2, <2>0
  <2>2. E(j + 1) \in Seq(Byte) /\ Grows(E(j), E(j + 1)) /\ Len(E(j)) \in Nat
    BY <2>1, EncodedGrows DEF E
  <2>3. ASSUME NEW k \in 0..j + 1 PROVE Grows(E(k), E(j + 1))
    <3>1. CASE k = j + 1
      <4>1. Len(E(j + 1)) \in Nat
        BY <2>2, LenProperties
      <4> QED
        BY <3>1, <4>1 DEF Grows
    <3>2. CASE k # j + 1
      <4>1. k \in 0..j
        BY <3>2
      <4> DEFINE a == E(k)
                 b == E(j)
                 c == E(j + 1)
      <4>2. Grows(a, b) /\ Grows(b, c) /\ b \in Seq(Byte) /\ c \in Seq(Byte)
        BY <2>1, <2>2, <4>1
      <4>3. a \in Seq(Byte) \/ Len(a) <= Len(b)
        BY <4>2 DEF Grows
      <4>4. Len(b) \in Nat /\ Len(c) \in Nat
        BY <4>2, LenProperties
      <4> HIDE DEF a, b, c
      <4>5. \A i \in 1..Len(a) : i \in 1..Len(b)
        BY <4>2, <4>4 DEF Grows
      <4>6. \A i \in 1..Len(a) : c[i] = a[i]
        BY <4>2, <4>5 DEF Grows
      <4>7. Grows(a, c)
        BY <4>2, <4>4, <4>6 DEF Grows
      <4> QED
        BY <4>7 DEF a, c
    <3> QED
      BY <3>1, <3>2
  <2> QED
    BY <2>2, <2>3
<1> HIDE DEF S
<1>3. Nat \subseteq S
  BY <1>1, <1>2, SetInduction
<1>4. ASSUME NEW j \in 0..N
      PROVE  E(j) \in Seq(Byte) /\ Len(E(j)) \in Nat /\ \A k \in 0..j : Grows(E(k), E(j))
  <2>1. j \in S /\ j <= N /\ N \in Nat
    BY <1>3, LenProperties
  <2>2. E(j) \in Seq(Byte) /\ \A k \in 0..j : Grows(E(k), E(j))
    BY <2>1 DEF S
  <2> QED
    BY <2>2, LenProperties
<1> QED
  BY <1>4 DEF E

\* A record that lies behind byte p.
LEMMA RecordLies ==
    ASSUME NEW r \in Records, NEW bytes, NEW p \in Nat, NEW n \in Nat,
           \A i \in 1..RecordLen(r) : p + i <= n => bytes[p + i] = HostRecordBytes(r)[i]
    PROVE  RecordAt(bytes, p, n, r)
<1> DEFINE b == HostRecordBytes(r)
           m == RecordLen(r)
           k == IdBytes(r)
           d == DataBytes(r)
<1>1. Len(b) = m /\ RecordAt(b, 0, m, r)
  BY RecordIs
<1> HIDE DEF b
<1>2. \A i \in 1..m : p + i <= n => bytes[p + i] = b[i]
  BY DEF b
<1>3. m \in Nat /\ m >= 1
  BY FactsHold DEF RecordFacts, RecordLen
<1>4. SlAt(bytes, p, n, r)
  <2>1. 1 \in 1..m /\ 0 + 1 <= m /\ 0 + 1 = 1
    BY <1>3
  <2>2. b[1] = <<"sl", SlOf(r)>>
    BY <1>1, <2>1 DEF RecordAt, SlAt
  <2> QED
    BY <1>2, <2>1, <2>2 DEF SlAt
<1>5. ASSUME ~IsStatus(r) PROVE FrameIs(bytes, p, n, r, k, d)
  <2>1. /\ k \in Nat /\ d \in Nat /\ Tag(r) \in {0, 1} /\ m = 1 + k + d + Tag(r)
        /\ r.srr \in BOOLEAN
    <3>1. k \in {2, 4} => k \in Nat
      OBVIOUS
    <3> QED
      BY <1>5, <3>1, FactsHold DEF RecordFacts, RecordLen
  <2>2. FrameIs(b, 0, m, r, k, d)
    BY <1>1, <1>5 DEF RecordAt
  <2>3. r.srr => Tag(r) = 1
    BY DEF Tag
  <2> HIDE DEF k, d, m
  <2>4. ASSUME NEW i \in 1..k, p + 1 + i <= n PROVE bytes[p + 1 + i] = <<"id", WordOf(r)>>
    <3>1. 1 + i \in 1..m /\ p + (1 + i) = p + 1 + i /\ 0 + 1 + i = 1 + i /\ 0 + 1 + i <= m
      BY <2>1
    <3>2. b[1 + i] = <<"id", WordOf(r)>>
      BY <2>2, <3>1 DEF FrameIs
    <3>3. bytes[p + (1 + i)] = b[1 + i]
      BY <1>2, <2>4, <3>1
    <3> QED
      BY <3>1, <3>2, <3>3
  <2>5. ASSUME NEW i \in 1..d, p + 1 + k + i <= n
        PROVE  bytes[p + 1 + k + i] = <<"data", r.data[i]>>
    <3>1. /\ 1 + k + i \in 1..m /\ p + (1 + k + i) = p + 1 + k + i
          /\ 0 + 1 + k + i = 1 + k + i /\ 0 + 1 + k + i <= m
      BY <2>1
    <3>2. b[1 + k + i] = <<"data", r.data[i]>>
      BY <2>2, <3>1 DEF FrameIs
    <3>3. bytes[p + (1 + k + i)] = b[1 + k + i]
      BY <1>2, <2>5, <3>1
    <3> QED
      BY <3>1, <3>2, <3>3
  <2>6. ASSUME r.srr, p + 1 + k + d + 1 <= n PROVE bytes[p + 1 + k + d + 1] = <<"tag", 0>>
    <3>1. /\ 1 + k + d + 1 \in 1..m /\ p + (1 + k + d + 1) = p + 1 + k + d + 1
          /\ 0 + 1 + k + d + 1 = 1 + k + d + 1 /\ 0 + 1 + k + d + 1 <= m
      BY <2>1, <2>3, <2>6
    <3>2. b[1 + k + d + 1] = <<"tag", 0>>
      BY <2>2, <2>6, <3>1 DEF FrameIs
    <3>3. bytes[p + (1 + k + d + 1)] = b[1 + k + d + 1]
      BY <1>2, <2>6, <3>1
    <3> QED
      BY <3>1, <3>2, <3>3
  <2> QED
    BY <2>4, <2>5, <2>6 DEF FrameIs
<1> QED
  BY <1>4, <1>5 DEF RecordAt, k, d

\* One record more has been read, or what is there ends before it does.
LEMMA ReadsRecord ==
    ASSUME NEW r \in Records, NEW bytes, NEW n \in Nat, Len(bytes) = n,
           NEW p \in Nat, NEW o, NEW w, RecordAt(bytes, p, n, r)
    PROVE  IF p + RecordLen(r) <= n
           THEN TxRecord(Tx(p + 1, o, Yes), bytes, w)
                    = Tx(p + RecordLen(r) + 1,
                         IF IsStatus(r) THEN o ELSE Append(o, Expected(r, w)), Yes)
           ELSE Broken(TxRecord(Tx(p + 1, o, Yes), bytes, w))
<1>1. CASE IsStatus(r)
  BY <1>1, ReadsStatus
<1>2. CASE ~IsStatus(r)
  BY <1>2, ReadsFrame
<1> QED
  BY <1>1, <1>2

\* Who has given up reads nothing more.
LEMMA StaysBroken == \A s, bytes, w : Broken(s) => Broken(TxRecord(s, bytes, w))
<1> TAKE s, bytes, w
<1> SUFFICES ASSUME Broken(s) PROVE Broken(TxRecord(s, bytes, w))
  OBVIOUS
<1>1. PICK p, o : s = Tx(p, o, No)
  BY DEF Broken
<1>2. s.ok = FALSE
  <2>1. Tx(p, o, No).ok = No
    BY TxSet
  <2> QED
    BY <1>1, <2>1 DEF No
<1>3. TxRecord(s, bytes, w) = GivesUp(s)
  BY <1>2 DEF TxRecord
<1> QED
  BY <1>1, <1>3, TxGivesUp DEF Broken

\* The decoder behind k records.
Stands(records, bytes, w, k) ==
    IF Len(Encoded(records, k)) <= Len(bytes)
    THEN DecodedTo(bytes, w, k)
             = Tx(Len(Encoded(records, k)) + 1, FramesTo(records, w, k), Yes)
    ELSE Broken(DecodedTo(bytes, w, k))

\* The bytes are those of the records, as far as they go.
Carries(records, bytes) ==
    \A i \in 1..Len(HostBytes(records)) : i <= Len(bytes) => bytes[i] = HostBytes(records)[i]

\* It has read those that are there, and given up on the first that is cut.
LEMMA ReadsAll ==
    ASSUME NEW records \in Seq(Records), NEW bytes, Len(bytes) \in Nat,
           Carries(records, bytes), NEW w
    PROVE  Stands(records, bytes, w, Len(records))
<1> DEFINE E(k) == Encoded(records, k)
           D(k) == DecodedTo(bytes, w, k)
           F(k) == FramesTo(records, w, k)
           N == Len(records)
           n == Len(bytes)
           S == {k \in Nat : k <= N => Stands(records, bytes, w, k)}
<1>0. N \in Nat /\ n \in Nat
  BY LenProperties
<1>1. 0 \in S
  <2>1. E(0) = <<>> /\ F(0) = <<>> /\ D(0) = Fresh /\ Len(<<>>) = 0
    BY EncodedNext, FramesNext, DecodedNext, EmptySeq
  <2>2. Fresh = Tx(0 + 1, <<>>, Yes)
    <3>1. 0 + 1 = 1
      OBVIOUS
    <3> QED
      BY <3>1 DEF Fresh, Tx, Yes
  <2>3. 0 <= n
    BY <1>0
  <2>4. Stands(records, bytes, w, 0)
    BY <2>1, <2>2, <2>3 DEF Stands
  <2> QED
    BY <2>4
<1>2. ASSUME NEW k \in Nat, k \in S PROVE k + 1 \in S
  <2> SUFFICES ASSUME k + 1 <= N PROVE Stands(records, bytes, w, k + 1)
    OBVIOUS
  <2> DEFINE r == records[k + 1]
             p == Len(E(k))
  <2>1. Stands(records, bytes, w, k)
    BY <1>0, <1>2
  <2>2. k \in 0..N /\ k + 1 \in 0..N /\ N \in 0..N
    BY <1>0
  <2>3. E(k) \in Seq(Byte)
    BY <2>2, EncodedPrefix
  <2>4. /\ r \in Records /\ p \in Nat /\ RecordLen(r) \in Nat
        /\ Len(E(k + 1)) = p + RecordLen(r)
        /\ \A i \in 1..RecordLen(r) : E(k + 1)[p + i] = HostRecordBytes(r)[i]
    BY <2>3, EncodedGrows
  <2>5. Grows(E(k + 1), E(N)) /\ HostBytes(records) = E(N) /\ Len(E(N)) \in Nat
    <3>1. k + 1 \in 0..N /\ N \in 0..N
      BY <2>2
    <3> QED
      BY <3>1, EncodedPrefix, EncodedNext
  <2>6. /\ F(k + 1) = IF IsStatus(r) THEN F(k) ELSE Append(F(k), Expected(r, w))
        /\ D(k + 1) = TxRecord(D(k), bytes, w)
    BY FramesNext, DecodedNext
  <2> DEFINE m == RecordLen(r)
             e == E(k + 1)
             h == E(N)
             b == HostRecordBytes(r)
             x == IF IsStatus(r) THEN F(k) ELSE Append(F(k), Expected(r, w))
  <2> HIDE DEF m, e, h, b, r, p, n
  <2>7. ASSUME NEW i \in 1..m, p + i <= n PROVE bytes[p + i] = b[i]
    <3>1. p + i \in 1..Len(e) /\ Len(e) <= Len(h) /\ Len(h) \in Nat
      BY <2>4, <2>5 DEF m, e, h, Grows
    <3>2. h[p + i] = e[p + i]
      BY <2>5, <3>1 DEF e, h, Grows
    <3>3. p + i \in 1..Len(h)
      <4>1. Len(e) \in Nat
        BY <2>4 DEF e, m
      <4> QED
        BY <2>4, <3>1, <4>1
    <3>4. bytes[p + i] = h[p + i]
      BY <2>5, <2>7, <3>3 DEF Carries, h, n
    <3> QED
      BY <2>4, <3>2, <3>4 DEF e, m, b
  <2>8. RecordAt(bytes, p, n, r)
    BY <1>0, <2>4, <2>7, RecordLies DEF m, b
  <2> HIDE DEF E, D, F, N
  <2>9. CASE p <= n
    <3>1. D(k) = Tx(p + 1, F(k), Yes)
      BY <2>1, <2>9 DEF Stands, p, n, E, D, F
    <3>2. IF p + m <= n THEN TxRecord(Tx(p + 1, F(k), Yes), bytes, w) = Tx(p + m + 1, x, Yes)
          ELSE Broken(TxRecord(Tx(p + 1, F(k), Yes), bytes, w))
      BY <1>0, <2>4, <2>8, ReadsRecord DEF m, n
    <3> HIDE DEF x
    <3>3. IF p + m <= n THEN D(k + 1) = Tx(p + m + 1, x, Yes) ELSE Broken(D(k + 1))
      BY <2>6, <3>1, <3>2
    <3> QED
      BY <2>4, <2>6, <3>3 DEF Stands, m, n, x, E, D, F
  <2>10. CASE ~(p <= n)
    <3>1. Broken(D(k))
      BY <2>1, <2>10 DEF Stands, p, n, E, D
    <3>2. Broken(D(k + 1))
      BY <2>6, <3>1, StaysBroken
    <3>3. ~(p + m <= n)
      BY <1>0, <2>4, <2>10 DEF m
    <3> QED
      BY <2>4, <3>2, <3>3 DEF Stands, m, n, E, D
  <2> QED
    BY <2>9, <2>10
<1> HIDE DEF S
<1>3. Nat \subseteq S
  BY <1>1, <1>2, SetInduction
<1>4. N \in S /\ N <= N
  BY <1>0, <1>3
<1> QED
  BY <1>4 DEF S

-----------------------------------------------------------------------------
(* A transfer.                                                             *)

\* What the host sends: a full buffer, or the beginning of its records.
Transfer(t) ==
    \E records \in Seq(Records), n \in Nat :
        /\ Len(HostEncode(records, 1)) = BufSize - HeaderLen
        /\ n = Len(HostEncode(records, 1)) \/ n <= Len(HostBytes(records))
        /\ t = [records |-> records, bytes |-> SubSeq(HostEncode(records, 1), 1, n)]

TransferInv == transfer = NoTransfer \/ Transfer(transfer)

\* The beginning of a transfer of that many bytes.
Begins(bytes, n, records) ==
    LET full == HostEncode(records, 1)
        m    == Len(HostBytes(records))
    IN  /\ m \in Nat /\ Len(full) = BufSize - HeaderLen /\ m < Len(full)
        /\ Len(bytes) = n /\ (bytes = <<>> <=> n = 0)
        /\ Carries(records, bytes)
        /\ n = Len(full) => bytes[n][2] = 1

\* What is cut from the transfer lies in it.
LEMMA TransferBegins ==
    ASSUME NEW records \in Seq(Records), NEW n \in Nat,
           Len(HostEncode(records, 1)) = BufSize - HeaderLen,
           n = Len(HostEncode(records, 1)) \/ n <= Len(HostBytes(records))
    PROVE  Begins(SubSeq(HostEncode(records, 1), 1, n), n, records)
<1> DEFINE full == HostEncode(records, 1)
           h == HostBytes(records)
           m == Len(h)
           padding == BufSize - HeaderLen - 1 - m
           pad == Repeat(<<"pad", 0>>, padding)
           tail == << <<"tail", 1>> >>
           bytes == SubSeq(full, 1, n)
<1>1. h \in Seq(Byte) /\ m \in Nat
  <2>1. Len(records) \in 0..Len(records)
    BY LenProperties
  <2> QED
    BY <2>1, EncodedPrefix, EncodedNext
<1>2. full = (h \o pad) \o tail
  BY DEF HostEncode
<1>3. BufSize \in Nat /\ HeaderLen = 2 /\ BufSize >= 10
  BY PcanMsgAssumption DEF HeaderLen
<1>4. <<"pad", 0>> \in Byte /\ <<"tail", 1>> \in Byte
  BY DEF Byte
<1>5. tail \in Seq(Byte) /\ Len(tail) = 1 /\ tail[1] = <<"tail", 1>>
  BY <1>4
<1> HIDE DEF h, pad, tail, full
<1>6. /\ pad \in Seq(Byte) /\ Len(pad) \in Nat
      /\ padding \in Nat => Len(pad) = padding
  <2>1. CASE padding \in Nat
    BY <1>4, <2>1, RepeatIs DEF pad
  <2>2. CASE padding \notin Nat
    <3>1. pad = <<>>
      <4>1. 1..padding = {}
        BY <1>1, <1>3, <2>2
      <4> QED
        BY <4>1 DEF pad, Repeat
    <3> QED
      BY <2>2, <3>1, EmptySeq
  <2> QED
    BY <2>1, <2>2, LenProperties
<1> DEFINE hp == h \o pad
<1>7. /\ hp \in Seq(Byte) /\ Len(hp) = m + Len(pad)
      /\ \A i \in 1..m : hp[i] = h[i]
  BY <1>1, <1>6, BytePieces
<1> HIDE DEF hp
<1>8. /\ full \in Seq(Byte) /\ Len(full) = Len(hp) + 1
      /\ \A i \in 1..Len(hp) : full[i] = hp[i]
      /\ full[Len(hp) + 1] = <<"tail", 1>>
  <2>1. full = hp \o tail
    BY <1>2 DEF hp
  <2>2. /\ hp \o tail \in Seq(Byte) /\ Len(hp \o tail) = Len(hp) + Len(tail)
        /\ \A i \in 1..Len(hp) : (hp \o tail)[i] = hp[i]
        /\ \A i \in 1..Len(tail) : (hp \o tail)[Len(hp) + i] = tail[i]
    BY <1>5, <1>7, BytePieces
  <2>3. 1 \in 1..Len(tail)
    BY <1>5
  <2> QED
    BY <1>5, <2>1, <2>2, <2>3
<1>9. m < Len(full) /\ Len(full) = BufSize - HeaderLen /\ Len(full) \in Nat
      /\ n \in 0..Len(full) /\ Len(hp) \in Nat /\ m <= Len(hp)
  BY <1>1, <1>6, <1>7, <1>8 DEF full, h
<1>10. Len(bytes) = n /\ \A i \in 1..n : bytes[i] = full[i]
  <2>1. \A i \in 1..n : full[i] \in Byte
    BY <1>8, <1>9, ElementOfSeq
  <2>2. bytes = [i \in 1..n |-> full[i]]
    <3>1. bytes = [i \in 1..(1 + n - 1) |-> full[i + 1 - 1]]
      BY <1>8, <1>9
    <3> QED
      BY <3>1
  <2> HIDE DEF bytes
  <2>3. bytes \in [1..n -> Byte]
    BY <2>1, <2>2
  <2> QED
    BY <2>2, <2>3, PieceIs
<1>11. bytes = <<>> <=> n = 0
  BY <1>8, <1>9, <1>10, EmptySeq
<1> HIDE DEF bytes
<1>12. Carries(records, bytes)
  <2>1. ASSUME NEW i \in 1..m, i <= n PROVE bytes[i] = h[i]
    <3>1. i \in 1..n /\ i \in 1..Len(hp)
      BY <1>9, <2>1
    <3> QED
      BY <1>7, <1>8, <1>10, <3>1
  <2> QED
    BY <1>10, <2>1 DEF Carries, h
<1>13. n = Len(full) => bytes[n][2] = 1
  <2>1. n = Len(full) => n \in 1..n /\ n = Len(hp) + 1
    BY <1>8, <1>9
  <2> QED
    BY <1>8, <1>10, <2>1
<1> QED
  BY <1>1, <1>9, <1>10, <1>11, <1>12, <1>13 DEF Begins, full, h, bytes

\* It is decoded as the host meant it.
LEMMA TransferRead ==
    ASSUME NEW records \in Seq(Records), NEW n \in Nat, NEW bytes, Begins(bytes, n, records),
           n = BufSize - HeaderLen \/ n <= Len(HostBytes(records))
    PROVE  DecodeTx(bytes, Len(records)) =
               IF n = 0 \/ n < Len(HostBytes(records)) THEN Malformed
               ELSE FramesOf(records, IF n = BufSize - HeaderLen THEN 1 ELSE 0)
<1> DEFINE m == Len(HostBytes(records))
           w == IF n = BufSize - HeaderLen THEN 1 ELSE 0
           N == Len(records)
           D == DecodedTo(bytes, w, N)
<1>1. /\ m \in Nat /\ m < BufSize - HeaderLen /\ Len(bytes) = n /\ (bytes = <<>> <=> n = 0)
      /\ Carries(records, bytes)
      /\ n = BufSize - HeaderLen => bytes[n][2] = 1
  BY DEF Begins
<1>2. BufSize \in Nat /\ HeaderLen = 2 /\ BufSize >= 10
  BY PcanMsgAssumption DEF HeaderLen
<1>3. Writer(bytes) = w
  <2>1. HeaderLen + n >= BufSize <=> n = BufSize - HeaderLen
    BY <1>1, <1>2
  <2> QED
    BY <1>1, <2>1 DEF Writer
<1> HIDE DEF w
<1>4. Stands(records, bytes, w, N)
  BY <1>1, ReadsAll
<1>5. Encoded(records, N) = HostBytes(records) /\ FramesTo(records, w, N) = FramesOf(records, w)
  BY EncodedNext, FramesNext
<1>6. IF m <= n THEN D = Tx(m + 1, FramesOf(records, w), Yes) ELSE Broken(D)
  BY <1>1, <1>4, <1>5 DEF Stands
<1>7. DecodeTx(bytes, N) = IF bytes = <<>> \/ ~D.ok THEN Malformed ELSE D.out
  BY <1>3, DecodeIs
<1> HIDE DEF D, m, N
<1>8. CASE m <= n
  <2>1. D.ok /\ D.out = FramesOf(records, w)
    <3>1. Tx(m + 1, FramesOf(records, w), Yes).ok = Yes
          /\ Tx(m + 1, FramesOf(records, w), Yes).out = FramesOf(records, w)
      BY TxSet
    <3> QED
      BY <1>6, <1>8, <3>1 DEF Yes
  <2>2. ~(n < m)
    BY <1>1, <1>8
  <2> QED
    BY <1>1, <1>7, <2>1, <2>2 DEF m, N, w
<1>9. CASE ~(m <= n)
  <2>1. ~D.ok
    <3>1. PICK p, o : D = Tx(p, o, No)
      BY <1>6, <1>9 DEF Broken
    <3>2. Tx(p, o, No).ok = No
      BY TxSet
    <3> QED
      BY <3>1, <3>2 DEF No
  <2>2. n < m
    BY <1>1, <1>9
  <2> QED
    BY <1>7, <2>1, <2>2 DEF m, N
<1> QED
  BY <1>8, <1>9

\* The host sends nothing else.
LEMMA TransferKept == ASSUME TransferInv, [Next]_vars PROVE TransferInv'
<1>1. CASE UNCHANGED transfer
  BY <1>1 DEF TransferInv, Transfer
<1>2. CASE HostSends
  <2>1. PICK records \in RecordLists, n \in Nat :
            /\ Len(HostEncode(records, 1)) = BufSize - HeaderLen
            /\ n = Len(HostEncode(records, 1)) \/ n <= Len(HostBytes(records))
            /\ transfer' = [records |-> records,
                            bytes |-> SubSeq(HostEncode(records, 1), 1, n)]
    <3>1. PICK records \in RecordLists :
              LET full == HostEncode(records, 1)
              IN  /\ Len(full) = BufSize - HeaderLen
                  /\ \E n \in {Len(full)} \cup 0..Len(HostBytes(records)) :
                        transfer' = [records |-> records, bytes |-> SubSeq(full, 1, n)]
      BY <1>2 DEF HostSends
    <3>2. PICK n \in {Len(HostEncode(records, 1))} \cup 0..Len(HostBytes(records)) :
              transfer' = [records |-> records,
                           bytes |-> SubSeq(HostEncode(records, 1), 1, n)]
      BY <3>1
    <3>3. BufSize - HeaderLen \in Nat
      BY PcanMsgAssumption DEF HeaderLen
    <3>4. Len(HostBytes(records)) \in Nat
      <4>1. records \in Seq(Records)
        BY SeqDef DEF RecordLists
      <4>2. Len(records) \in 0..Len(records)
        BY <4>1, LenProperties
      <4> QED
        BY <4>1, <4>2, EncodedPrefix, EncodedNext
    <3>5. n \in Nat /\ (n = Len(HostEncode(records, 1)) \/ n <= Len(HostBytes(records)))
      BY <3>1, <3>3, <3>4
    <3> QED
      BY <3>1, <3>2, <3>5
  <2>2. records \in Seq(Records)
    BY SeqDef DEF RecordLists
  <2>3. Transfer(transfer')
    BY <2>1, <2>2 DEF Transfer
  <2> QED
    BY <2>3 DEF TransferInv, Transfer
<1>3. CASE DevReceives
  BY <1>3 DEF DevReceives, TransferInv, NoTransfer
<1> QED
  BY <1>1, <1>2, <1>3 DEF Next, CmdBitrate, CmdXcver, CmdSilent, CmdLed, Command,
     CtrlClear, CtrlStep, CtrlPass, CtrlSnapshot, CtrlApply, CtrlLed, CtrlFrame, vars

\* pcan_msg_decode_tx gets out of a transfer the frames that the host put in, in their
\* order and with the transmit counter of a full one; and nothing out of a transfer that
\* is cut inside a record.
THEOREM Decoded == Spec => []TransfersDecoded
<1>1. Init => TransferInv
  BY DEF Init, TransferInv
<1>2. TransferInv /\ [Next]_vars => TransferInv'
  BY TransferKept
<1>3. TransferInv => TransfersDecoded
  <2>1. CASE transfer = NoTransfer
    <3>1. transfer.records = <<>> /\ transfer.bytes = <<>> /\ Len(<<>>) = 0
      BY <2>1, EmptySeq DEF NoTransfer
    <3>2. DecodeTx(<<>>, 0) = Malformed
      BY DecodeIs
    <3> QED
      BY <3>1, <3>2 DEF TransfersDecoded
  <2>2. CASE Transfer(transfer)
    <3>1. PICK records \in Seq(Records), n \in Nat :
              /\ Len(HostEncode(records, 1)) = BufSize - HeaderLen
              /\ n = Len(HostEncode(records, 1)) \/ n <= Len(HostBytes(records))
              /\ transfer = [records |-> records,
                             bytes |-> SubSeq(HostEncode(records, 1), 1, n)]
      BY <2>2 DEF Transfer
    <3> DEFINE bytes == SubSeq(HostEncode(records, 1), 1, n)
    <3>2. transfer.records = records /\ transfer.bytes = bytes
      BY <3>1
    <3>3. Begins(bytes, n, records)
      BY <3>1, TransferBegins
    <3> HIDE DEF bytes
    <3>4. Len(bytes) = n
      BY <3>3 DEF Begins
    <3>5. DecodeTx(bytes, Len(records)) =
              IF n = 0 \/ n < Len(HostBytes(records)) THEN Malformed
              ELSE FramesOf(records, IF n = BufSize - HeaderLen THEN 1 ELSE 0)
      BY <3>1, <3>3, TransferRead
    <3> QED
      BY <3>2, <3>4, <3>5 DEF TransfersDecoded
  <2> QED
    BY <2>1, <2>2 DEF TransferInv
<1> QED
  BY <1>1, <1>2, <1>3, PTL DEF Spec

=============================================================================
