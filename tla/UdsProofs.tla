------------------------------ MODULE UdsProofs ------------------------------
(***************************************************************************)
(* Proofs about the diagnostic server, for every timeout, lockout, number  *)
(* of attempts, counter and download, and any sequence of requests, losses *)
(* and restarts.  First what needs the server alone: who may do what, and  *)
(* when.  Then that each block of a download is taken once and in order,   *)
(* for every size of the block sequence counter above one.                 *)
(***************************************************************************)
EXTENDS Uds, TLAPS

LEMMA Limits == /\ S3Timeout \in Nat /\ S3Timeout > 0
                /\ LockTime \in Nat /\ LockTime > 0
                /\ MaxAttempts \in Nat /\ MaxAttempts > 0
                /\ BscMod \in Nat /\ BscMod > 0
                /\ Size \in Nat /\ Size > 0
                /\ MaxElapsed \in Nat /\ MaxLost \in Nat
BY UdsAssumption

LEMMA Counter == \A k \in Int : k % BscMod \in 0..BscMod - 1
BY Limits

-----------------------------------------------------------------------------
(* What a handler may do to the server s: the timers and the session are   *)
(* the dispatcher's, and a transfer is open only while unlocked.           *)
Guarded(s) == s.active => s.level = 1

Kept(s, t) == /\ t \in Servers
              /\ t.s3 = s.s3 /\ t.session = s.session
              /\ Guarded(s) => Guarded(t)

SameKeys(s, t) == /\ t.lock = s.lock /\ t.attempts = s.attempts
                  /\ t.pending = s.pending

\* A handler other than that of SecurityAccess.
Plain(s, res) == /\ Kept(s, res.s) /\ SameKeys(s, res.s)
                 /\ res.session \in Sessions

LEMMA SessionPlain ==
    ASSUME NEW s \in Servers, NEW r
    PROVE  Plain(s, OnSession(s, r)) /\ OnSession(s, r).s.reset = s.reset
BY DEF Plain, Kept, SameKeys, Guarded, OnSession, Positive, Negative, Servers

LEMMA ResetPlain ==
    ASSUME NEW s \in Servers, NEW r
    PROVE  /\ Plain(s, OnReset(s, r))
           /\ OnReset(s, r).nrc # "none" => OnReset(s, r).s = s
BY DEF Plain, Kept, SameKeys, Guarded, OnReset, Positive, Negative, Servers,
       Sessions

LEMMA OtherPlain ==
    ASSUME NEW s \in Servers, NEW r
    PROVE  Plain(s, OnOther(s, r)) /\ OnOther(s, r).s.reset = s.reset
BY DEF Plain, Kept, SameKeys, Guarded, OnOther, Positive, Negative, Servers

LEMMA RefusedPlain ==
    ASSUME NEW s \in Servers, NEW nrc
    PROVE  Plain(s, Negative(s, nrc)) /\ Negative(s, nrc).s.reset = s.reset
BY DEF Plain, Kept, SameKeys, Guarded, Negative, Servers

LEMMA DownloadPlain ==
    ASSUME NEW s \in Servers, NEW r
    PROVE  Plain(s, OnDownload(s, r)) /\ OnDownload(s, r).s.reset = s.reset
<1> DEFINE t == [s EXCEPT !.active = TRUE, !.size = Size, !.received = 0,
                          !.bsc = 1 % BscMod]
<1>1. /\ t \in Servers
      /\ t.s3 = s.s3 /\ t.session = s.session /\ t.session \in Sessions
      /\ t.reset = s.reset /\ t.level = s.level
      /\ SameKeys(s, t)
  <2>1. 1 % BscMod \in 0..BscMod - 1 /\ 0 \in 0..Size
    BY Counter, Limits
  <2>2. t \in Servers
    BY <2>1, Zenon DEF Servers
  <2>3. /\ SameKeys(s, t)
        /\ t.s3 = s.s3 /\ t.session = s.session /\ t.session \in Sessions
        /\ t.reset = s.reset /\ t.level = s.level
    BY DEF Servers, SameKeys
  <2> QED BY <2>2, <2>3
<1>2. CASE s.level = 1 /\ ~s.active /\ r.arg # "bad"
  <2>1. OnDownload(s, r) = [s |-> t, session |-> t.session, nrc |-> "none"]
    BY <1>2 DEF OnDownload, Positive
  <2> HIDE DEF t
  <2> QED BY <1>1, <1>2, <2>1 DEF Plain, Kept, Guarded
<1>3. CASE ~(s.level = 1 /\ ~s.active /\ r.arg # "bad")
  <2>1. \E nrc : OnDownload(s, r) = Negative(s, nrc)
    BY <1>3 DEF OnDownload
  <2> QED BY <2>1, RefusedPlain
<1> QED BY <1>2, <1>3

LEMMA TransferPlain ==
    ASSUME NEW s \in Servers, NEW r
    PROVE  Plain(s, OnTransfer(s, r)) /\ OnTransfer(s, r).s.reset = s.reset
<1> DEFINE t == [s EXCEPT !.received = @ + 1, !.bsc = (@ + 1) % BscMod]
           Next1 == /\ s.active /\ s.level = 1 /\ r.n % BscMod = s.bsc
                    /\ ~(s.received + 1 > s.size)
           Again == /\ s.active /\ s.level = 1 /\ r.n % BscMod # s.bsc
                    /\ s.received > 0 /\ r.n % BscMod = (s.bsc - 1) % BscMod
<1>1. CASE Next1
  <2>1. s.received + 1 \in 0..Size /\ (s.bsc + 1) % BscMod \in 0..BscMod - 1
    BY <1>1, Limits, Counter DEF Servers
  <2>2. /\ t \in Servers
        /\ t.s3 = s.s3 /\ t.session = s.session /\ t.session \in Sessions
        /\ t.reset = s.reset /\ t.level = s.level
        /\ SameKeys(s, t)
    BY <2>1 DEF Servers, SameKeys
  <2>3. OnTransfer(s, r) = [s |-> t, session |-> t.session, nrc |-> "none"]
    BY <1>1 DEF OnTransfer, Positive
  <2> HIDE DEF t
  <2> QED BY <1>1, <2>2, <2>3 DEF Plain, Kept, Guarded
<1>2. CASE Again
  <2>1. OnTransfer(s, r) = [s |-> s, session |-> s.session, nrc |-> "none"]
    BY <1>2 DEF OnTransfer, Positive
  <2>2. s.session \in Sessions
    BY DEF Servers
  <2> QED BY <2>1, <2>2 DEF Plain, Kept, SameKeys
<1>3. CASE ~Next1 /\ ~Again
  <2>1. \E nrc : OnTransfer(s, r) = Negative(s, nrc)
    BY <1>3 DEF OnTransfer
  <2> QED BY <2>1, RefusedPlain
<1> QED BY <1>1, <1>2, <1>3

LEMMA ExitPlain ==
    ASSUME NEW s \in Servers, NEW r
    PROVE  Plain(s, OnExit(s, r)) /\ OnExit(s, r).s.reset = s.reset
<1> DEFINE t == [s EXCEPT !.active = FALSE, !.size = 0, !.received = 0,
                          !.bsc = 0]
<1>1. /\ t \in Servers
      /\ t.s3 = s.s3 /\ t.session = s.session /\ t.session \in Sessions
      /\ t.reset = s.reset /\ SameKeys(s, t)
  <2>1. 0 \in 0..Size /\ 0 \in 0..BscMod - 1
    BY Limits
  <2>2. t \in Servers
    BY <2>1, Zenon DEF Servers
  <2>3. /\ SameKeys(s, t)
        /\ t.s3 = s.s3 /\ t.session = s.session /\ t.session \in Sessions
        /\ t.reset = s.reset
    BY DEF Servers, SameKeys
  <2> QED BY <2>2, <2>3
<1>2. ~t.active
  BY DEF Servers
<1>3. CASE s.active /\ s.level = 1
  <2>1. OnExit(s, r) = [s |-> t, session |-> t.session, nrc |-> "none"]
    BY <1>3 DEF OnExit, Positive
  <2> HIDE DEF t
  <2> QED BY <1>1, <1>2, <2>1 DEF Plain, Kept, Guarded
<1>4. CASE ~(s.active /\ s.level = 1)
  <2>1. \E nrc : OnExit(s, r) = Negative(s, nrc)
    BY <1>4 DEF OnExit
  <2> QED BY <2>1, RefusedPlain
<1> QED BY <1>3, <1>4

-----------------------------------------------------------------------------
(* What the handler of SecurityAccess does to the count of wrong keys, the *)
(* challenge and the lockout, which starts at the MaxAttempts-th.          *)
Seeded(s, res) == \/ SameKeys(s, res.s)
                  \/ /\ s.level = 0 /\ res.s.pending = 1
                     /\ res.s.lock = s.lock /\ res.s.attempts = s.attempts

RightKey(s, res) == /\ s.lock = 0 /\ s.pending = 1
                    /\ res.s.lock = 0 /\ res.s.pending = 0
                    /\ res.s.attempts = 0

WrongKey(s, res) == /\ s.lock = 0 /\ s.pending = 1
                    /\ res.s.pending = 0
                    /\ IF s.attempts + 1 >= MaxAttempts
                       THEN res.s.attempts = 0 /\ res.s.lock = LockTime
                       ELSE /\ res.s.attempts = s.attempts + 1
                            /\ res.s.lock = 0

\* By what was asked and answered, as the observer tells them apart.
Keys(s, r, res) ==
    IF r.arg # "seed" /\ res.nrc = "none" THEN RightKey(s, res)
    ELSE IF r.arg # "seed" /\ res.nrc \in {"IK", "ENOA"} THEN WrongKey(s, res)
    ELSE IF r.arg = "seed" /\ res.nrc = "none" THEN Seeded(s, res)
    ELSE SameKeys(s, res.s)

LEMMA SecurityKeys ==
    ASSUME NEW s \in Servers, NEW r
    PROVE  /\ Kept(s, OnSecurity(s, r).s)
           /\ OnSecurity(s, r).session \in Sessions
           /\ OnSecurity(s, r).s.reset = s.reset
           /\ Keys(s, r, OnSecurity(s, r))
<1> DEFINE res == OnSecurity(s, r)
<1> SUFFICES /\ Kept(s, res.s) /\ res.session \in Sessions
             /\ res.s.reset = s.reset /\ Keys(s, r, res)
  OBVIOUS
<1>1. s.lock \in Nat /\ s.session \in Sessions /\ s.level \in {0, 1}
      /\ s.pending \in {0, 1} /\ s.attempts \in 0..MaxAttempts - 1
  BY Limits DEF Servers
<1>2. ASSUME NEW nrc, res = Negative(s, nrc), nrc \notin {"none", "IK", "ENOA"}
      PROVE  /\ Kept(s, res.s) /\ res.session \in Sessions
             /\ res.s.reset = s.reset /\ Keys(s, r, res)
  <2>1. res.s = s /\ res.session = s.session /\ res.nrc = nrc
    BY <1>2 DEF Negative
  <2> HIDE DEF res
  <2> QED BY <1>1, <1>2, <2>1 DEF Kept, Keys, SameKeys
<1>3. CASE s.lock > 0
  <2>1. res = Negative(s, "RTDNE")
    BY <1>3 DEF OnSecurity
  <2> QED BY <1>2, <2>1
<1>4. CASE s.lock = 0 /\ r.arg = "otherLevel"
  <2>1. res = Negative(s, "SFNS")
    BY <1>4 DEF OnSecurity
  <2> QED BY <1>2, <2>1
<1>5. CASE s.lock = 0 /\ r.arg = "seed"
  <2>1. CASE s.level = 1
    <3>1. res.s = s /\ res.session = s.session /\ res.nrc = "none"
      BY <1>5, <2>1 DEF OnSecurity, Positive
    <3> HIDE DEF res
    <3> QED BY <1>1, <1>5, <3>1 DEF Kept, Keys, Seeded, SameKeys
  <2>2. CASE s.level = 0
    <3> DEFINE t == [s EXCEPT !.pending = 1]
    <3>1. /\ t \in Servers
          /\ t.s3 = s.s3 /\ t.session = s.session /\ t.reset = s.reset
          /\ t.active = s.active /\ t.level = s.level
          /\ t.pending = 1 /\ t.lock = s.lock /\ t.attempts = s.attempts
      BY DEF Servers
    <3>2. res.s = t /\ res.session = t.session /\ res.nrc = "none"
      BY <1>5, <2>2 DEF OnSecurity, Positive
    <3> HIDE DEF res, t
    <3> QED BY <1>1, <1>5, <2>2, <3>1, <3>2 DEF Kept, Guarded, Keys, Seeded
  <2> QED BY <1>1, <2>1, <2>2
<1>6. CASE s.lock = 0 /\ r.arg \notin {"otherLevel", "seed"}
  <2>1. res = OnKey(s, r.arg = "rightKey")
    BY <1>6 DEF OnSecurity
  <2>2. CASE s.pending = 0
    <3>1. res = Negative(s, "RSE")
      BY <2>1, <2>2 DEF OnKey
    <3> QED BY <1>2, <3>1
  <2>3. CASE s.pending = 1 /\ r.arg = "rightKey"
    <3> DEFINE t == [s EXCEPT !.level = 1, !.pending = 0, !.attempts = 0]
    <3>1. /\ t \in Servers
          /\ t.s3 = s.s3 /\ t.session = s.session /\ t.reset = s.reset
          /\ t.level = 1
          /\ t.pending = 0 /\ t.lock = s.lock /\ t.attempts = 0
      <4>1. 0 \in 0..MaxAttempts - 1
        BY Limits
      <4>2. t \in Servers
        BY <4>1, Zenon DEF Servers
      <4> QED BY <4>2, SMT DEF Servers
    <3>2. res.s = t /\ res.session = t.session /\ res.nrc = "none"
      BY <2>1, <2>3 DEF OnKey, Positive
    <3> HIDE DEF res, t
    <3> QED BY <1>1, <1>6, <2>3, <3>1, <3>2 DEF Kept, Guarded, Keys, RightKey
  <2>4. CASE s.pending = 1 /\ r.arg # "rightKey" /\ s.attempts + 1 >= MaxAttempts
    <3> DEFINE t == [s EXCEPT !.pending = 0, !.attempts = 0, !.lock = LockTime]
    <3>1. /\ t \in Servers
          /\ t.s3 = s.s3 /\ t.session = s.session /\ t.reset = s.reset
          /\ t.active = s.active /\ t.level = s.level
          /\ t.pending = 0 /\ t.lock = LockTime /\ t.attempts = 0
      <4>1. 0 \in 0..MaxAttempts - 1 /\ LockTime \in 0..LockTime
        BY Limits
      <4>2. t \in Servers
        BY <4>1, Zenon DEF Servers
      <4> QED BY <4>2, SMT DEF Servers
    <3>2. res.s = t /\ res.session = t.session /\ res.nrc = "ENOA"
      BY <2>1, <2>4 DEF OnKey, Negative
    <3> HIDE DEF res, t
    <3> QED BY <1>1, <1>6, <2>4, <3>1, <3>2 DEF Kept, Guarded, Keys, WrongKey
  <2>5. CASE s.pending = 1 /\ r.arg # "rightKey" /\ ~(s.attempts + 1 >= MaxAttempts)
    <3> DEFINE t == [s EXCEPT !.pending = 0, !.attempts = @ + 1]
    <3>1. /\ t \in Servers
          /\ t.s3 = s.s3 /\ t.session = s.session /\ t.reset = s.reset
          /\ t.active = s.active /\ t.level = s.level
          /\ t.pending = 0 /\ t.lock = s.lock /\ t.attempts = s.attempts + 1
      <4>1. s.attempts + 1 \in 0..MaxAttempts - 1
        BY <1>1, <2>5, Limits
      <4>2. t \in Servers
        BY <4>1, Zenon DEF Servers
      <4> QED BY <4>2, SMT DEF Servers
    <3>2. res.s = t /\ res.session = t.session /\ res.nrc = "IK"
      BY <2>1, <2>5 DEF OnKey, Negative
    <3> HIDE DEF res, t
    <3> QED BY <1>1, <1>6, <2>5, <3>1, <3>2 DEF Kept, Guarded, Keys, WrongKey
  <2> QED BY <1>1, <2>2, <2>3, <2>4, <2>5
<1> QED BY <1>1, <1>3, <1>4, <1>5, <1>6

LEMMA HandleKeeps ==
    ASSUME NEW s \in Servers, ~s.reset, NEW r
    PROVE  LET res == Handle(s, r)
           IN  /\ Kept(s, res.s) /\ res.session \in Sessions
               /\ res.nrc # "none" => ~res.s.reset
               /\ IF r.sid = "security" THEN Keys(s, r, res) ELSE SameKeys(s, res.s)
<1> DEFINE res == Handle(s, r)
<1> SUFFICES /\ Kept(s, res.s) /\ res.session \in Sessions
             /\ res.nrc # "none" => ~res.s.reset
             /\ IF r.sid = "security" THEN Keys(s, r, res) ELSE SameKeys(s, res.s)
  OBVIOUS
<1>1. CASE r.sid = "security"
  <2>1. res = OnSecurity(s, r)
    BY <1>1 DEF Handle
  <2> HIDE DEF res
  <2> QED BY <1>1, <2>1, SecurityKeys
<1>2. CASE r.sid # "security"
  <2>1. \/ res = OnSession(s, r) \/ res = OnReset(s, r)
        \/ res = OnDownload(s, r) \/ res = OnTransfer(s, r)
        \/ res = OnExit(s, r) \/ res = Negative(s, "SNS") \/ res = OnOther(s, r)
    BY <1>2 DEF Handle
  <2> HIDE DEF res
  <2>2. Plain(s, res) /\ (res.s.reset = s.reset \/ res = OnReset(s, r))
    BY <2>1, SessionPlain, ResetPlain, DownloadPlain, TransferPlain, ExitPlain,
       RefusedPlain, OtherPlain
  <2>3. res.nrc # "none" => ~res.s.reset
    BY <2>2, ResetPlain
  <2> QED BY <1>2, <2>2, <2>3 DEF Plain
<1> QED BY <1>1, <1>2

-----------------------------------------------------------------------------
(* The server v and what has been seen of it, w, agree.                    *)
Lapsed(v) == /\ v.session = "default" /\ v.level = 0
             /\ v.pending = 0 /\ ~v.active

Locks(v, streak, quiet) ==
    IF v.lock = 0
    THEN \/ streak = v.attempts
         \/ v.attempts = 0 /\ streak = MaxAttempts /\ quiet = LockTime
    ELSE v.attempts = 0 /\ streak = MaxAttempts /\ quiet + v.lock = LockTime

Agree(v, w) == /\ v \in Servers /\ w \in Sightings
               /\ Guarded(v)
               /\ w.silent >= S3Timeout => Lapsed(v)
               /\ w.silent < S3Timeout => v.s3 = w.silent
               /\ w.credit >= v.pending
               /\ Locks(v, w.streak, w.quiet)

LEMMA InvAgrees == IInv <=> /\ Agree(srv, seen) /\ ~srv.reset
                            /\ busy \in BOOLEAN /\ lost \in 0..MaxLost
BY DEF IInv, TypeOK, TransferGuarded, LapsesInSilence, ClockAgrees, SeedsAgree,
       LockoutAgrees, Agree, Guarded, Lapsed, Locks

LEMMA AgreesInv == (/\ Agree(srv, seen) /\ ~srv.reset
                    /\ busy \in BOOLEAN /\ lost \in 0..MaxLost)' => IInv'
BY DEF IInv, TypeOK, TransferGuarded, LapsesInSilence, ClockAgrees, SeedsAgree,
       LockoutAgrees, Agree, Guarded, Lapsed, Locks

LEMMA BootAgrees ==
    ASSUME NEW k \in Nat
    PROVE  Agree(Boot, [Unseen EXCEPT !.restarts = k]) /\ ~Boot.reset
<1> DEFINE w == [Unseen EXCEPT !.restarts = k]
<1>1. Boot \in Servers
  <2>1. /\ 0 \in 0..S3Timeout - 1 /\ 0 \in 0..MaxAttempts - 1 /\ 0 \in 0..LockTime
        /\ 0 \in 0..Size /\ 0 \in 0..BscMod - 1
    BY Limits
  <2> QED BY <2>1, Zenon DEF Boot, Servers, Sessions
<1>2. w \in Sightings
  BY Limits DEF Unseen, Sightings
<1>3. /\ w.silent = 0 /\ w.credit = 0 /\ w.streak = 0
  BY DEF Unseen
<1>4. /\ Boot.s3 = 0 /\ Boot.pending = 0 /\ Boot.lock = 0 /\ Boot.attempts = 0
      /\ ~Boot.active /\ ~Boot.reset
  BY DEF Boot
<1> HIDE DEF w
<1> SUFFICES Agree(Boot, w) /\ ~Boot.reset
  BY DEF w
<1> QED BY <1>1, <1>2, <1>3, <1>4, Limits DEF Agree, Guarded, Locks

LEMMA RelockFields ==
    ASSUME NEW s \in Servers
    PROVE  LET t == Relock(s)
           IN  /\ t \in Servers
               /\ t.session = s.session /\ t.s3 = s.s3 /\ t.reset = s.reset
               /\ t.level = 0 /\ t.pending = 0 /\ ~t.active
               /\ t.lock = s.lock /\ t.attempts = s.attempts
<1>1. 0 \in 0..Size /\ 0 \in 0..BscMod - 1
  BY Limits
<1>2. Relock(s) \in Servers
  BY <1>1, Zenon DEF Relock, Servers
<1>3. /\ Relock(s).session = s.session /\ Relock(s).s3 = s.s3
      /\ Relock(s).reset = s.reset
      /\ Relock(s).level = 0 /\ Relock(s).pending = 0
      /\ Relock(s).lock = s.lock /\ Relock(s).attempts = s.attempts
  BY DEF Relock, Servers
<1>4. ~Relock(s).active
  BY DEF Relock, Servers
<1> QED BY <1>2, <1>3, <1>4

LEMMA AgedFields ==
    ASSUME NEW s \in Servers, NEW e \in Nat
    PROVE  LET t == Aged(s, e)
           IN  /\ t \in Servers
               /\ t.session = s.session /\ t.s3 = s.s3 /\ t.reset = s.reset
               /\ t.level = s.level /\ t.pending = s.pending
               /\ t.active = s.active /\ t.attempts = s.attempts
               /\ t.lock = IF s.lock > e THEN s.lock - e ELSE 0
BY Limits DEF Aged, Servers

Passed(o, q, h, k) == [o EXCEPT !.quiet = q, !.silent = h, !.credit = k]

LEMMA PassedFields ==
    ASSUME NEW o \in Sightings, NEW q \in 0..LockTime, NEW h \in 0..S3Timeout,
           NEW k \in Int
    PROVE  /\ Passed(o, q, h, k) \in Sightings
           /\ Passed(o, q, h, k).quiet = q
           /\ Passed(o, q, h, k).silent = h
           /\ Passed(o, q, h, k).credit = k
           /\ Passed(o, q, h, k).streak = o.streak
BY DEF Passed, Sightings

\* What PollIdle makes of seen.
Idle(e) == [seen EXCEPT !.quiet = Capped(@ + e, LockTime),
                        !.silent = Capped(@ + e, S3Timeout),
                        !.credit = IF seen.silent + e >= S3Timeout THEN 0 ELSE @]

Idled(w, e) == /\ w \in Sightings
               /\ w.quiet = Capped(seen.quiet + e, LockTime)
               /\ w.silent = Capped(seen.silent + e, S3Timeout)
               /\ w.credit = IF seen.silent + e >= S3Timeout THEN 0 ELSE seen.credit
               /\ w.streak = seen.streak

LEMMA IdleFields ==
    ASSUME seen \in Sightings, NEW e \in Nat
    PROVE  Idled(Idle(e), e)
<1> DEFINE q == Capped(seen.quiet + e, LockTime)
           h == Capped(seen.silent + e, S3Timeout)
           k == IF seen.silent + e >= S3Timeout THEN 0 ELSE seen.credit
<1>1. Idle(e) = Passed(seen, q, h, k)
  BY Zenon DEF Passed, Idle
<1>2. /\ seen.quiet + e \in Nat /\ seen.silent + e \in Nat
      /\ seen.credit \in Int
  BY Limits DEF Sightings
<1>3. q \in 0..LockTime /\ h \in 0..S3Timeout /\ k \in Int
  BY <1>2, Limits DEF Capped
<1> HIDE DEF q, h, k
<1>4. /\ Passed(seen, q, h, k) \in Sightings
      /\ Passed(seen, q, h, k).quiet = q
      /\ Passed(seen, q, h, k).silent = h
      /\ Passed(seen, q, h, k).credit = k
      /\ Passed(seen, q, h, k).streak = seen.streak
  BY <1>3, PassedFields
<1> QED BY <1>1, <1>4, Zenon DEF Idled, q, h, k

(* A poll without a request: in step with the time nothing was heard.      *)
LEMMA LapseAgrees ==
    ASSUME Agree(srv, seen), ~srv.reset, NEW e \in Nat, NEW w, Idled(w, e)
    PROVE  Agree(Lapse(Aged(srv, e), e), w) /\ ~Lapse(Aged(srv, e), e).reset
<1> DEFINE a == Aged(srv, e)
           v == Lapse(a, e)
<1> SUFFICES Agree(v, w) /\ ~v.reset
  OBVIOUS
<1>1. /\ srv \in Servers /\ seen \in Sightings /\ Guarded(srv)
      /\ seen.silent >= S3Timeout => Lapsed(srv)
      /\ seen.silent < S3Timeout => srv.s3 = seen.silent
      /\ seen.credit >= srv.pending
      /\ Locks(srv, seen.streak, seen.quiet)
  BY DEF Agree
<1>2. /\ a \in Servers
      /\ a.session = srv.session /\ a.s3 = srv.s3 /\ a.reset = srv.reset
      /\ a.level = srv.level /\ a.pending = srv.pending
      /\ a.active = srv.active /\ a.attempts = srv.attempts
      /\ a.lock = IF srv.lock > e THEN srv.lock - e ELSE 0
  BY <1>1, AgedFields
<1>3. /\ srv.lock \in 0..LockTime /\ srv.s3 \in Nat /\ srv.pending \in {0, 1}
      /\ seen.silent \in 0..S3Timeout /\ seen.quiet \in 0..LockTime
      /\ seen.credit \in Int /\ seen.streak \in Nat
  BY <1>1, Limits DEF Servers, Sightings
<1>4. /\ w \in Sightings
      /\ w.quiet = Capped(seen.quiet + e, LockTime)
      /\ w.silent = Capped(seen.silent + e, S3Timeout)
      /\ w.credit = IF seen.silent + e >= S3Timeout THEN 0 ELSE seen.credit
      /\ w.streak = seen.streak
  BY DEF Idled
<1>5. /\ w.quiet \in 0..LockTime /\ w.silent \in 0..S3Timeout
      /\ seen.silent + e >= S3Timeout <=> w.silent >= S3Timeout
      /\ seen.silent + e < S3Timeout => w.silent = seen.silent + e
      /\ seen.quiet + e >= LockTime => w.quiet = LockTime
      /\ seen.quiet + e < LockTime => w.quiet = seen.quiet + e
  BY <1>3, <1>4, Limits DEF Capped
<1>6. Locks(a, w.streak, w.quiet)
  BY <1>1, <1>2, <1>3, <1>4, <1>5, Limits DEF Locks
<1>7. CASE a.s3 + e >= S3Timeout
  <2> DEFINE d == [a EXCEPT !.s3 = 0, !.session = "default"]
  <2>1. /\ d \in Servers /\ d.s3 = 0 /\ d.session = "default"
        /\ d.reset = a.reset /\ d.lock = a.lock /\ d.attempts = a.attempts
    <3>1. 0 \in 0..S3Timeout - 1 /\ "default" \in Sessions
      BY Limits DEF Sessions
    <3>2. d \in Servers
      BY <1>2, <3>1, Zenon DEF Servers
    <3> QED BY <1>2, <3>2, SMT DEF Servers
  <2>2. v = Relock(d)
    BY <1>7 DEF Lapse
  <2> HIDE DEF d, v, a
  <2>3. /\ v \in Servers /\ Lapsed(v) /\ v.s3 = 0 /\ v.reset = a.reset
        /\ v.lock = a.lock /\ v.attempts = a.attempts
    BY <2>1, <2>2, RelockFields DEF Lapsed
  <2>4. v.pending = 0 /\ Guarded(v)
    BY <2>3 DEF Lapsed, Guarded
  <2>5. w.credit >= 0 /\ (w.silent < S3Timeout => v.s3 = w.silent)
    BY <1>1, <1>2, <1>3, <1>4, <1>5, <1>7, <2>3, Limits
  <2>6. Locks(v, w.streak, w.quiet)
    BY <1>6, <2>3 DEF Locks
  <2> QED BY <1>2, <1>4, <2>3, <2>4, <2>5, <2>6 DEF Agree
<1>8. CASE ~(a.s3 + e >= S3Timeout)
  <2>1. v = [a EXCEPT !.s3 = a.s3 + e]
    BY <1>8 DEF Lapse
  <2>2. a.s3 + e \in 0..S3Timeout - 1
    BY <1>2, <1>3, <1>8, Limits
  <2> HIDE DEF v, a
  <2>3. v \in Servers
    BY <1>2, <2>1, <2>2, Zenon DEF Servers
  <2>4. /\ v.s3 = a.s3 + e /\ v.session = a.session /\ v.reset = a.reset
        /\ v.level = a.level /\ v.pending = a.pending /\ v.active = a.active
        /\ v.lock = a.lock /\ v.attempts = a.attempts
    BY <1>2, <2>1, SMT DEF Servers
  <2>5. Guarded(v) /\ (Lapsed(srv) => Lapsed(v)) /\ Locks(v, w.streak, w.quiet)
    BY <1>1, <1>2, <1>6, <2>4 DEF Guarded, Lapsed, Locks
  <2>6. /\ w.silent >= S3Timeout => seen.silent >= S3Timeout
        /\ w.silent < S3Timeout => v.s3 = w.silent
    BY <1>1, <1>2, <1>3, <1>5, <1>8, <2>4, Limits
  <2>7. w.credit >= v.pending
    <3>1. seen.silent >= S3Timeout => srv.pending = 0
      BY <1>1 DEF Lapsed
    <3> QED BY <1>1, <1>2, <1>3, <1>4, <1>5, <2>4, <2>6, <3>1, Limits
  <2> QED BY <1>1, <1>2, <1>4, <2>3, <2>4, <2>5, <2>6, <2>7 DEF Agree
<1> QED BY <1>7, <1>8

-----------------------------------------------------------------------------
(* A poll with a request.                                                  *)
LEMMA AgedLocks ==
    ASSUME Agree(srv, seen), NEW e \in Nat
    PROVE  Locks(Aged(srv, e), seen.streak, Capped(seen.quiet + e, LockTime))
<1>1. /\ srv.lock \in 0..LockTime /\ seen.quiet \in 0..LockTime
      /\ Locks(srv, seen.streak, seen.quiet) /\ srv \in Servers
  BY DEF Agree, Servers, Sightings
<1>2. /\ Aged(srv, e).attempts = srv.attempts
      /\ Aged(srv, e).lock = IF srv.lock > e THEN srv.lock - e ELSE 0
  BY <1>1, AgedFields
<1> QED BY <1>1, <1>2, Limits DEF Locks, Capped

\* The observer's counts after request r, answered res.
Streak(r, res, streak, since) ==
    IF ~Judged(r, res) THEN streak
    ELSE IF ~Wrong(r, res) THEN 0
    ELSE IF streak >= MaxAttempts /\ since >= LockTime THEN 1
    ELSE streak + 1

Quiet(r, res, since) == IF Wrong(r, res) THEN 0 ELSE since

Credit(r, res, credit) == IF Relocks(srv, r, res) THEN 0
                          ELSE IF Judged(r, res) THEN credit - 1
                          ELSE IF Issued(r, res) THEN 1 ELSE credit

Watched(o, c, k, q) == [o EXCEPT !.silent = 0, !.credit = c, !.streak = k,
                                 !.quiet = q]

LEMMA WatchedFields ==
    ASSUME NEW o \in Sightings, NEW c \in Int, NEW k \in Nat,
           NEW q \in 0..LockTime
    PROVE  /\ Watched(o, c, k, q) \in Sightings
           /\ Watched(o, c, k, q).silent = 0
           /\ Watched(o, c, k, q).credit = c
           /\ Watched(o, c, k, q).streak = k
           /\ Watched(o, c, k, q).quiet = q
<1>1. 0 \in 0..S3Timeout
  BY Limits
<1>2. Watched(o, c, k, q) \in Sightings
  BY <1>1, Zenon DEF Watched, Sightings
<1>3. /\ Watched(o, c, k, q).silent = 0
      /\ Watched(o, c, k, q).credit = c
      /\ Watched(o, c, k, q).streak = k
      /\ Watched(o, c, k, q).quiet = q
  BY SMT DEF Watched, Sightings
<1> QED BY <1>2, <1>3

LEMMA ObservedFields ==
    ASSUME seen \in Sightings, NEW r, NEW res, NEW e \in Nat
    PROVE  LET since == Capped(seen.quiet + e, LockTime)
               w     == Observed(r, res, e)
           IN  /\ w \in Sightings
               /\ w.silent = 0
               /\ w.credit = Credit(r, res, seen.credit)
               /\ w.streak = Streak(r, res, seen.streak, since)
               /\ w.quiet = Quiet(r, res, since)
<1> DEFINE since == Capped(seen.quiet + e, LockTime)
           c == Credit(r, res, seen.credit)
           k == Streak(r, res, seen.streak, since)
           q == Quiet(r, res, since)
<1>1. Observed(r, res, e) = Watched(seen, c, k, q)
  BY Zenon DEF Observed, Watched, Credit, Streak, Quiet
<1>2. seen.quiet + e \in Nat /\ seen.credit \in Int /\ seen.streak \in Nat
  BY Limits DEF Sightings
<1>3. since \in 0..LockTime
  BY <1>2, Limits DEF Capped
<1> HIDE DEF since
<1>4. c \in Int /\ k \in Nat /\ q \in 0..LockTime
  BY <1>2, <1>3, Limits DEF Credit, Streak, Quiet
<1> HIDE DEF c, k, q
<1>5. /\ Watched(seen, c, k, q) \in Sightings
      /\ Watched(seen, c, k, q).silent = 0
      /\ Watched(seen, c, k, q).credit = c
      /\ Watched(seen, c, k, q).streak = k
      /\ Watched(seen, c, k, q).quiet = q
  BY <1>4, WatchedFields
<1> QED BY <1>1, <1>5, Zenon DEF c, k, q, since

(* The lockout that the handler left, t, is the one that follows from the  *)
(* keys the observer saw; so is the challenge.                             *)
LEMMA KeysAgree ==
    ASSUME NEW s \in Servers, NEW r, NEW res, res.s \in Servers,
           s.level = srv.level,
           IF r.sid = "security" THEN Keys(s, r, res) ELSE SameKeys(s, res.s),
           NEW streak \in Nat, NEW since \in 0..LockTime, NEW credit \in Int,
           credit >= s.pending, Locks(s, streak, since)
    PROVE  /\ Locks(res.s, Streak(r, res, streak, since), Quiet(r, res, since))
           /\ Relocks(srv, r, res) \/ Credit(r, res, credit) >= res.s.pending
<1> DEFINE t == res.s
<1>1. /\ s.lock \in 0..LockTime /\ s.attempts \in 0..MaxAttempts - 1
      /\ s.pending \in {0, 1} /\ t.pending \in {0, 1}
  BY DEF Servers
<1>2. CASE Judged(r, res) /\ ~Wrong(r, res)
  <2>1. RightKey(s, res)
    BY <1>2 DEF Judged, Wrong, Keys
  <2>2. Locks(t, 0, since)
    BY <2>1 DEF RightKey, Locks
  <2>3. credit - 1 >= t.pending
    BY <1>1, <2>1 DEF RightKey
  <2> QED BY <1>2, <2>2, <2>3 DEF Streak, Quiet, Credit
<1>3. CASE Wrong(r, res)
  <2>1. WrongKey(s, res) /\ Judged(r, res)
    BY <1>3 DEF Judged, Wrong, Keys
  <2> DEFINE k == IF streak >= MaxAttempts /\ since >= LockTime THEN 1
                  ELSE streak + 1
  <2>2. Locks(t, k, 0)
    BY <1>1, <2>1, Limits DEF WrongKey, Locks
  <2>3. credit - 1 >= t.pending
    BY <1>1, <2>1 DEF WrongKey
  <2> QED BY <1>3, <2>1, <2>2, <2>3 DEF Streak, Quiet, Credit
<1>4. CASE ~Judged(r, res)
  <2>1. /\ t.lock = s.lock /\ t.attempts = s.attempts
        /\ \/ t.pending = s.pending
           \/ Issued(r, res)
    BY <1>4 DEF Judged, Issued, Keys, Seeded, SameKeys
  <2>2. ~Wrong(r, res)
    BY <1>4 DEF Wrong
  <2>3. Locks(t, streak, since)
    BY <2>1 DEF Locks
  <2>4. Issued(r, res) \/ credit >= t.pending
    BY <2>1
  <2> QED BY <1>1, <1>4, <2>2, <2>3, <2>4 DEF Streak, Quiet, Credit
<1> QED BY <1>2, <1>3, <1>4

\* The server as the handler finds it.
Found(e) == [Aged(srv, e) EXCEPT !.s3 = 0]

LEMMA FoundFields ==
    ASSUME srv \in Servers, NEW e \in Nat
    PROVE  /\ Found(e) \in Servers
           /\ Found(e).s3 = 0 /\ Found(e).session = srv.session
           /\ Found(e).reset = srv.reset /\ Found(e).level = srv.level
           /\ Found(e).pending = srv.pending /\ Found(e).active = srv.active
           /\ Found(e).lock = Aged(srv, e).lock
           /\ Found(e).attempts = Aged(srv, e).attempts
<1> DEFINE a == Aged(srv, e)
<1>1. /\ a \in Servers
      /\ a.session = srv.session /\ a.reset = srv.reset
      /\ a.level = srv.level /\ a.pending = srv.pending
      /\ a.active = srv.active
  BY AgedFields
<1>2. 0 \in 0..S3Timeout - 1
  BY Limits
<1>3. Found(e) = [a EXCEPT !.s3 = 0]
  BY DEF Found
<1> HIDE DEF a
<1>4. [a EXCEPT !.s3 = 0] \in Servers
  BY <1>1, <1>2, Zenon DEF Servers
<1>5. LET t == [a EXCEPT !.s3 = 0]
      IN  /\ t.s3 = 0 /\ t.session = a.session /\ t.reset = a.reset
          /\ t.level = a.level /\ t.pending = a.pending /\ t.active = a.active
          /\ t.lock = a.lock /\ t.attempts = a.attempts
  BY <1>1, SMT DEF Servers
<1> QED BY <1>1, <1>3, <1>4, <1>5, Zenon DEF a

(* A request answered, with what is committed on a positive answer.        *)
LEMMA RequestAgrees ==
    ASSUME Agree(srv, seen), ~srv.reset, NEW e \in Nat, NEW r,
           NEW res, res = Handle(Found(e), r)
    PROVE  /\ Agree(Committed(Found(e), r, res), Observed(r, res, e))
           /\ res.nrc # "none" => /\ Committed(Found(e), r, res) = res.s
                                  /\ ~res.s.reset
<1> DEFINE s == Found(e)
           c == Committed(s, r, res)
           w == Observed(r, res, e)
           since == Capped(seen.quiet + e, LockTime)
<1> SUFFICES Agree(c, w) /\ (res.nrc # "none" => c = res.s /\ ~res.s.reset)
  OBVIOUS
<1>1. /\ srv \in Servers /\ seen \in Sightings /\ Guarded(srv)
      /\ seen.credit >= srv.pending
  BY DEF Agree
<1>2. /\ s \in Servers /\ s.s3 = 0 /\ s.session = srv.session
      /\ s.level = srv.level /\ s.pending = srv.pending
      /\ Guarded(s) /\ ~s.reset
  BY <1>1, FoundFields DEF Guarded
<1>3. Locks(s, seen.streak, since)
  BY <1>1, AgedLocks, FoundFields DEF Locks
<1>4. /\ Kept(s, res.s) /\ res.session \in Sessions
      /\ res.nrc # "none" => ~res.s.reset
      /\ IF r.sid = "security" THEN Keys(s, r, res) ELSE SameKeys(s, res.s)
  BY <1>2, HandleKeeps
<1>5. /\ w \in Sightings /\ w.silent = 0
      /\ w.credit = Credit(r, res, seen.credit)
      /\ w.streak = Streak(r, res, seen.streak, since)
      /\ w.quiet = Quiet(r, res, since)
  BY <1>1, ObservedFields
<1>6. seen.credit \in Int /\ seen.streak \in Nat /\ since \in 0..LockTime
  BY <1>1, Limits DEF Sightings, Capped
<1>7. Relocks(s, r, res) <=> Relocks(srv, r, res)
  BY <1>2 DEF Relocks
<1> HIDE DEF s, w, since
<1>8. /\ Locks(res.s, w.streak, w.quiet)
      /\ Relocks(s, r, res) \/ w.credit >= res.s.pending
  BY <1>1, <1>2, <1>3, <1>4, <1>5, <1>6, <1>7, KeysAgree DEF Kept
<1>9. res.s \in Servers /\ res.s.s3 = 0 /\ Guarded(res.s)
  BY <1>2, <1>4 DEF Kept
<1>10. CASE Relocks(s, r, res)
  <2> DEFINE d == [res.s EXCEPT !.session = res.session]
  <2>1. /\ d \in Servers
        /\ d.s3 = res.s.s3 /\ d.lock = res.s.lock /\ d.attempts = res.s.attempts
    <3>1. d \in Servers
      BY <1>4, <1>9, Zenon DEF Servers
    <3> QED BY <1>9, <3>1, SMT DEF Servers
  <2>2. c = Relock(d)
    BY <1>10 DEF Committed
  <2> HIDE DEF c, d
  <2>3. /\ c \in Servers /\ c.s3 = 0 /\ c.pending = 0 /\ ~c.active
        /\ c.lock = res.s.lock /\ c.attempts = res.s.attempts
    BY <1>9, <2>1, <2>2, RelockFields
  <2>4. w.credit = 0
    BY <1>5, <1>7, <1>10 DEF Credit
  <2>5. Locks(c, w.streak, w.quiet)
    BY <1>8, <2>3 DEF Locks
  <2>6. res.nrc = "none"
    BY <1>10 DEF Relocks
  <2> QED BY <1>5, <2>3, <2>4, <2>5, <2>6, Limits DEF Agree, Guarded
<1>11. CASE ~Relocks(s, r, res)
  <2>1. c = res.s
    BY <1>11 DEF Committed
  <2> HIDE DEF c
  <2> QED BY <1>4, <1>5, <1>8, <1>9, <1>11, <2>1, Limits DEF Agree
<1> QED BY <1>10, <1>11

LEMMA WithdrawnAgrees ==
    ASSUME NEW v, NEW w, Agree(v, w)
    PROVE  LET u == [v EXCEPT !.reset = FALSE]
           IN  Agree(u, w) /\ ~u.reset
<1> DEFINE u == [v EXCEPT !.reset = FALSE]
<1>1. v \in Servers
  BY DEF Agree
<1>2. u \in Servers
  BY <1>1, Zenon DEF Servers
<1>3. /\ u.s3 = v.s3 /\ u.session = v.session /\ u.level = v.level
      /\ u.pending = v.pending /\ u.active = v.active
      /\ u.lock = v.lock /\ u.attempts = v.attempts
  BY <1>1, SMT DEF Servers
<1>4. ~u.reset
  BY <1>1, Zenon DEF Servers
<1> HIDE DEF u
<1>5. Agree(u, w)
  BY <1>2, <1>3 DEF Agree, Guarded, Lapsed, Locks
<1> QED BY <1>4, <1>5 DEF u

LEMMA FinishAgrees ==
    ASSUME NEW v, NEW w, Agree(v, w), Agree(srv, seen), Finish(v, w)
    PROVE  (Agree(srv, seen) /\ ~srv.reset)'
<1>1. CASE v.reset
  <2>1. seen.restarts + 1 \in Nat
    BY DEF Agree, Sightings
  <2>2. srv' = Boot /\ seen' = [Unseen EXCEPT !.restarts = seen.restarts + 1]
    BY <1>1 DEF Finish
  <2> QED BY <2>1, <2>2, BootAgrees
<1>2. CASE ~v.reset
  <2>1. srv' = v /\ seen' = w
    BY <1>2 DEF Finish
  <2> QED BY <1>2, <2>1
<1> QED BY <1>1, <1>2

-----------------------------------------------------------------------------
LEMMA InitAgrees == Init => IInv
<1> SUFFICES ASSUME Init PROVE IInv
  OBVIOUS
<1>1. Unseen = [Unseen EXCEPT !.restarts = 0]
  BY DEF Unseen
<1>2. Agree(srv, seen) /\ ~srv.reset
  <2>1. Agree(Boot, [Unseen EXCEPT !.restarts = 0]) /\ ~Boot.reset
    BY BootAgrees
  <2> QED BY <1>1, <2>1 DEF Init
<1>3. busy \in BOOLEAN /\ lost \in 0..MaxLost
  <2>1. busy \in BOOLEAN /\ lost = 0
    BY Zenon DEF Init
  <2>2. 0 \in 0..MaxLost
    BY Limits
  <2> QED BY <2>1, <2>2, Zenon
<1> QED BY <1>2, <1>3, InvAgrees

\* Steps that leave the server alone keep the invariant.
LEMMA ElsewhereAgrees ==
    ASSUME IInv, UNCHANGED <<srv, seen>>, busy' \in BOOLEAN, lost' \in 0..MaxLost
    PROVE  IInv'
BY DEF IInv, TypeOK, TransferGuarded, LapsesInSilence, ClockAgrees, SeedsAgree,
       LockoutAgrees

LEMMA BusFailsKeeps ==
    ASSUME lost \in 0..MaxLost, BusFails
    PROVE  lost' \in 0..MaxLost
BY Limits DEF BusFails

LEMMA PollRequestAgrees ==
    ASSUME IInv, PollRequest
    PROVE  IInv'
<1>1. /\ Agree(srv, seen) /\ ~srv.reset
      /\ busy \in BOOLEAN /\ lost \in 0..MaxLost
  BY InvAgrees
<1> PICK e \in 0..MaxElapsed :
       LET r   == Head(inbox)
           s   == [Aged(srv, e) EXCEPT !.s3 = 0]
           res == Handle(s, r)
       IN  IF res.nrc = "none"
           THEN Accept(r, Committed(s, r, res), Observed(r, res, e))
           ELSE Reject(r, res, e)
  BY DEF PollRequest
<1> DEFINE r   == Head(inbox)
           res == Handle(Found(e), r)
           c   == Committed(Found(e), r, res)
           w   == Observed(r, res, e)
<1>2. IF res.nrc = "none" THEN Accept(r, c, w) ELSE Reject(r, res, e)
  BY DEF Found
<1>3. e \in Nat
  BY Limits
<1>4. Agree(c, w) /\ (res.nrc # "none" => c = res.s /\ ~res.s.reset)
  BY <1>1, <1>3, RequestAgrees
<1>5. w = Observed(r, res, e)
  OBVIOUS
<1> HIDE DEF r, res, c, w
<1>6. CASE res.nrc # "none"
  <2>1. srv' = res.s /\ seen' = w /\ busy' = busy /\ SendNrc(r, res.nrc)
    BY <1>2, <1>5, <1>6 DEF Reject
  <2>2. lost' \in 0..MaxLost
    BY <1>1, <2>1, BusFailsKeeps DEF SendNrc
  <2>3. (Agree(srv, seen) /\ ~srv.reset)'
    BY <1>4, <1>6, <2>1
  <2> QED BY <1>1, <2>1, <2>2, <2>3, AgreesInv
<1>7. CASE res.nrc = "none"
  <2>1. CASE Suppressed(r, c, w)
    <3>1. Finish(c, w) /\ busy' = (busy /\ ~c.reset) /\ lost' = lost
      BY <2>1 DEF Suppressed
    <3>2. busy' \in BOOLEAN
      BY <3>1
    <3>3. (Agree(srv, seen) /\ ~srv.reset)'
      BY <1>1, <1>4, <3>1, FinishAgrees
    <3> QED BY <1>1, <3>1, <3>2, <3>3, AgreesInv
  <2>2. CASE Taken(r, c, w)
    <3>1. Finish(c, w) /\ busy' = Long(r) /\ lost' = lost
      BY <2>2 DEF Taken
    <3>2. busy' \in BOOLEAN
      BY <3>1 DEF Long
    <3>3. (Agree(srv, seen) /\ ~srv.reset)'
      BY <1>1, <1>4, <3>1, FinishAgrees
    <3> QED BY <1>1, <3>1, <3>2, <3>3, AgreesInv
  <2>3. CASE Refused(r, c, w)
    <3> DEFINE u == [c EXCEPT !.reset = FALSE]
    <3>1. Finish(u, w) /\ busy' = busy /\ (lost' = lost \/ BusFails)
      BY <2>3 DEF Refused
    <3>2. Agree(u, w)
      BY <1>4, WithdrawnAgrees
    <3> HIDE DEF u
    <3>3. (Agree(srv, seen) /\ ~srv.reset)'
      BY <1>1, <3>1, <3>2, FinishAgrees
    <3>4. lost' \in 0..MaxLost
      BY <1>1, <3>1, BusFailsKeeps
    <3> QED BY <1>1, <3>1, <3>3, <3>4, AgreesInv
  <2> QED BY <1>2, <1>7, <2>1, <2>2, <2>3 DEF Accept
<1> QED BY <1>6, <1>7

LEMMA PollIdleAgrees ==
    ASSUME IInv, PollIdle
    PROVE  IInv'
<1>1. /\ Agree(srv, seen) /\ ~srv.reset
      /\ busy \in BOOLEAN /\ lost \in 0..MaxLost
  BY InvAgrees
<1> PICK e \in 0..MaxElapsed : /\ srv' = Lapse(Aged(srv, e), e)
                               /\ seen' = Idle(e)
                               /\ busy' = busy /\ lost' = lost
  BY Zenon DEF PollIdle, Idle
<1>2. e \in Nat /\ seen \in Sightings
  BY <1>1, Limits DEF Agree
<1>3. (Agree(srv, seen) /\ ~srv.reset)'
  <2>1. Idled(Idle(e), e)
    BY <1>2, IdleFields
  <2> DEFINE v == Lapse(Aged(srv, e), e)
             w == Idle(e)
  <2>2. Agree(v, w) /\ ~v.reset
    BY <1>1, <1>2, <2>1, LapseAgrees
  <2>3. srv' = v /\ seen' = w
    OBVIOUS
  <2> HIDE DEF v, w
  <2> QED BY <2>2, <2>3
<1> QED BY <1>1, <1>3, AgreesInv

(* One step of the server, the tester or the bus.                          *)
LEMMA StepAgrees == IInv /\ [Next]_vars => IInv'
<1> SUFFICES ASSUME IInv, [Next]_vars PROVE IInv'
  OBVIOUS
<1>1. busy \in BOOLEAN /\ lost \in 0..MaxLost
  BY DEF IInv, TypeOK
<1>2. CASE PollIdle
  BY <1>2, PollIdleAgrees
<1>3. CASE PollRequest
  BY <1>3, PollRequestAgrees
<1>4. CASE Ask
  BY <1>1, <1>4, ElsewhereAgrees DEF Ask
<1>5. CASE Receive
  BY <1>1, <1>5, ElsewhereAgrees DEF Receive
<1>6. CASE Lose
  <2>1. lost' \in 0..MaxLost
    BY <1>1, <1>6, BusFailsKeeps DEF Lose
  <2> QED BY <1>1, <1>6, <2>1, ElsewhereAgrees DEF Lose
<1>7. CASE Drained
  BY <1>1, <1>7, ElsewhereAgrees DEF Drained
<1>8. CASE UNCHANGED vars
  BY <1>1, <1>8, ElsewhereAgrees DEF vars
<1> QED BY <1>2, <1>3, <1>4, <1>5, <1>6, <1>7, <1>8 DEF Next

(* What the server keeps of time, challenges and wrong keys is what has    *)
(* happened on the bus (uds_server_poll, uds_h_security, uds_relock).      *)
THEOREM ServerAgrees == Spec => []IInv
BY InitAgrees, StepAgrees, PTL DEF Spec

(* uds_relock and the handlers of the download services never leave a      *)
(* transfer open on a locked server.                                       *)
THEOREM TransferIsGuarded == Spec => []TransferGuarded
<1>1. IInv => TransferGuarded
  BY DEF IInv
<1> QED BY <1>1, ServerAgrees, PTL

(* However polls and requests are spaced, a server that heard nothing for  *)
(* s3_timeout_ms has locked itself (the timeout in uds_server_poll).       *)
THEOREM SilenceLocks == Spec => []LapsesInSilence
<1>1. IInv => LapsesInSilence
  BY DEF IInv
<1> QED BY <1>1, ServerAgrees, PTL

(* uds_h_security never judges more keys than it has issued seeds, and     *)
(* uds_relock takes back the one that is not spent.                        *)
THEOREM SeedsAreSpentOnce == Spec => []OneKeyPerSeed
<1>1. IInv => OneKeyPerSeed
  BY DEF IInv, TypeOK, Servers, Sightings, SeedsAgree, OneKeyPerSeed
<1> QED BY <1>1, ServerAgrees, PTL

(* After UDS_SEC_MAX_ATTEMPTS wrong keys the lockout of uds_h_security     *)
(* stands until UDS_SEC_LOCK_MS have passed.                               *)
THEOREM WrongKeysLimited == Spec => []GuessesLimited
<1>1. IInv => GuessesLimited
  BY Limits DEF IInv, TypeOK, Servers, Sightings, LockoutAgrees, GuessesLimited
<1> QED BY <1>1, ServerAgrees, PTL

-----------------------------------------------------------------------------
(* Counting modulo M.                                                      *)
LEMMA Split ==
    ASSUME NEW M \in Nat, M > 1, NEW k \in Nat
    PROVE  /\ k = (M * (k \div M)) + (k % M)
           /\ k % M \in 0..M - 1 /\ k \div M \in Nat
OBVIOUS

LEMMA Remainder ==
    ASSUME NEW M \in Nat, M > 1, NEW q \in Int, NEW r \in 0..M - 1
    PROVE  ((M * q) + r) % M = r
OBVIOUS

(* Neighbours differ, and the counter may be stepped instead of the number. *)
LEMMA Stepping ==
    ASSUME NEW M \in Nat, M > 1, NEW k \in Nat
    PROVE  /\ (k + 1) % M # k % M
           /\ ((k % M) + 1) % M = (k + 1) % M
           /\ (((k + 1) % M) - 1) % M = k % M
<1>1. PICK q \in Nat, r \in 0..M - 1 : k = (M * q) + r /\ r = k % M
  <2>1. /\ k = (M * (k \div M)) + (k % M)
        /\ k % M \in 0..M - 1 /\ k \div M \in Nat
    BY Split
  <2> QED BY <2>1, Zenon
<1>2. CASE r + 1 < M
  <2>1. r + 1 \in 0..M - 1 /\ q \in Int
    BY <1>2
  <2>2. k + 1 = (M * q) + (r + 1)
    BY <1>1
  <2>3. ((M * q) + (r + 1)) % M = r + 1
    BY <2>1, Remainder
  <2>4. (k + 1) % M = r + 1
    BY <2>2, <2>3
  <2>5. (r + 1) % M = r + 1 /\ ((r + 1) - 1) % M = r
    BY <1>2
  <2> QED BY <1>1, <2>4, <2>5
<1>3. CASE r + 1 = M
  <2>1. k + 1 = (M * (q + 1)) + 0
    BY <1>1, <1>3
  <2>2. (k + 1) % M = 0
    BY <1>1, <1>3, <2>1, Remainder
  <2>3. (r + 1) % M = 0
    BY <1>3
  <2>4. (0 - 1) % M = M - 1
    OBVIOUS
  <2> QED BY <1>1, <1>3, <2>2, <2>3, <2>4
<1> QED BY <1>1, <1>2, <1>3

-----------------------------------------------------------------------------
(* The inductive invariant: one request or one answer is under way, ...    *)
Asked(r) == /\ r.sid = "transfer" => block # 0 /\ r.n = block
            /\ r.sid = "download" => block = 0
            /\ r.arg = "restart" => r.sid = "reset"

\* ... and what an answer tells the tester still holds when it arrives.
Told(a) == /\ a.sid = "download" /\ a.nrc \in {"none", "CNC"} => block = 0
           /\ a.sid = "transfer" => block # 0
           /\ srv.active =>
                /\ a.sid = "transfer" /\ a.nrc = "none" => Len(sink) = block
                /\ ~(a.sid \in {"transfer", "exit"} /\ a.nrc = "RSE")
                /\ ~(a.sid = "exit" /\ a.nrc = "none")

InTurn == /\ inbox # <<>> => out = <<>> /\ Asked(Head(inbox))
          /\ out # <<>> => out = <<out[1]>> /\ Told(out[1])

\* The server counts the blocks it has taken.
Counts(s) == s.received = Len(sink) /\ s.bsc = (Len(sink) + 1) % BscMod

InOrder == /\ \A i \in 1..Len(sink) : sink[i] = i
           /\ IF block = 0 THEN sink = <<>>
              ELSE Len(sink) \in {block - 1, block}

BlocksInv == /\ sink \in Seq(Nat) /\ block \in Nat
             /\ InTurn
             /\ srv.active => Counts(srv) /\ InOrder

LEMMA BlocksFollow == IInv /\ BlocksInv => BlocksOnce
<1> SUFFICES ASSUME IInv, BlocksInv, srv.active PROVE BlocksOnce
  BY DEF BlocksOnce
<1>1. srv.received \in 0..Size
  BY DEF IInv, TypeOK, Servers
<1>2. sink \in Seq(Nat) /\ Counts(srv) /\ InOrder
  BY DEF BlocksInv
<1>3. Len(sink) <= Size
  BY <1>1, <1>2, Limits DEF Counts
<1>4. DOMAIN sink = 1..Len(sink)
  BY <1>2
<1> QED BY <1>2, <1>3, <1>4 DEF InOrder, BlocksOnce

-----------------------------------------------------------------------------
(* What a handler does to the transfer.                                    *)
SameBlocks(s, t) == s.active /\ t.received = s.received /\ t.bsc = s.bsc

Opens(r, res) == r.sid = "download" /\ res.nrc = "none"

Takes(s, r, res) == r.sid = "transfer" /\ res.s.received > s.received

Moves(s, r, res) ==
    IF Opens(r, res)
    THEN res.s.received = 0 /\ res.s.bsc = 1 % BscMod
    ELSE IF Takes(s, r, res)
    THEN /\ s.active /\ r.n % BscMod = s.bsc /\ res.nrc = "none"
         /\ res.s.received = s.received + 1
         /\ res.s.bsc = (s.bsc + 1) % BscMod
    ELSE res.s.active =>
           /\ SameBlocks(s, res.s)
           /\ r.sid = "transfer" /\ res.nrc = "none"
                => r.n % BscMod = (s.bsc - 1) % BscMod
           /\ ~(r.sid \in {"transfer", "exit"} /\ res.nrc = "RSE")
           /\ ~(r.sid = "exit" /\ res.nrc = "none")

LEMMA TransferMoves ==
    ASSUME NEW s \in Servers, NEW r, r.sid = "transfer"
    PROVE  Moves(s, r, OnTransfer(s, r))
<1> DEFINE t == [s EXCEPT !.received = @ + 1, !.bsc = (@ + 1) % BscMod]
           res == OnTransfer(s, r)
<1> SUFFICES Moves(s, r, res)
  OBVIOUS
<1>1. s.received \in Nat /\ s.size \in Nat
  BY Limits DEF Servers
<1>2. CASE /\ s.active /\ s.level = 1 /\ r.n % BscMod = s.bsc
           /\ ~(s.received + 1 > s.size)
  <2>1. res = [s |-> t, session |-> t.session, nrc |-> "none"]
    BY <1>2 DEF OnTransfer, Positive
  <2>2. t.received = s.received + 1 /\ t.bsc = (s.bsc + 1) % BscMod
    BY DEF Servers
  <2> HIDE DEF t, res
  <2>3. res.s = t /\ res.nrc = "none"
    BY <2>1
  <2> QED BY <1>1, <1>2, <2>2, <2>3 DEF Moves, Opens, Takes
<1>3. CASE ~(/\ s.active /\ s.level = 1 /\ r.n % BscMod = s.bsc
             /\ ~(s.received + 1 > s.size))
  <2>1. /\ res.s = s
        /\ res.nrc = "RSE" => ~s.active
        /\ res.nrc = "none" => r.n % BscMod = (s.bsc - 1) % BscMod
    BY <1>3 DEF OnTransfer, Positive, Negative
  <2> HIDE DEF res
  <2> QED BY <1>1, <2>1 DEF Moves, Opens, Takes, SameBlocks
<1> QED BY <1>2, <1>3

LEMMA DownloadMoves ==
    ASSUME NEW s \in Servers, NEW r, r.sid = "download"
    PROVE  Moves(s, r, OnDownload(s, r))
<1> DEFINE t == [s EXCEPT !.active = TRUE, !.size = Size, !.received = 0,
                          !.bsc = 1 % BscMod]
           res == OnDownload(s, r)
<1> SUFFICES Moves(s, r, res)
  OBVIOUS
<1>1. CASE s.level = 1 /\ ~s.active /\ r.arg # "bad"
  <2>1. res = [s |-> t, session |-> t.session, nrc |-> "none"]
    BY <1>1 DEF OnDownload, Positive
  <2>2. t.received = 0 /\ t.bsc = 1 % BscMod
    BY DEF Servers
  <2> HIDE DEF t, res
  <2>3. res.s = t /\ res.nrc = "none"
    BY <2>1
  <2> QED BY <2>2, <2>3 DEF Moves, Opens
<1>2. CASE ~(s.level = 1 /\ ~s.active /\ r.arg # "bad")
  <2>1. res.s = s /\ res.nrc # "none"
    BY <1>2 DEF OnDownload, Negative
  <2> HIDE DEF res
  <2> QED BY <2>1 DEF Moves, Opens, Takes, SameBlocks
<1> QED BY <1>1, <1>2

LEMMA ExitMoves ==
    ASSUME NEW s \in Servers, NEW r, r.sid = "exit"
    PROVE  Moves(s, r, OnExit(s, r))
<1> DEFINE t == [s EXCEPT !.active = FALSE, !.size = 0, !.received = 0,
                          !.bsc = 0]
           res == OnExit(s, r)
<1> SUFFICES Moves(s, r, res)
  OBVIOUS
<1>1. CASE s.active /\ s.level = 1
  <2>1. res = [s |-> t, session |-> t.session, nrc |-> "none"]
    BY <1>1 DEF OnExit, Positive
  <2>2. ~t.active
    BY DEF Servers
  <2> HIDE DEF t, res
  <2>3. ~res.s.active
    BY <2>1, <2>2
  <2> QED BY <2>3 DEF Moves, Opens, Takes
<1>2. CASE ~(s.active /\ s.level = 1)
  <2>1. res.s = s /\ res.nrc # "none" /\ (res.nrc = "RSE" => ~s.active)
    BY <1>2 DEF OnExit, Negative
  <2> HIDE DEF res
  <2> QED BY <2>1 DEF Moves, Opens, Takes, SameBlocks
<1> QED BY <1>1, <1>2

\* The other handlers leave the transfer alone.
Aside(s, res) == /\ res.s.active = s.active
                 /\ res.s.received = s.received /\ res.s.bsc = s.bsc

LEMMA SecurityAside ==
    ASSUME NEW s \in Servers, NEW r
    PROVE  Aside(s, OnSecurity(s, r))
BY DEF Aside, OnSecurity, OnKey, Positive, Negative, Servers

LEMMA OthersAside ==
    ASSUME NEW s \in Servers, NEW r
    PROVE  /\ Aside(s, OnSession(s, r)) /\ Aside(s, OnReset(s, r))
           /\ Aside(s, OnOther(s, r)) /\ Aside(s, Negative(s, "SNS"))
BY DEF Aside, OnSession, OnReset, OnOther, Positive, Negative, Servers

LEMMA HandleMoves ==
    ASSUME NEW s \in Servers, NEW r
    PROVE  Moves(s, r, Handle(s, r))
<1> DEFINE res == Handle(s, r)
<1> SUFFICES Moves(s, r, res)
  OBVIOUS
<1>1. CASE r.sid = "transfer"
  <2>1. res = OnTransfer(s, r)
    BY <1>1 DEF Handle
  <2> QED BY <1>1, <2>1, TransferMoves
<1>2. CASE r.sid = "download"
  <2>1. res = OnDownload(s, r)
    BY <1>2 DEF Handle
  <2> QED BY <1>2, <2>1, DownloadMoves
<1>3. CASE r.sid = "exit"
  <2>1. res = OnExit(s, r)
    BY <1>3 DEF Handle
  <2> QED BY <1>3, <2>1, ExitMoves
<1>4. CASE r.sid \notin {"transfer", "download", "exit"}
  <2>1. \/ res = OnSession(s, r) \/ res = OnReset(s, r) \/ res = OnSecurity(s, r)
        \/ res = Negative(s, "SNS") \/ res = OnOther(s, r)
    BY <1>4 DEF Handle
  <2> HIDE DEF res
  <2>2. Aside(s, res)
    BY <2>1, SecurityAside, OthersAside
  <2>3. s.received \in Nat
    BY Limits DEF Servers
  <2> QED BY <1>4, <2>2, <2>3 DEF Moves, Opens, Takes, SameBlocks, Aside
<1> QED BY <1>1, <1>2, <1>3, <1>4

-----------------------------------------------------------------------------
(* Polls.                                                                  *)
LEMMA FoundBlocks ==
    ASSUME srv \in Servers, NEW e \in Nat
    PROVE  /\ Found(e).active = srv.active /\ Found(e).level = srv.level
           /\ Found(e).size = srv.size
           /\ Found(e).received = srv.received /\ Found(e).bsc = srv.bsc
BY DEF Found, Aged, Servers

\* What the observer of the blocks reads does not age.
LEMMA FoundTakes ==
    ASSUME srv \in Servers, NEW e \in Nat, NEW r
    PROVE  /\ Opens(r, Handle(srv, r)) <=> Opens(r, Handle(Found(e), r))
           /\ Takes(srv, r, Handle(srv, r))
                <=> Takes(Found(e), r, Handle(Found(e), r))
<1> DEFINE f == Found(e)
<1>1. /\ f.active = srv.active /\ f.level = srv.level /\ f.size = srv.size
      /\ f.received = srv.received /\ f.bsc = srv.bsc
  BY FoundBlocks
<1>2. f \in Servers
  BY FoundFields
<1> HIDE DEF f
<1>3. Opens(r, Handle(srv, r)) <=> Opens(r, Handle(f, r))
  <2>1. CASE r.sid = "download"
    BY <1>1, <2>1 DEF Opens, Handle, OnDownload, Positive, Negative
  <2> QED BY <2>1 DEF Opens
<1>4. Takes(srv, r, Handle(srv, r)) <=> Takes(f, r, Handle(f, r))
  <2> DEFINE Fits(s) == /\ s.active /\ s.level = 1 /\ r.n % BscMod = s.bsc
                        /\ ~(s.received + 1 > s.size)
  <2>1. CASE r.sid = "transfer"
    <3>1. ASSUME NEW s \in Servers
          PROVE  Takes(s, r, Handle(s, r)) <=> Fits(s)
      <4>1. Handle(s, r) = OnTransfer(s, r)
        BY <2>1 DEF Handle
      <4>2. s.received \in Nat
        BY Limits DEF Servers
      <4>3. CASE Fits(s)
        <5>1. OnTransfer(s, r).s.received = s.received + 1
          BY <4>3 DEF OnTransfer, Positive, Servers
        <5> QED BY <2>1, <4>1, <4>2, <4>3, <5>1 DEF Takes
      <4>4. CASE ~Fits(s)
        <5>1. OnTransfer(s, r).s = s
          BY <4>4 DEF OnTransfer, Positive, Negative
        <5> QED BY <4>1, <4>2, <4>4, <5>1 DEF Takes
      <4> QED BY <4>3, <4>4
    <3>2. Fits(srv) <=> Fits(f)
      BY <1>1
    <3> QED BY <1>2, <3>1, <3>2
  <2> QED BY <2>1 DEF Takes
<1> QED BY <1>3, <1>4 DEF f

LEMMA LapseBlocks ==
    ASSUME srv \in Servers, NEW e \in Nat
    PROVE  LET v == Lapse(Aged(srv, e), e)
           IN  v.active => SameBlocks(srv, v)
<1> DEFINE a == Aged(srv, e)
           v == Lapse(a, e)
<1> SUFFICES ASSUME v.active PROVE SameBlocks(srv, v)
  OBVIOUS
<1>1. /\ a \in Servers /\ a.active = srv.active
      /\ a.received = srv.received /\ a.bsc = srv.bsc
  BY AgedFields DEF Aged, Servers
<1> HIDE DEF a
<1>2. CASE a.s3 + e >= S3Timeout
  BY <1>1, <1>2 DEF Lapse, Relock, Servers
<1>3. CASE ~(a.s3 + e >= S3Timeout)
  BY <1>1, <1>3 DEF Lapse, Servers, SameBlocks
<1> QED BY <1>2, <1>3

\* What a request leaves behind: v is what the handler made of the server.
LeavesBlocks(v) == srv'.active => /\ v.active
                                  /\ srv'.received = v.received
                                  /\ srv'.bsc = v.bsc

Replies(r, nrc) == \/ out' = out
                   \/ out' = Append(out, Answer(r, nrc))
                   \/ out' = Append(out, Answer(r, "BRR"))

LEMMA FinishBlocks ==
    ASSUME NEW v, NEW w, Finish(v, w)
    PROVE  LeavesBlocks(v)
BY DEF Finish, Boot, LeavesBlocks

LEMMA RequestBlocks ==
    ASSUME srv \in Servers, PollRequest
    PROVE  \E e \in Nat :
              LET r   == Head(inbox)
                  res == Handle(Found(e), r)
              IN  LeavesBlocks(res.s) /\ Replies(r, res.nrc)
<1> PICK e \in 0..MaxElapsed :
       LET r   == Head(inbox)
           s   == [Aged(srv, e) EXCEPT !.s3 = 0]
           res == Handle(s, r)
       IN  IF res.nrc = "none"
           THEN Accept(r, Committed(s, r, res), Observed(r, res, e))
           ELSE Reject(r, res, e)
  BY DEF PollRequest
<1> DEFINE r   == Head(inbox)
           f   == Found(e)
           res == Handle(f, r)
           c   == Committed(f, r, res)
           w   == Observed(r, res, e)
<1>1. IF res.nrc = "none" THEN Accept(r, c, w) ELSE Reject(r, res, e)
  BY DEF Found
<1>2. e \in Nat
  BY Limits
<1>3. f \in Servers
  BY <1>2, FoundFields
<1> HIDE DEF f
<1> SUFFICES LeavesBlocks(res.s) /\ Replies(r, res.nrc)
  BY <1>2 DEF f
<1>4. res.s \in Servers /\ res.session \in Sessions
  <2>1. r.sid = "security" => res = OnSecurity(f, r)
    BY DEF Handle
  <2>2. r.sid # "security" =>
          \/ res = OnSession(f, r) \/ res = OnReset(f, r)
          \/ res = OnDownload(f, r) \/ res = OnTransfer(f, r)
          \/ res = OnExit(f, r) \/ res = Negative(f, "SNS") \/ res = OnOther(f, r)
    BY DEF Handle
  <2> HIDE DEF res
  <2> QED BY <1>3, <2>1, <2>2, SecurityKeys, SessionPlain, ResetPlain,
             DownloadPlain, TransferPlain, ExitPlain, RefusedPlain, OtherPlain
          DEF Plain, Kept
<1>5. /\ c \in Servers
      /\ c.active => /\ res.s.active
                     /\ c.received = res.s.received /\ c.bsc = res.s.bsc
  <2>1. CASE Relocks(f, r, res)
    <3> DEFINE d == [res.s EXCEPT !.session = res.session]
    <3>1. d \in Servers
      BY <1>4, Zenon DEF Servers
    <3>2. c = Relock(d)
      BY <2>1 DEF Committed
    <3> HIDE DEF c, d
    <3>3. c \in Servers /\ ~c.active
      BY <3>1, <3>2, RelockFields
    <3> QED BY <3>3
  <2>2. CASE ~Relocks(f, r, res)
    BY <1>4, <2>2 DEF Committed
  <2> QED BY <2>1, <2>2
<1> HIDE DEF r, res, c, w
<1>6. CASE res.nrc # "none"
  BY <1>1, <1>6 DEF Reject, SendNrc, LeavesBlocks, Replies
<1>7. CASE res.nrc = "none"
  <2>1. LeavesBlocks(c) => LeavesBlocks(res.s)
    BY <1>5 DEF LeavesBlocks
  <2>2. CASE Suppressed(r, c, w)
    BY <2>1, <2>2, FinishBlocks DEF Suppressed, Replies
  <2>3. CASE Taken(r, c, w)
    <3>1. Finish(c, w) /\ Replies(r, "none")
      BY <2>3 DEF Taken, Replies
    <3> QED BY <1>7, <2>1, <3>1, FinishBlocks
  <2>4. CASE Refused(r, c, w)
    <3> DEFINE u == [c EXCEPT !.reset = FALSE]
    <3>1. Finish(u, w) /\ Replies(r, "none")
      BY <2>4 DEF Refused, Replies
    <3>2. u.active = c.active /\ u.received = c.received /\ u.bsc = c.bsc
      BY <1>5, SMT DEF Servers
    <3> HIDE DEF u
    <3>3. LeavesBlocks(u)
      BY <3>1, FinishBlocks
    <3> QED BY <1>7, <2>1, <3>1, <3>2, <3>3 DEF LeavesBlocks
  <2> QED BY <1>1, <1>7, <2>2, <2>3, <2>4 DEF Accept
<1> QED BY <1>6, <1>7

-----------------------------------------------------------------------------
LEMMA Answered ==
    ASSUME NEW r, NEW nrc
    PROVE  /\ Answer(r, nrc).sid = r.sid /\ Answer(r, nrc).nrc = nrc
           /\ Append(<<>>, Answer(r, nrc)) = <<Answer(r, nrc)>>
BY DEF Answer

(* A request: opens the transfer, takes the next block, or neither.        *)
LEMMA PollRequestOrdered ==
    ASSUME IInv, BlocksInv, PollRequest, srv' \in Servers
    PROVE  BlocksInv'
<1> DEFINE r == Head(inbox)
<1>1. /\ srv \in Servers /\ sink \in Seq(Nat) /\ block \in Nat
      /\ srv.active => Counts(srv) /\ InOrder
      /\ Asked(r) /\ out = <<>>
  BY DEF IInv, TypeOK, BlocksInv, InTurn, PollRequest
<1>2. PICK e \in Nat : /\ LeavesBlocks(Handle(Found(e), r).s)
                       /\ Replies(r, Handle(Found(e), r).nrc)
  BY <1>1, RequestBlocks
<1> DEFINE f == Found(e)
           res == Handle(f, r)
<1>3. /\ inbox' = <<>> /\ block' = block
      /\ sink' = Sunk(r, Handle(srv, r))
  BY DEF PollRequest
<1>4. /\ f.active = srv.active
      /\ f.received = srv.received /\ f.bsc = srv.bsc
      /\ Opens(r, Handle(srv, r)) <=> Opens(r, res)
      /\ Takes(srv, r, Handle(srv, r)) <=> Takes(f, r, res)
  BY <1>1, FoundBlocks, FoundTakes
<1>5. Moves(f, r, res)
  BY <1>1, FoundFields, HandleMoves
<1>6. sink' = IF Opens(r, res) THEN <<>>
              ELSE IF Takes(f, r, res) THEN Append(sink, r.n) ELSE sink
  BY <1>3, <1>4 DEF Sunk, Opens, Takes
<1>7. LeavesBlocks(res.s) /\ Replies(r, res.nrc)
  BY <1>2
<1> HIDE DEF r, f, res
\* What has to be shown of the sequence and of the answer.
<1> DEFINE Follows ==
             /\ sink' \in Seq(Nat)
             /\ srv'.active => (Counts(srv) /\ InOrder)'
             /\ srv'.active =>
                  /\ r.sid = "transfer" /\ res.nrc = "none"
                       => Len(sink') = block
                  /\ ~(r.sid \in {"transfer", "exit"} /\ res.nrc = "RSE")
                  /\ ~(r.sid = "exit" /\ res.nrc = "none")
<1>8. ASSUME Opens(r, res)
      PROVE  Follows
  <2>1. sink' = <<>> /\ Len(sink') = 0 /\ sink' \in Seq(Nat)
    BY <1>6, <1>8
  <2>2. block' = 0
    BY <1>1, <1>3, <1>8 DEF Asked, Opens
  <2>3. srv'.active => Counts(srv)'
    BY <1>5, <1>7, <1>8, <2>1 DEF Moves, LeavesBlocks, Counts
  <2>4. InOrder'
    BY <2>1, <2>2 DEF InOrder
  <2>5. Follows
    BY <1>8, <2>1, <2>3, <2>4 DEF Opens
  <2> QED BY <2>5
<1>9. ASSUME ~Opens(r, res) /\ Takes(f, r, res)
      PROVE  Follows
  <2>1. /\ f.active /\ r.n % BscMod = f.bsc /\ res.nrc = "none"
        /\ res.s.received = f.received + 1
        /\ res.s.bsc = (f.bsc + 1) % BscMod
    BY <1>5, <1>9 DEF Moves
  <2>2. r.sid = "transfer" /\ block # 0 /\ r.n = block
    BY <1>1, <1>9 DEF Asked, Takes
  <2> DEFINE n == Len(sink)
  <2>3. n \in Nat
    BY <1>1
  <2>4. /\ f.received = n /\ f.bsc = (n + 1) % BscMod
        /\ n \in {block - 1, block}
        /\ \A i \in 1..n : sink[i] = i
    BY <1>1, <1>4, <2>1, <2>2 DEF Counts, InOrder
  <2>5. block = n + 1
    <3>1. (n + 1) % BscMod # n % BscMod
      BY <2>3, Stepping, Limits, UdsAssumption
    <3> QED BY <1>1, <2>1, <2>2, <2>3, <2>4, <3>1
  <2>6. sink' = Append(sink, n + 1)
    BY <1>6, <1>9, <2>2, <2>5
  <2>7. /\ sink' \in Seq(Nat) /\ Len(sink') = n + 1
        /\ \A i \in 1..n + 1 : sink'[i] = IF i = n + 1 THEN n + 1 ELSE sink[i]
    BY <1>1, <2>3, <2>6
  <2>8. InOrder'
    BY <1>3, <2>2, <2>3, <2>4, <2>5, <2>7 DEF InOrder
  <2>9. (((n + 1) % BscMod) + 1) % BscMod = ((n + 1) + 1) % BscMod
    <3>1. n + 1 \in Nat
      BY <2>3
    <3> QED BY <3>1, Stepping, Limits, UdsAssumption
  <2>10. srv'.active => Counts(srv)'
    BY <1>7, <2>1, <2>4, <2>7, <2>9 DEF LeavesBlocks, Counts
  <2>11. Follows
    BY <2>1, <2>2, <2>5, <2>7, <2>8, <2>10
  <2> QED BY <2>11
<1>10. ASSUME ~Opens(r, res) /\ ~Takes(f, r, res)
      PROVE  Follows
  <2>1. sink' = sink
    BY <1>6, <1>10
  <2>2. res.s.active =>
          /\ SameBlocks(f, res.s)
          /\ r.sid = "transfer" /\ res.nrc = "none"
               => r.n % BscMod = (f.bsc - 1) % BscMod
          /\ ~(r.sid \in {"transfer", "exit"} /\ res.nrc = "RSE")
          /\ ~(r.sid = "exit" /\ res.nrc = "none")
    BY <1>5, <1>10 DEF Moves
  <2>3. srv'.active => /\ res.s.active /\ srv.active
                       /\ srv'.received = srv.received /\ srv'.bsc = srv.bsc
    BY <1>4, <1>7, <2>2 DEF LeavesBlocks, SameBlocks
  <2>4. srv'.active => (Counts(srv) /\ InOrder)'
    BY <1>1, <1>3, <2>1, <2>3 DEF Counts, InOrder
  <2>5. ASSUME srv'.active, r.sid = "transfer", res.nrc = "none"
        PROVE  Len(sink) = block
    <3> DEFINE n == Len(sink)
    <3>1. n \in Nat
      BY <1>1
    <3>2. block # 0 /\ r.n = block
      BY <1>1, <2>5 DEF Asked
    <3>3. n \in {block - 1, block} /\ f.bsc = (n + 1) % BscMod
      BY <1>1, <1>4, <2>3, <2>5, <3>2 DEF Counts, InOrder
    <3>4. /\ (n + 1) % BscMod # n % BscMod
          /\ (((n + 1) % BscMod) - 1) % BscMod = n % BscMod
      BY <3>1, Stepping, Limits, UdsAssumption
    <3>5. block % BscMod = n % BscMod
      BY <2>2, <2>3, <2>5, <3>2, <3>3, <3>4
    <3> QED BY <1>1, <3>1, <3>3, <3>4, <3>5
  <2>6. Follows
    BY <1>1, <2>1, <2>2, <2>3, <2>4, <2>5
  <2> QED BY <2>6
<1>11. Follows
  BY <1>8, <1>9, <1>10
<1>12. ASSUME NEW nrc \in {res.nrc, "BRR"}, out' = <<Answer(r, nrc)>>
       PROVE  InTurn'
  <2>1. /\ out'[1].sid = r.sid /\ out'[1].nrc = nrc
        /\ out' = <<out'[1]>>
    BY <1>12, Answered
  <2>2. /\ r.sid = "download" => block' = 0
        /\ r.sid = "transfer" => block' # 0
    BY <1>1, <1>3 DEF Asked
  <2>3. srv'.active =>
          /\ r.sid = "transfer" /\ nrc = "none" => Len(sink') = block'
          /\ ~(r.sid \in {"transfer", "exit"} /\ nrc = "RSE")
          /\ ~(r.sid = "exit" /\ nrc = "none")
    BY <1>3, <1>11, <1>12
  <2>4. Told(out[1])'
    BY <2>1, <2>2, <2>3 DEF Told
  <2> QED BY <1>3, <2>1, <2>4 DEF InTurn
<1>13. InTurn'
  <2>1. \/ out' = <<>> \/ out' = <<Answer(r, res.nrc)>>
        \/ out' = <<Answer(r, "BRR")>>
    BY <1>1, <1>7, Answered DEF Replies
  <2>2. CASE out' = <<>>
    BY <1>3, <2>2 DEF InTurn
  <2> QED BY <1>12, <2>1, <2>2
<1>14. block' \in Nat
  BY <1>1, <1>3
<1>15. (srv.active => Counts(srv) /\ InOrder)'
  BY <1>11
<1> QED BY <1>11, <1>13, <1>14, <1>15 DEF BlocksInv

(* Silence: the transfer lapses or is left as it is.                       *)
LEMMA PollIdleOrdered ==
    ASSUME IInv, BlocksInv, PollIdle
    PROVE  BlocksInv'
<1>1. srv \in Servers
  BY DEF IInv, TypeOK
<1> PICK e \in 0..MaxElapsed : srv' = Lapse(Aged(srv, e), e)
  BY DEF PollIdle
<1>2. e \in Nat
  BY Limits
<1>3. srv'.active => SameBlocks(srv, srv')
  BY <1>1, <1>2, LapseBlocks
<1>4. UNCHANGED <<inbox, out, block, sink>>
  BY DEF PollIdle
<1>5. InTurn'
  BY <1>3, <1>4 DEF BlocksInv, InTurn, Asked, Told, SameBlocks
<1>6. (srv.active => Counts(srv) /\ InOrder)'
  BY <1>3, <1>4 DEF BlocksInv, Counts, InOrder, SameBlocks
<1> QED BY <1>4, <1>5, <1>6 DEF BlocksInv

LEMMA AskedFor ==
    ASSUME NEW sid, NEW args
    PROVE  /\ \A r \in Physical(sid, args) : r.sid = sid
           /\ \A r \in Plainly(sid, args) : r.sid = sid
           /\ \A r \in Anyhow(sid, args) : r.sid = sid
BY DEF Physical, Plainly, Anyhow, Request

LEMMA AskedHow ==
    ASSUME NEW sid, NEW args
    PROVE  /\ \A r \in Physical(sid, args) : r.arg \in args
           /\ \A r \in Plainly(sid, args) : r.arg \in args
           /\ \A r \in Anyhow(sid, args) : r.arg \in args
BY DEF Physical, Plainly, Anyhow, Request

\* Neither of the two services of Transfer; only ECUReset asks for a restart.
Elsewhere(r) == /\ r.sid \notin {"transfer", "download"}
                /\ r.arg = "restart" => r.sid = "reset"

LEMMA ServicesElsewhere ==
    ASSUME NEW r \in Services
    PROVE  Elsewhere(r)
<1>1. /\ \A q \in Anyhow("session", Sessions \cup {"bad"}) : q.sid = "session"
      /\ \A q \in Anyhow("reset", {"restart", "rapid", "bad"}) : q.sid = "reset"
      /\ \A q \in Anyhow("tester", {"", "bad"}) : q.sid = "tester"
      /\ \A q \in Anyhow("routine", {"", "bad"}) : q.sid = "routine"
      /\ \A q \in Plainly("readDid", {"", "bad"}) : q.sid = "readDid"
      /\ \A q \in Plainly("unknown", {""}) : q.sid = "unknown"
      /\ \A q \in Physical("security", {"seed", "rightKey", "wrongKey", "otherLevel"}) :
            q.sid = "security"
      /\ \A q \in Physical("exit", {""}) : q.sid = "exit"
  BY AskedFor, Zenon
<1>2. /\ \A q \in Anyhow("session", Sessions \cup {"bad"}) : q.arg \in Sessions \cup {"bad"}
      /\ \A q \in Anyhow("tester", {"", "bad"}) : q.arg \in {"", "bad"}
      /\ \A q \in Anyhow("routine", {"", "bad"}) : q.arg \in {"", "bad"}
      /\ \A q \in Plainly("readDid", {"", "bad"}) : q.arg \in {"", "bad"}
      /\ \A q \in Plainly("unknown", {""}) : q.arg \in {""}
      /\ \A q \in Physical("security", {"seed", "rightKey", "wrongKey", "otherLevel"}) :
            q.arg \in {"seed", "rightKey", "wrongKey", "otherLevel"}
      /\ \A q \in Physical("exit", {""}) : q.arg \in {""}
  BY AskedHow, Zenon
<1>3. \/ r.sid = "reset"
      \/ r.sid = "session" /\ r.arg \in Sessions \cup {"bad"}
      \/ r.sid = "tester" /\ r.arg \in {"", "bad"}
      \/ r.sid = "routine" /\ r.arg \in {"", "bad"}
      \/ r.sid = "readDid" /\ r.arg \in {"", "bad"}
      \/ r.sid = "unknown" /\ r.arg \in {""}
      \/ r.sid = "security" /\ r.arg \in {"seed", "rightKey", "wrongKey", "otherLevel"}
      \/ r.sid = "exit" /\ r.arg \in {""}
  BY <1>1, <1>2, Zenon DEF Services
<1> QED BY <1>3 DEF Elsewhere, Sessions

(* The tester asks for the block that its last answer has led it to.       *)
LEMMA AskOrdered ==
    ASSUME BlocksInv, Ask
    PROVE  BlocksInv'
<1> PICK r \in Services \cup Transfer : inbox' = <<r>>
  BY DEF Ask
<1>1. Asked(r)
  <2>1. CASE r \in Services
    BY <2>1, ServicesElsewhere DEF Elsewhere, Asked
  <2>2. CASE r \in Transfer
    <3>1. CASE block = 0
      <4>1. r \in Physical("download", {"", "bad"})
        BY <2>2, <3>1 DEF Transfer
      <4>2. r.sid = "download" /\ r.arg \in {"", "bad"}
        BY <4>1, AskedFor, AskedHow, Zenon
      <4> QED BY <3>1, <4>2 DEF Asked
    <3>2. CASE block # 0
      <4>1. r = Request("transfer", "", block, FALSE, FALSE)
        BY <2>2, <3>2 DEF Transfer
      <4>2. r.sid = "transfer" /\ r.n = block /\ r.arg = ""
        BY <4>1 DEF Request
      <4> QED BY <3>2, <4>2 DEF Asked
    <3> QED BY <3>1, <3>2
  <2> QED BY <2>1, <2>2
<1>2. out = <<>> /\ UNCHANGED <<srv, out, block, sink>>
  BY DEF Ask
<1>3. Head(inbox') = r
  OBVIOUS
<1>4. InTurn'
  BY <1>1, <1>2, <1>3 DEF InTurn, Asked
<1>5. (srv.active => Counts(srv) /\ InOrder)'
  BY <1>2 DEF BlocksInv, Counts, InOrder
<1> QED BY <1>2, <1>4, <1>5 DEF BlocksInv

(* The answer arrives and moves the tester on.                             *)
LEMMA ReceiveOrdered ==
    ASSUME BlocksInv, Receive
    PROVE  BlocksInv'
<1> DEFINE a == out[1]
<1>1. /\ out = <<a>> /\ Told(a) /\ inbox = <<>>
      /\ sink \in Seq(Nat) /\ block \in Nat
      /\ srv.active => Counts(srv) /\ InOrder
  BY DEF BlocksInv, InTurn, Receive
<1>2. Head(out) = a /\ Tail(out) = <<>>
  <2> HIDE DEF a
  <2> QED BY <1>1
<1>3. /\ out' = <<>> /\ block' = Learned(a)
      /\ UNCHANGED <<srv, inbox, sink>>
  BY <1>2 DEF Receive
<1> HIDE DEF a
<1>4. block' \in Nat
  BY <1>1, <1>3 DEF Learned
<1>5. InTurn'
  BY <1>1, <1>3 DEF InTurn
<1>6. ASSUME srv.active PROVE InOrder'
  <2>1. /\ \A i \in 1..Len(sink) : sink[i] = i
        /\ IF block = 0 THEN sink = <<>> ELSE Len(sink) \in {block - 1, block}
        /\ Len(sink) \in Nat
    BY <1>1, <1>6 DEF InOrder
  <2>2. CASE a.sid = "download" /\ a.nrc \in {"none", "CNC"}
    <3>1. block' = 1 /\ sink = <<>>
      BY <1>1, <1>3, <2>1, <2>2 DEF Learned, Told
    <3> QED BY <1>3, <2>1, <3>1 DEF InOrder
  <2>3. CASE a.sid = "transfer" /\ a.nrc = "none"
    <3>1. block' = block + 1 /\ Len(sink) = block
      BY <1>1, <1>3, <1>6, <2>3 DEF Learned, Told
    <3> QED BY <1>1, <1>3, <2>1, <3>1 DEF InOrder
  <2>4. CASE /\ ~(a.sid = "download" /\ a.nrc \in {"none", "CNC"})
             /\ ~(a.sid = "transfer" /\ a.nrc = "none")
    <3>1. block' = block
      BY <1>1, <1>3, <1>6, <2>4 DEF Learned, Told
    <3> QED BY <1>3, <2>1, <3>1 DEF InOrder
  <2> QED BY <2>2, <2>3, <2>4
<1>7. (srv.active => Counts(srv) /\ InOrder)'
  BY <1>1, <1>3, <1>6 DEF Counts
<1> QED BY <1>1, <1>3, <1>4, <1>5, <1>7 DEF BlocksInv

(* A request or an answer is lost.                                         *)
LEMMA LoseOrdered ==
    ASSUME BlocksInv, Lose
    PROVE  BlocksInv'
<1>1. UNCHANGED <<srv, block, sink>>
  BY DEF Lose
<1>2. \/ inbox' = <<>> /\ out' = out
      \/ inbox' = inbox /\ out # <<>> /\ out' = Tail(out)
  BY DEF Lose
<1>3. CASE inbox' = <<>> /\ out' = out
  <2>1. InTurn'
    BY <1>1, <1>3 DEF BlocksInv, InTurn, Told
  <2>2. (srv.active => Counts(srv) /\ InOrder)'
    BY <1>1 DEF BlocksInv, Counts, InOrder
  <2> QED BY <1>1, <2>1, <2>2 DEF BlocksInv
<1>4. CASE inbox' = inbox /\ out # <<>> /\ out' = Tail(out)
  <2>1. inbox = <<>> /\ out = <<out[1]>>
    BY <1>4 DEF BlocksInv, InTurn
  <2>2. out' = <<>>
    <3>1. Tail(<<out[1]>>) = <<>>
      OBVIOUS
    <3> QED BY <1>4, <2>1, <3>1, Zenon
  <2>3. InTurn'
    BY <1>4, <2>1, <2>2 DEF InTurn
  <2>4. (srv.active => Counts(srv) /\ InOrder)'
    BY <1>1 DEF BlocksInv, Counts, InOrder
  <2> QED BY <1>1, <2>3, <2>4 DEF BlocksInv
<1> QED BY <1>2, <1>3, <1>4

LEMMA ElsewhereOrdered ==
    ASSUME BlocksInv, UNCHANGED <<srv, inbox, out, block, sink>>
    PROVE  BlocksInv'
BY DEF BlocksInv, InTurn, Asked, Told, Counts, InOrder

LEMMA StepOrdered == IInv /\ IInv' /\ BlocksInv /\ [Next]_vars => BlocksInv'
<1> SUFFICES ASSUME IInv, IInv', BlocksInv, [Next]_vars PROVE BlocksInv'
  OBVIOUS
<1>1. CASE PollIdle
  BY <1>1, PollIdleOrdered
<1>2. CASE PollRequest
  <2>1. srv' \in Servers
    BY DEF IInv, TypeOK
  <2> QED BY <1>2, <2>1, PollRequestOrdered
<1>3. CASE Ask
  BY <1>3, AskOrdered
<1>4. CASE Receive
  BY <1>4, ReceiveOrdered
<1>5. CASE Lose
  BY <1>5, LoseOrdered
<1>6. CASE Drained
  BY <1>6, ElsewhereOrdered DEF Drained
<1>7. CASE UNCHANGED vars
  BY <1>7, ElsewhereOrdered DEF vars
<1> QED BY <1>1, <1>2, <1>3, <1>4, <1>5, <1>6, <1>7 DEF Next

LEMMA InitOrdered == Init => BlocksInv
BY DEF Init, Boot, BlocksInv, InTurn

(* uds_h_transfer_data takes each block once and in order, and the tester  *)
(* and the server never differ by more than the block that is not yet      *)
(* acknowledged, over any repetition, loss and wrap of the counter.        *)
THEOREM BlocksTakenOnce == Spec => []BlocksOnce
<1>1. IInv /\ BlocksInv => BlocksOnce
  BY BlocksFollow
<1> QED BY <1>1, InitOrdered, StepOrdered, ServerAgrees, PTL DEF Spec

-----------------------------------------------------------------------------
(* Restarts.                                                               *)
AsksRestart(r) == r.sid = "reset" /\ r.arg = "restart"

LEMMA HandleResets ==
    ASSUME NEW s \in Servers, ~s.reset, NEW r
    PROVE  Handle(s, r).s.reset <=> AsksRestart(r)
<1> DEFINE res == Handle(s, r)
<1>1. CASE r.sid = "reset"
  <2>1. res = OnReset(s, r)
    BY <1>1 DEF Handle
  <2>2. OnReset(s, r).s.reset <=> r.arg = "restart"
    BY DEF OnReset, Positive, Negative, Servers
  <2> QED BY <1>1, <2>1, <2>2 DEF AsksRestart
<1>2. CASE r.sid # "reset"
  <2>1. \/ res = OnSession(s, r) \/ res = OnSecurity(s, r)
        \/ res = OnDownload(s, r) \/ res = OnTransfer(s, r)
        \/ res = OnExit(s, r) \/ res = Negative(s, "SNS") \/ res = OnOther(s, r)
    BY <1>2 DEF Handle
  <2> SUFFICES res.s.reset = s.reset
    BY <1>2 DEF AsksRestart
  <2> HIDE DEF res
  <2> QED BY <2>1, SessionPlain, SecurityKeys, DownloadPlain, TransferPlain,
             ExitPlain, RefusedPlain, OtherPlain
<1> QED BY <1>1, <1>2

LEMMA CommittedResets ==
    ASSUME NEW s, NEW r, NEW res, res.s \in Servers, res.session \in Sessions
    PROVE  /\ Committed(s, r, res) \in Servers
           /\ Committed(s, r, res).reset = res.s.reset
<1> DEFINE d == [res.s EXCEPT !.session = res.session]
<1>1. d \in Servers /\ d.reset = res.s.reset
  <2>1. d \in Servers
    BY Zenon DEF Servers
  <2> QED BY <2>1, Zenon DEF Servers
<1>2. Committed(s, r, res) \in {Relock(d), res.s}
  BY DEF Committed
<1> HIDE DEF d
<1> QED BY <1>1, <1>2, RelockFields

LEMMA FinishRestarts ==
    ASSUME seen \in Sightings, NEW v, NEW w, w.restarts = seen.restarts,
           Finish(v, w)
    PROVE  Restarts <=> v.reset
<1>1. seen.restarts \in Nat
  BY DEF Sightings
<1>2. CASE v.reset
  <2>1. seen'.restarts = seen.restarts + 1
    BY <1>2 DEF Finish, Unseen
  <2> QED BY <1>1, <1>2, <2>1 DEF Restarts
<1>3. CASE ~v.reset
  BY <1>3 DEF Finish, Restarts
<1> QED BY <1>2, <1>3

\* The answer to r is the first, and only, thing on its way.
LEMMA FirstAnswer ==
    ASSUME NEW r, NEW nrc, out = <<>>, out' = Append(out, Answer(r, nrc))
    PROVE  Answers("restart") <=> r.arg = "restart" /\ nrc = "none"
<1>1. out' = <<Answer(r, nrc)>>
  BY Answered
<1>2. /\ out' # <<>> /\ out' # out
      /\ out'[1].arg = r.arg /\ out'[1].nrc = nrc
  BY <1>1 DEF Answer
<1> QED BY <1>2 DEF Answers

LEMMA PollRequestTold ==
    ASSUME IInv, BlocksInv, PollRequest
    PROVE  RestartTold
<1>1. /\ srv \in Servers /\ ~srv.reset /\ seen \in Sightings
      /\ Asked(Head(inbox)) /\ out = <<>>
  BY DEF IInv, TypeOK, BlocksInv, InTurn, PollRequest
<1> PICK e \in 0..MaxElapsed :
       LET r   == Head(inbox)
           s   == [Aged(srv, e) EXCEPT !.s3 = 0]
           res == Handle(s, r)
       IN  IF res.nrc = "none"
           THEN Accept(r, Committed(s, r, res), Observed(r, res, e))
           ELSE Reject(r, res, e)
  BY DEF PollRequest
<1> DEFINE r   == Head(inbox)
           f   == Found(e)
           res == Handle(f, r)
           c   == Committed(f, r, res)
           w   == Observed(r, res, e)
<1>2. IF res.nrc = "none" THEN Accept(r, c, w)
      ELSE SendNrc(r, res.nrc) /\ seen' = w
  BY DEF Found, Reject
<1>3. f \in Servers /\ ~f.reset
  BY <1>1, Limits, FoundFields
<1>4. w.restarts = seen.restarts
  BY <1>1 DEF Observed, Sightings
<1>5. res.s.reset <=> AsksRestart(r)
  BY <1>3, HandleResets
<1>6. c \in Servers /\ (c.reset <=> AsksRestart(r))
  <2>1. Kept(f, res.s) /\ res.session \in Sessions
    BY <1>3, HandleKeeps
  <2> HIDE DEF f, r, res
  <2> QED BY <1>5, <2>1, CommittedResets DEF Kept
<1>7. r.arg = "restart" <=> AsksRestart(r)
  BY <1>1 DEF Asked, AsksRestart
<1> SUFFICES /\ Restarts => AsksRestart(r) /\ (r.suppress \/ Answers("restart"))
             /\ Answers("restart") => Restarts
  BY <1>7 DEF RestartTold
<1> HIDE DEF f, r, res, c, w
<1>8. ASSUME out' = out PROVE ~Answers("restart")
  BY <1>8 DEF Answers
<1>9. CASE res.nrc # "none"
  <2>1. ~Restarts
    BY <1>2, <1>4, <1>9 DEF Restarts
  <2>2. out' = out \/ out' = Append(out, Answer(r, res.nrc))
    BY <1>2, <1>9 DEF SendNrc
  <2> QED BY <1>1, <1>8, <1>9, <2>1, <2>2, FirstAnswer
<1>10. CASE Suppressed(r, c, w)
  <2>1. r.suppress /\ Finish(c, w) /\ out' = out
    BY <1>10 DEF Suppressed
  <2> QED BY <1>1, <1>4, <1>6, <1>8, <2>1, FinishRestarts
<1>11. CASE Taken(r, c, w)
  <2>1. /\ Finish(c, w)
        /\ out' = IF Long(r) THEN out ELSE Append(out, Answer(r, "none"))
    BY <1>11 DEF Taken
  <2>2. Restarts <=> AsksRestart(r)
    BY <1>1, <1>4, <1>6, <2>1, FinishRestarts
  <2>3. CASE Long(r)
    <3>1. ~AsksRestart(r)
      BY <2>3 DEF Long, AsksRestart
    <3> QED BY <1>8, <2>1, <2>2, <2>3, <3>1
  <2>4. CASE ~Long(r)
    <3>1. Answers("restart") <=> r.arg = "restart"
      BY <1>1, <2>1, <2>4, FirstAnswer
    <3> QED BY <1>7, <2>2, <3>1
  <2> QED BY <2>3, <2>4
<1>12. CASE Refused(r, c, w)
  <2> DEFINE u == [c EXCEPT !.reset = FALSE]
  <2>1. Finish(u, w) /\ (out' = out \/ out' = Append(out, Answer(r, "BRR")))
    BY <1>12 DEF Refused
  <2>2. ~u.reset
    BY <1>6, Zenon DEF Servers
  <2> HIDE DEF u
  <2>3. ~Restarts
    BY <1>1, <1>4, <2>1, <2>2, FinishRestarts
  <2> QED BY <1>1, <1>8, <2>1, <2>3, FirstAnswer
<1> QED BY <1>2, <1>9, <1>10, <1>11, <1>12 DEF Accept

LEMMA StepTold == IInv /\ BlocksInv /\ [Next]_vars => [RestartTold]_vars
<1> SUFFICES ASSUME IInv, BlocksInv, Next PROVE RestartTold
  OBVIOUS
<1>1. CASE PollRequest
  BY <1>1, PollRequestTold
<1>2. CASE PollIdle
  <2>1. seen'.restarts = seen.restarts /\ out' = out
    BY <1>2 DEF PollIdle, IInv, TypeOK, Sightings
  <2> QED BY <2>1 DEF RestartTold, Restarts, Answers
<1>3. CASE Receive \/ Lose
  <2>1. seen' = seen /\ (out' = out \/ (out # <<>> /\ out' = Tail(out)))
    BY <1>3 DEF Receive, Lose
  <2>2. CASE out # <<>> /\ out' = Tail(out)
    <3>1. out = <<out[1]>>
      BY <2>2 DEF BlocksInv, InTurn
    <3>2. Tail(<<out[1]>>) = <<>>
      OBVIOUS
    <3>3. out' = <<>>
      BY <2>2, <3>1, <3>2, Zenon
    <3> QED BY <2>1, <3>3 DEF RestartTold, Restarts, Answers
  <2> QED BY <2>1, <2>2 DEF RestartTold, Restarts, Answers
<1>4. CASE Ask \/ Drained
  BY <1>4 DEF Ask, Drained, RestartTold, Restarts, Answers
<1> QED BY <1>1, <1>2, <1>3, <1>4 DEF Next

(* The restart asked of uds_h_ecu_reset happens exactly when the link of   *)
(* uds_server_poll has taken the answer, or none was wanted.               *)
THEOREM RestartsAreTold == Spec => RestartIsTold
BY InitAgrees, StepAgrees, InitOrdered, StepOrdered, StepTold, PTL
   DEF Spec, RestartIsTold

=============================================================================
