--------------------------------- MODULE Uds ---------------------------------
(***************************************************************************)
(* uds.c: the diagnostic server of bench mode.  uds_server_poll runs once  *)
(* per pass of bench_task; it ages the timers, takes at most one request   *)
(* from the ISO-TP link, runs its handler, commits a change of session and *)
(* hands the answer back to the link, which may refuse it.                 *)
(*                                                                         *)
(* A tester (external) unlocks the server, downloads in numbered blocks    *)
(* and repeats what was not answered; any other service may be asked for   *)
(* in between.  Requests and answers can be lost.  Requests have the right *)
(* length; the bench table gates no service by session and no handler in   *)
(* it returns UDS_RESPONSE_PENDING.                                        *)
(***************************************************************************)
EXTENDS Integers, Sequences

CONSTANTS S3Timeout,    \* s3_timeout_ms, in ticks
          LockTime,     \* UDS_SEC_LOCK_MS, in ticks
          MaxAttempts,  \* UDS_SEC_MAX_ATTEMPTS
          BscMod,       \* values of the block sequence counter (256 in the code)
          Size,         \* memorySize of a download, in blocks
          MaxElapsed,   \* ticks between two polls, at most
          MaxLost,      \* bound: messages lost or refused by the bus
          MaxRestarts   \* bound: restarts

ASSUME UdsAssumption ==
    /\ {S3Timeout, LockTime, MaxAttempts, BscMod, Size} \subseteq Nat \ {0}
    /\ {MaxElapsed, MaxLost, MaxRestarts} \subseteq Nat
    /\ BscMod > 1

VARIABLES srv,     \* uds_server_t and the file-static state of the handlers
          busy,    \* the link is still sending a multi-frame answer
          inbox,   \* the request isotp_receive returns next
          out,     \* the answer on its way to the tester
          block,   \* the tester's next block, 0 without a transfer
          lost,
          sink,    \* the blocks taken as new since the download was opened
          seen     \* what an observer of the bus has counted

vars == <<srv, busy, inbox, out, block, lost, sink, seen>>

Sessions == {"default", "prog", "extended"}

\* uds_server_init
Boot == [session |-> "default", s3 |-> 0,
         level |-> 0, pending |-> 0, attempts |-> 0, lock |-> 0,
         active |-> FALSE, size |-> 0, received |-> 0, bsc |-> 0,
         reset |-> FALSE]

\* credit: seeds issued and not yet spent on a key; streak: wrong keys in a row,
\* quiet: the time since the last of them; silent: since the last request.
Unseen == [credit |-> 0, streak |-> 0, quiet |-> LockTime, silent |-> 0,
           restarts |-> 0]

Init == /\ srv = Boot
        /\ busy = FALSE
        /\ inbox = <<>> /\ out = <<>>
        /\ block = 0
        /\ lost = 0
        /\ sink = <<>>
        /\ seen = Unseen

Capped(n, limit) == IF n > limit THEN limit ELSE n

\* Mutants of Relock: the transfer, the challenge survives; the wrong keys are
\* forgotten.
RelockKeepsTransfer(s) == [s EXCEPT !.level = 0, !.pending = 0]

RelockKeepsSeed(s) == [s EXCEPT !.level = 0, !.active = FALSE, !.size = 0,
                                !.received = 0, !.bsc = 0]

RelockForgives(s) == [s EXCEPT !.level = 0, !.pending = 0, !.attempts = 0,
                               !.active = FALSE, !.size = 0, !.received = 0,
                               !.bsc = 0]

\* uds_relock: the unlock, the challenge and the transfer go together.
Relock(s) == [s EXCEPT !.level = 0, !.pending = 0, !.active = FALSE, !.size = 0,
                       !.received = 0, !.bsc = 0]

-----------------------------------------------------------------------------
(* The handlers: the new state, the session asked for, and the answer      *)

Positive(s)      == [s |-> s, session |-> s.session, nrc |-> "none"]
Negative(s, nrc) == [s |-> s, session |-> s.session, nrc |-> nrc]

\* uds_h_diag_session
OnSession(s, r) == IF r.arg \in Sessions
                   THEN [Positive(s) EXCEPT !.session = r.arg]
                   ELSE Negative(s, "SFNS")

\* uds_h_ecu_reset: three of the five resets restart the device.
OnReset(s, r) ==
    CASE r.arg = "restart" ->
           [Positive([s EXCEPT !.reset = TRUE]) EXCEPT !.session = "default"]
      [] r.arg = "rapid" -> Positive(s)
      [] OTHER -> Negative(s, "SFNS")

\* uds_h_security, sendKey: a wrong key uses up the challenge, and one too many
\* starts the lockout.
OnKey(s, right) ==
    IF s.pending = 0 THEN Negative(s, "RSE")
    ELSE IF right
         THEN Positive([s EXCEPT !.level = 1, !.pending = 0, !.attempts = 0])
    ELSE IF s.attempts + 1 >= MaxAttempts
         THEN Negative([s EXCEPT !.pending = 0, !.attempts = 0,
                                 !.lock = LockTime], "ENOA")
    ELSE Negative([s EXCEPT !.pending = 0, !.attempts = @ + 1], "IK")

\* uds_h_security: an unlocked server answers requestSeed with a zero seed.
OnSecurity(s, r) ==
    CASE s.lock > 0           -> Negative(s, "RTDNE")
      [] s.lock = 0 /\ r.arg = "otherLevel" -> Negative(s, "SFNS")
      [] s.lock = 0 /\ r.arg = "seed" ->
           Positive(IF s.level = 1 THEN s ELSE [s EXCEPT !.pending = 1])
      [] OTHER -> OnKey(s, r.arg = "rightKey")

\* uds_h_routine, uds_h_tester_present, uds_h_read_did: no state of their own.
OnOther(s, r) == IF r.arg = "bad"
                 THEN Negative(s, IF r.sid = "readDid" THEN "ROOR" ELSE "SFNS")
                 ELSE Positive(s)

\* uds_h_request_download
OnDownload(s, r) ==
    IF s.level # 1 THEN Negative(s, "SAD")
    ELSE IF s.active THEN Negative(s, "CNC")
    ELSE IF r.arg = "bad" THEN Negative(s, "ROOR")
    ELSE Positive([s EXCEPT !.active = TRUE, !.size = Size, !.received = 0,
                            !.bsc = 1 % BscMod])

\* Mutant of OnTransfer: a block sent again is taken as the next one.
OnTransferTakesAgain(s, r) ==
    IF ~s.active THEN Negative(s, "RSE")
    ELSE IF s.level # 1 THEN Negative(s, "SAD")
    ELSE IF r.n % BscMod \in {s.bsc, (s.bsc - 1) % BscMod}
         THEN IF s.received + 1 > s.size THEN Negative(s, "ROOR")
              ELSE Positive([s EXCEPT !.received = @ + 1,
                                      !.bsc = (@ + 1) % BscMod])
    ELSE Negative(s, "WBSC")

\* uds_h_transfer_data: the next block, the last one again, or neither.
OnTransfer(s, r) ==
    IF ~s.active THEN Negative(s, "RSE")
    ELSE IF s.level # 1 THEN Negative(s, "SAD")
    ELSE IF r.n % BscMod = s.bsc
         THEN IF s.received + 1 > s.size THEN Negative(s, "ROOR")
              ELSE Positive([s EXCEPT !.received = @ + 1,
                                      !.bsc = (@ + 1) % BscMod])
    ELSE IF s.received > 0 /\ r.n % BscMod = (s.bsc - 1) % BscMod
         THEN Positive(s)
    ELSE Negative(s, "WBSC")

\* uds_h_request_transfer_exit
OnExit(s, r) ==
    IF ~s.active THEN Negative(s, "RSE")
    ELSE IF s.level # 1 THEN Negative(s, "SAD")
    ELSE Positive([s EXCEPT !.active = FALSE, !.size = 0, !.received = 0,
                            !.bsc = 0])

\* The service table of main.c.
Handle(s, r) == CASE r.sid = "session"  -> OnSession(s, r)
                  [] r.sid = "reset"    -> OnReset(s, r)
                  [] r.sid = "security" -> OnSecurity(s, r)
                  [] r.sid = "download" -> OnDownload(s, r)
                  [] r.sid = "transfer" -> OnTransfer(s, r)
                  [] r.sid = "exit"     -> OnExit(s, r)
                  [] r.sid = "unknown"  -> Negative(s, "SNS")
                  [] OTHER              -> OnOther(s, r)

-----------------------------------------------------------------------------
(* uds_server_poll                                                         *)

Aged(s, e) == [s EXCEPT !.lock = IF @ > e THEN @ - e ELSE 0]

\* Mutant of Lapse: only a session other than the default one times out.
LapseOutsideDefault(s, e) ==
    IF s.session = "default" THEN s
    ELSE IF s.s3 + e >= S3Timeout
         THEN Relock([s EXCEPT !.s3 = 0, !.session = "default"])
    ELSE [s EXCEPT !.s3 = @ + e]

\* No request: the session ages, and lapses.
Lapse(s, e) == IF s.s3 + e >= S3Timeout
               THEN Relock([s EXCEPT !.s3 = 0, !.session = "default"])
               ELSE [s EXCEPT !.s3 = @ + e]

PollIdle == \E e \in 0..MaxElapsed :
               /\ inbox = <<>>
               /\ srv' = Lapse(Aged(srv, e), e)
               /\ seen' = [seen EXCEPT !.quiet = Capped(@ + e, LockTime),
                                       !.silent = Capped(@ + e, S3Timeout),
                                       !.credit = IF seen.silent + e >= S3Timeout
                                                  THEN 0 ELSE @]
               /\ UNCHANGED <<busy, inbox, out, block, lost, sink>>

\* A positive answer commits the session, and a change of it, or asking for
\* the default one, locks the server.
Relocks(s, r, res) == /\ res.nrc = "none"
                      /\ \/ res.session # s.session
                         \/ r.sid = "session" /\ res.session = "default"

Committed(s, r, res) == IF Relocks(s, r, res)
                        THEN Relock([res.s EXCEPT !.session = res.session])
                        ELSE res.s

\* What the observer makes of request r, answered res: a key was judged, a
\* seed was issued.
Judged(r, res) == /\ r.sid = "security" /\ r.arg # "seed"
                  /\ res.nrc \in {"none", "IK", "ENOA"}

Wrong(r, res) == Judged(r, res) /\ res.nrc # "none"

Issued(r, res) == /\ r.sid = "security" /\ r.arg = "seed" /\ res.nrc = "none"
                  /\ srv.level = 0

Observed(r, res, e) ==
    LET since == Capped(seen.quiet + e, LockTime)
    IN  [seen EXCEPT
           !.silent = 0,
           !.credit = IF Relocks(srv, r, res) THEN 0
                      ELSE IF Judged(r, res) THEN @ - 1
                      ELSE IF Issued(r, res) THEN 1 ELSE @,
           !.streak = IF ~Judged(r, res) THEN @
                      ELSE IF ~Wrong(r, res) THEN 0
                      ELSE IF @ >= MaxAttempts /\ since >= LockTime THEN 1
                      ELSE @ + 1,
           !.quiet = IF Wrong(r, res) THEN 0 ELSE since]

\* The blocks taken as new.  What ages between polls does not bear on them.
Sunk(r, res) == IF r.sid = "download" /\ res.nrc = "none" THEN <<>>
                ELSE IF r.sid = "transfer" /\ res.s.received > srv.received
                     THEN Append(sink, r.n)
                ELSE sink

Answer(r, nrc) == [sid |-> r.sid, nrc |-> nrc, arg |-> r.arg, n |-> r.n]

\* Only the answer to readDid takes more than one frame; the tester's transfer
\* does not depend on it.
Long(r) == r.sid = "readDid"

\* The restart that the handler of ECUReset asked for.
Finish(s, watched) ==
    IF s.reset THEN /\ srv' = Boot
                    /\ seen' = [Unseen EXCEPT !.restarts = seen.restarts + 1]
               ELSE /\ srv' = s
                    /\ seen' = watched

\* The bus takes no frame now.
BusFails == /\ lost < MaxLost
            /\ lost' = lost + 1

\* uds_send_nrc: some are left out on a broadcast; the link may refuse others.
SendNrc(r, nrc) ==
    \/ /\ r.functional /\ nrc \in {"SNS", "SFNS", "ROOR"}
       /\ UNCHANGED <<out, lost>>
    \/ /\ ~(r.functional /\ nrc \in {"SNS", "SFNS", "ROOR"})
       /\ \/ ~busy /\ out' = Append(out, Answer(r, nrc)) /\ UNCHANGED lost
          \/ busy /\ UNCHANGED <<out, lost>>
          \/ ~busy /\ BusFails /\ UNCHANGED out

Reject(r, res, e) == /\ SendNrc(r, res.nrc)
                     /\ srv' = res.s
                     /\ seen' = Observed(r, res, e)
                     /\ UNCHANGED busy

Suppressed(r, s, watched) == /\ r.suppress
                             /\ Finish(s, watched)
                             /\ busy' = (busy /\ ~s.reset)
                             /\ UNCHANGED <<out, lost>>

Taken(r, s, watched) == /\ ~r.suppress /\ ~busy
                        /\ busy' = Long(r)
                        /\ out' = IF Long(r) THEN out
                                  ELSE Append(out, Answer(r, "none"))
                        /\ Finish(s, watched)
                        /\ UNCHANGED lost

\* Mutant of Refused: the restart goes ahead.
RefusedRestarts(r, s, watched) ==
    /\ ~r.suppress
    /\ \/ busy /\ UNCHANGED <<out, lost>>
       \/ ~busy /\ BusFails /\ (UNCHANGED out \/ out' = Append(out, Answer(r, "BRR")))
    /\ Finish(s, watched)
    /\ UNCHANGED busy

\* The link refuses the answer: busyRepeatRequest, if it takes that, and no
\* restart behind the tester's back.
Refused(r, s, watched) ==
    /\ ~r.suppress
    /\ \/ busy /\ UNCHANGED <<out, lost>>
       \/ ~busy /\ BusFails /\ (UNCHANGED out \/ out' = Append(out, Answer(r, "BRR")))
    /\ Finish([s EXCEPT !.reset = FALSE], watched)
    /\ UNCHANGED busy

Accept(r, s, watched) == \/ Suppressed(r, s, watched)
                         \/ Taken(r, s, watched)
                         \/ Refused(r, s, watched)

PollRequest ==
    \E e \in 0..MaxElapsed :
       /\ inbox # <<>>
       /\ inbox' = <<>>
       /\ LET r   == Head(inbox)
              s   == [Aged(srv, e) EXCEPT !.s3 = 0]
              res == Handle(s, r)
          IN  IF res.nrc = "none"
              THEN Accept(r, Committed(s, r, res), Observed(r, res, e))
              ELSE Reject(r, res, e)
       /\ LET r == Head(inbox)
          IN  sink' = Sunk(r, Handle(srv, r))
       /\ UNCHANGED block

-----------------------------------------------------------------------------
(* The tester and the bus                                                  *)

Request(sid, arg, n, suppress, functional) ==
    [sid |-> sid, arg |-> arg, n |-> n, suppress |-> suppress,
     functional |-> functional]

Physical(sid, args) == {Request(sid, a, 0, FALSE, FALSE) : a \in args}

Anyhow(sid, args) == {Request(sid, a, 0, sup, fun) :
                         a \in args, sup \in BOOLEAN, fun \in BOOLEAN}

\* A request without a sub-function cannot ask for silence.
Plainly(sid, args) == {Request(sid, a, 0, FALSE, fun) :
                          a \in args, fun \in BOOLEAN}

\* Requests of any node.  Bit 7 of a sub-function suppresses the answer.
Services == Anyhow("session", Sessions \cup {"bad"})
            \cup Anyhow("reset", {"restart", "rapid", "bad"})
            \cup Anyhow("tester", {"", "bad"})
            \cup Anyhow("routine", {"", "bad"})
            \cup Plainly("readDid", {"", "bad"}) \cup Plainly("unknown", {""})
            \cup Physical("security", {"seed", "rightKey", "wrongKey", "otherLevel"})
            \cup Physical("exit", {""})

\* The tester downloads once more only when it has no transfer, and sends a
\* block again until it is answered.
Transfer == IF block = 0 THEN Physical("download", {"", "bad"})
            ELSE {Request("transfer", "", block, FALSE, FALSE)}

\* It waits for an answer or until none can be under way.
Ask == /\ inbox = <<>> /\ out = <<>>
       /\ \E r \in Services \cup Transfer :
             /\ r.arg = "restart" => seen.restarts < MaxRestarts
             /\ inbox' = <<r>>
       /\ UNCHANGED <<srv, busy, out, block, lost, sink, seen>>

\* What the tester learns of its transfer from an answer.
Learned(a) ==
    CASE a.sid = "download" /\ a.nrc \in {"none", "CNC"}  -> 1
      [] a.sid = "transfer" /\ a.nrc = "none"             -> block + 1
      [] a.sid \in {"transfer", "exit"} /\ a.nrc = "RSE"  -> 0
      [] a.sid = "exit" /\ a.nrc = "none"                 -> 0
      [] OTHER                                            -> block

Receive == /\ out # <<>>
           /\ out' = Tail(out)
           /\ block' = Learned(Head(out))
           /\ UNCHANGED <<srv, busy, inbox, lost, sink, seen>>

Lose == /\ BusFails
        /\ \/ inbox # <<>> /\ inbox' = <<>> /\ UNCHANGED out
           \/ out # <<>> /\ out' = Tail(out) /\ UNCHANGED inbox
        /\ UNCHANGED <<srv, busy, block, sink, seen>>

\* isotp_poll has sent the rest of a long answer, or has given it up.
Drained == /\ busy
           /\ busy' = FALSE
           /\ UNCHANGED <<srv, inbox, out, block, lost, sink, seen>>

Next == PollIdle \/ PollRequest \/ Ask \/ Receive \/ Lose \/ Drained

Spec == Init /\ [][Next]_vars

-----------------------------------------------------------------------------
Servers == [session : Sessions, s3 : 0..S3Timeout - 1,
            level : {0, 1}, pending : {0, 1}, attempts : 0..MaxAttempts - 1,
            lock : 0..LockTime, active : BOOLEAN, size : {0, Size},
            received : 0..Size, bsc : 0..BscMod - 1, reset : BOOLEAN]

Sightings == [credit : Int, streak : Nat, quiet : 0..LockTime,
              silent : 0..S3Timeout, restarts : Nat]

TypeOK == /\ srv \in Servers
          /\ seen \in Sightings
          /\ busy \in BOOLEAN
          /\ lost \in 0..MaxLost

(* A transfer never outlives the unlock that opened it, so the one service *)
(* that closes it is never refused for want of access (uds.c:773-776).     *)
TransferGuarded == srv.active => srv.level = 1

(* Each block of a download is taken once and in order, over lost answers, *)
(* repeated blocks and the wrap of the counter; the tester and the server  *)
(* never differ by more than the block that is not yet acknowledged, and   *)
(* never more is taken than was declared.                                  *)
BlocksOnce == srv.active =>
                /\ \A i \in DOMAIN sink : sink[i] = i
                /\ Len(sink) <= Size
                /\ IF block = 0 THEN sink = <<>>
                   ELSE Len(sink) \in {block - 1, block}

(* A challenge is good for one key, right or wrong, and never for one that *)
(* comes after the server has locked itself.                               *)
OneKeyPerSeed == seen.credit >= 0

(* After MaxAttempts wrong keys in a row the next is judged only when the  *)
(* lockout has passed in full, whatever session changes, timeouts and      *)
(* seeds come in between (a restart apart, which forgets the count).       *)
GuessesLimited == seen.streak <= MaxAttempts

(* A server that has heard nothing for S3Timeout is locked, in the default *)
(* session, with no challenge outstanding and no transfer open, also when  *)
(* it never left the default session (uds.c:292-295).                      *)
LapsesInSilence == seen.silent >= S3Timeout
                     => srv.session = "default" /\ srv.level = 0
                        /\ srv.pending = 0 /\ ~srv.active

\* The observer's counts and the server's state agree.
ClockAgrees == seen.silent < S3Timeout => srv.s3 = seen.silent

SeedsAgree == seen.credit >= srv.pending

LockoutAgrees ==
    IF srv.lock = 0
    THEN \/ seen.streak = srv.attempts
         \/ /\ srv.attempts = 0
            /\ seen.streak = MaxAttempts /\ seen.quiet = LockTime
    ELSE /\ srv.attempts = 0
         /\ seen.streak = MaxAttempts /\ seen.quiet + srv.lock = LockTime

(* The inductive invariant: between two polls no restart is pending, what  *)
(* the server has counted is what could be seen of it, and the promises    *)
(* above hold.                                                             *)
IInv == /\ TypeOK /\ ~srv.reset
        /\ TransferGuarded /\ LapsesInSilence
        /\ ClockAgrees /\ SeedsAgree /\ LockoutAgrees

Restarts == seen'.restarts # seen.restarts

\* The answer that the tester is going to get first.
Answers(arg) == out' # <<>> /\ out' # out /\ out'[1].arg = arg /\ out'[1].nrc = "none"

RestartTold ==
    /\ Restarts => /\ Head(inbox).arg = "restart"
                   /\ Head(inbox).suppress \/ Answers("restart")
    /\ Answers("restart") => Restarts

(* The device restarts if, and only if, the tester that asked for it has   *)
(* its answer on the way or asked for none (the reset flag that            *)
(* uds_h_ecu_reset raises and uds_server_poll withdraws, uds.c).           *)
RestartIsTold == [][RestartTold]_vars
=============================================================================
