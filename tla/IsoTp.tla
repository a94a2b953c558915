-------------------------------- MODULE IsoTp --------------------------------
(***************************************************************************)
(* isotp.c: a message travels from the sending half of one link to the     *)
(* receiving half of its peer's, over CAN.  A message of one piece is a    *)
(* single frame; a longer one is a first frame and consecutive frames,     *)
(* each with its piece and a sequence number, sent in blocks the receiver  *)
(* grants with flow control frames.                                        *)
(*                                                                         *)
(* Each half runs in one task (bench_task): take a frame if there is one,  *)
(* isotp_poll, then the application.  The bus keeps the order of frames,   *)
(* delays them by up to MaxDelay ticks, and can lose them.  Frames are     *)
(* well formed: the checks of DLC and length fields are left out.          *)
(***************************************************************************)
EXTENDS Naturals, Sequences

CONSTANTS Pieces,        \* Pieces[m]: frames it takes to send message m
          BlockSize,     \* cfg.bs of the receiver, 0 for no limit
          STmin,         \* cfg.stmin of the receiver, in ticks
          WftMax,        \* cfg.wft_max of the sender
          NBs, NCr,      \* cfg.n_bs_ms and cfg.n_cr_ms, in ticks
          SnMod,         \* sequence numbers (16 in the code)
          MaxDelay,      \* ticks a frame is under way, at most
          ForeignPeer,   \* TRUE: the receiver may also send WAIT and OVFLW
          MaxFaults,     \* bound: frames lost or refused by the driver
          MaxBroadcasts  \* bound: frames on the functional address

ASSUME IsoTpAssumption ==
    /\ Pieces \in Seq(Nat \ {0})
    /\ {BlockSize, STmin, WftMax, MaxDelay, MaxFaults, MaxBroadcasts} \subseteq Nat
    /\ {NBs, NCr, SnMod} \subseteq Nat \ {0}
    /\ ForeignPeer \in BOOLEAN

\* The timers are set for this bus: a grant comes back before N_Bs has expired,
\* and a consecutive frame comes before N_Cr has.
ASSUME IsoTpTiming == /\ 2 * MaxDelay < NBs
                      /\ 2 * MaxDelay + STmin + 1 < NCr

VARIABLES tx,         \* the sending half: the tx_ fields of its isotp_link_t
          rx,         \* the receiving half: the rx_ fields of the peer's
          next,       \* the message the application sends next
          data,       \* frames on their way to the receiver
          fc,         \* flow control frames on their way to the sender
          owed,       \* a foreign receiver still owes the grant
          delivered,  \* what isotp_receive has returned
          faults, broadcasts,
          upsets      \* which of "fault", "foreign", "gaveUp" have happened

app  == <<next, delivered>>
env  == <<owed, faults, broadcasts, upsets>>
vars == <<tx, rx, data, fc, app, env>>

Messages == DOMAIN Pieces

TxIdle == [phase |-> "idle", msg |-> 0, off |-> 0, sn |-> 0, bsLeft |-> 0,
           wft |-> 0, timer |-> 0, stTimer |-> 0]

RxIdle == [phase |-> "idle", buf |-> <<>>, len |-> 0, sn |-> 0, blockCf |-> 0,
           timer |-> 0, complete |-> FALSE, functional |-> FALSE]

Init == /\ tx = TxIdle /\ rx = RxIdle
        /\ next = 1 /\ delivered = <<>>
        /\ data = <<>> /\ fc = <<>>
        /\ owed = FALSE /\ faults = 0 /\ broadcasts = 0 /\ upsets = {}

\* tx_reset
TxReset(l) == TxIdle

\* rx_reset leaves a message that waits for isotp_receive marked complete.
RxReset(l) == [l EXCEPT !.phase = "idle", !.buf = <<>>, !.len = 0, !.sn = 0,
                        !.blockCf = 0]

Frame(type, piece, len, sn) ==
    [type |-> type, piece |-> piece, len |-> len, sn |-> sn, age |-> 0]

Upto(n, limit) == IF n < limit THEN n + 1 ELSE n

Put(channel, f) == Append(channel, f)

Fault == /\ faults < MaxFaults
         /\ faults' = faults + 1
         /\ upsets' = upsets \cup {"fault"}

-----------------------------------------------------------------------------
(* The sending half                                                        *)

\* isotp_send: a single frame, or a first frame and the wait for the grant.
Started == [TxIdle EXCEPT !.phase = "wait", !.msg = next, !.off = 1, !.sn = 1]

Send == /\ tx.phase = "idle"
        /\ next \in Messages
        /\ next' = next + 1
        /\ LET type == IF Pieces[next] = 1 THEN "SF" ELSE "FF"
           IN  \/ /\ data' = Put(data, Frame(type, <<next, 1>>, Pieces[next], 0))
                  /\ tx' = IF type = "SF" THEN TxReset(tx) ELSE Started
                  /\ UNCHANGED <<faults, upsets>>
               \/ /\ Fault
                  /\ tx' = TxReset(tx)
                  /\ UNCHANGED data
        /\ UNCHANGED <<rx, fc, delivered, owed, broadcasts>>

\* Mutant of OnFc: WAITs are counted but never too many.
OnFcPatient(l, status) ==
    IF l.phase # "wait" THEN l
    ELSE CASE status = "CTS"   -> [l EXCEPT !.phase = "send", !.wft = 0,
                                            !.bsLeft = BlockSize, !.stTimer = 0]
           [] status = "WAIT"  -> [l EXCEPT !.wft = Upto(@, WftMax), !.timer = 0]
           [] status = "OVFLW" -> TxReset(l)

\* handle_fc
OnFc(l, status) ==
    IF l.phase # "wait" THEN l
    ELSE CASE status = "CTS"   -> [l EXCEPT !.phase = "send", !.wft = 0,
                                            !.bsLeft = BlockSize, !.stTimer = 0]
           [] status = "WAIT"  -> IF l.wft + 1 > WftMax THEN TxReset(l)
                                  ELSE [l EXCEPT !.wft = @ + 1, !.timer = 0]
           [] status = "OVFLW" -> TxReset(l)

\* isotp_poll, send side: the state after a consecutive frame was accepted.
AfterCf(l) ==
    LET sent == [l EXCEPT !.off = @ + 1, !.sn = (@ + 1) % SnMod, !.stTimer = 0]
    IN  IF sent.off = Pieces[l.msg] THEN TxReset(l)
        ELSE IF l.bsLeft = 1 THEN [sent EXCEPT !.bsLeft = 0, !.phase = "wait",
                                               !.timer = 0]
        ELSE IF l.bsLeft > 1 THEN [sent EXCEPT !.bsLeft = @ - 1]
        ELSE sent

\* The sender gives up on a receiver that has put off a grant.
PutOff == IF "foreign" \in upsets THEN {"gaveUp"} ELSE {}

PollTx(l) ==
    CASE l.phase = "wait" /\ l.timer >= NBs ->
           /\ tx' = TxReset(l)
           /\ upsets' = upsets \cup PutOff
           /\ UNCHANGED <<data, faults>>
      [] l.phase = "send" /\ l.stTimer >= STmin ->
           \/ /\ data' = Put(data, Frame("CF", <<l.msg, l.off + 1>>, 0, l.sn))
              /\ tx' = AfterCf(l)
              /\ UNCHANGED <<faults, upsets>>
           \/ /\ Fault
              /\ tx' = TxReset(l)
              /\ UNCHANGED data
      [] OTHER ->
           /\ tx' = l
           /\ UNCHANGED <<data, faults, upsets>>

\* One pass of the sender's task, with a frame or without.
TxFrame == /\ fc # <<>>
           /\ fc' = Tail(fc)
           /\ LET l == OnFc(tx, Head(fc).status)
              IN  IF Head(fc).status = "WAIT" /\ tx.phase = "wait" /\ l = TxIdle
                  THEN /\ tx' = l
                       /\ upsets' = upsets \cup PutOff
                       /\ UNCHANGED <<data, faults>>
                  ELSE PollTx(l)
           /\ UNCHANGED <<rx, app, owed, broadcasts>>

TxNoFrame == /\ PollTx(tx)
             /\ UNCHANGED <<rx, fc, app, owed, broadcasts>>

TxPass == TxFrame \/ TxNoFrame

-----------------------------------------------------------------------------
(* The receiving half                                                      *)

\* Mutant of OnSf: a broadcast is treated like a physical single frame.
OnSfAnyAddress(l, f) ==
    [l EXCEPT !.buf = <<f.piece>>, !.len = 1, !.phase = "idle",
              !.functional = (f.type = "BC"), !.complete = TRUE]

\* handle_sf: a broadcast never touches a physical conversation.
OnSf(l, f) ==
    LET functional == f.type = "BC"
    IN  IF functional /\ (l.phase = "recv" \/ l.complete) THEN l
        ELSE [l EXCEPT !.buf = <<f.piece>>, !.len = 1, !.phase = "idle",
                       !.functional = functional, !.complete = TRUE]

\* Mutant of OnFf: the count of the block before is not reset.
OnFfKeepsBlock(l, f) == [l EXCEPT !.buf = <<f.piece>>, !.len = f.len, !.sn = 1,
                                  !.phase = "recv", !.functional = FALSE,
                                  !.timer = 0]

\* handle_ff
OnFf(l, f) == [l EXCEPT !.buf = <<f.piece>>, !.len = f.len, !.sn = 1,
                        !.blockCf = 0, !.phase = "recv", !.functional = FALSE,
                        !.timer = 0]

\* Mutant of OnCf: N_Cr is not restarted.
OnCfKeepsTimer(l, f) ==
    LET taken == [l EXCEPT !.buf = Append(@, f.piece), !.sn = (@ + 1) % SnMod,
                           !.blockCf = @ + 1]
    IN  IF l.phase # "recv" THEN l
        ELSE IF f.sn # l.sn THEN RxReset(l)
        ELSE IF Len(taken.buf) = l.len
             THEN [taken EXCEPT !.complete = TRUE, !.phase = "idle"]
        ELSE IF BlockSize # 0 /\ taken.blockCf >= BlockSize
             THEN [taken EXCEPT !.blockCf = 0]
        ELSE taken

\* handle_cf: out of sequence aborts; the last one completes the message.
OnCf(l, f) ==
    LET taken == [l EXCEPT !.buf = Append(@, f.piece), !.sn = (@ + 1) % SnMod,
                           !.timer = 0, !.blockCf = @ + 1]
    IN  IF l.phase # "recv" THEN l
        ELSE IF f.sn # l.sn THEN RxReset(l)
        ELSE IF Len(taken.buf) = l.len
             THEN [taken EXCEPT !.complete = TRUE, !.phase = "idle"]
        ELSE IF BlockSize # 0 /\ taken.blockCf >= BlockSize
             THEN [taken EXCEPT !.blockCf = 0]
        ELSE taken

\* isotp_on_can_frame, receive side
OnCanFrame(l, f) == CASE f.type \in {"SF", "BC"} -> OnSf(l, f)
                      [] f.type = "FF"           -> OnFf(l, f)
                      [] f.type = "CF"           -> OnCf(l, f)

\* The frame is answered by send_fc(CTS).
Grants(l, f) == \/ f.type = "FF"
                \/ /\ f.type = "CF" /\ l.phase = "recv" /\ f.sn = l.sn
                   /\ Len(l.buf) + 1 < l.len
                   /\ BlockSize # 0 /\ l.blockCf + 1 >= BlockSize

\* isotp_poll, receive side
PollRx(l) == IF l.phase = "recv" /\ l.timer >= NCr THEN RxReset(l) ELSE l

\* Mutant of Collect: the message stays marked as complete.
CollectAgain(l) ==
    /\ rx' = l
    /\ delivered' = IF l.complete /\ ~l.functional /\ Len(delivered) < next
                    THEN Append(delivered, l.buf) ELSE delivered

\* isotp_receive, called by uds_server_poll in every pass.
Collect(l) ==
    /\ rx' = [l EXCEPT !.complete = FALSE]
    /\ delivered' = IF l.complete /\ ~l.functional THEN Append(delivered, l.buf)
                    ELSE delivered

Status(s) == [status |-> s, age |-> 0]

\* The result of send_fc is not looked at: a refusal is a frame lost.  A
\* foreign receiver may answer WAIT first, or OVFLW and forget the message.
RxFrame ==
    /\ data # <<>>
    /\ data' = Tail(data)
    /\ LET f == Head(data)
           l == OnCanFrame(rx, f)
       IN  IF ~Grants(rx, f)
           THEN /\ Collect(PollRx(l))
                /\ owed' = (owed /\ PollRx(l).phase = "recv")
                /\ UNCHANGED <<fc, upsets>>
           ELSE \/ /\ fc' = Put(fc, Status("CTS"))
                   /\ owed' = FALSE
                   /\ Collect(PollRx(l))
                   /\ UNCHANGED upsets
                \/ /\ ForeignPeer
                   /\ fc' = Put(fc, Status("WAIT"))
                   /\ owed' = TRUE /\ upsets' = upsets \cup {"foreign"}
                   /\ Collect(l)
                \/ /\ ForeignPeer
                   /\ fc' = Put(fc, Status("OVFLW"))
                   /\ owed' = FALSE /\ upsets' = upsets \cup {"foreign"}
                   /\ Collect(RxReset(l))
    /\ UNCHANGED <<tx, next, faults, broadcasts>>

RxNoFrame == /\ ~owed
             /\ Collect(PollRx(rx))
             /\ UNCHANGED <<tx, data, fc, next, env>>

\* A foreign receiver answers again: WAIT for as long as it likes.
PeerAnswers == /\ owed /\ fc = <<>>
               /\ \/ fc' = Put(fc, Status("CTS")) /\ owed' = FALSE
                  \/ fc' = Put(fc, Status("WAIT")) /\ owed' = TRUE
               /\ rx' = [rx EXCEPT !.timer = 0]
               /\ UNCHANGED <<tx, data, app, faults, broadcasts, upsets>>

RxPass == RxFrame \/ RxNoFrame \/ PeerAnswers

-----------------------------------------------------------------------------
(* The bus, other nodes and time                                           *)

Lose == /\ Fault
        /\ \/ data # <<>> /\ data' = Tail(data) /\ UNCHANGED fc
           \/ fc # <<>> /\ fc' = Tail(fc) /\ UNCHANGED data
        /\ UNCHANGED <<tx, rx, app, owed, broadcasts>>

\* A pass with a single frame that some node sent on the functional address;
\* it may come between any two frames of the sender.
Broadcast == /\ broadcasts < MaxBroadcasts
             /\ broadcasts' = broadcasts + 1
             /\ LET l == PollRx(OnCanFrame(rx, Frame("BC", <<0, 1>>, 1, 0)))
                IN  /\ Collect(l)
                    /\ owed' = (owed /\ l.phase = "recv")
             /\ UNCHANGED <<tx, data, fc, next, faults, upsets>>

Older(channel) == [i \in DOMAIN channel |-> [channel[i] EXCEPT !.age = @ + 1]]

Overdue(channel) == \E i \in DOMAIN channel : channel[i].age >= MaxDelay

\* No frame is under way for longer than MaxDelay, the sender's task lets at
\* most one tick pass beyond STmin, and a foreign receiver answers in time.
Tick == /\ ~Overdue(data) /\ ~Overdue(fc)
        /\ ~(tx.phase = "send" /\ tx.stTimer > STmin)
        /\ ~(owed /\ rx.timer > 0)
        /\ data' = Older(data) /\ fc' = Older(fc)
        /\ tx' = [tx EXCEPT !.timer = Upto(@, NBs), !.stTimer = Upto(@, STmin + 1)]
        /\ rx' = [rx EXCEPT !.timer = Upto(@, NCr)]
        /\ UNCHANGED <<app, env>>

Next == Send \/ TxPass \/ RxPass \/ Lose \/ Broadcast \/ Tick

Spec == Init /\ [][Next]_vars

\* Both tasks take their frames and poll, and time passes.  A foreign receiver
\* answers, but nothing makes it grant.
FairSpec == /\ Spec
            /\ WF_vars(TxFrame) /\ WF_vars(TxNoFrame)
            /\ WF_vars(RxFrame) /\ WF_vars(RxNoFrame) /\ WF_vars(PeerAnswers)
            /\ WF_vars(Tick)
-----------------------------------------------------------------------------
Whole(m) == [i \in 1..Pieces[m] |-> <<m, i>>]

(* Every message isotp_receive returns is one that was sent, all of it and *)
(* nothing else, none comes twice and none overtakes another: whatever is  *)
(* lost, refused or broadcast in between, as long as a grant comes back    *)
(* before N_Bs has expired (2 * MaxDelay < NBs) and the sender has not     *)
(* given up on a peer that goes on to grant: a late grant would be taken   *)
(* as the answer to the next message.                                      *)
MessagesIntact ==
    "gaveUp" \notin upsets =>
    /\ \A i \in DOMAIN delivered :
          \E m \in 1..next - 1 : delivered[i] = Whole(m)
    /\ \A i, j \in DOMAIN delivered :
          i < j => delivered[i][1][1] < delivered[j][1][1]

\* What the receiver holds, and what is still to reach it.
Reassembled == IF rx.phase = "recv" THEN rx.buf ELSE <<>>
InTransit   == [i \in DOMAIN data |-> data[i].piece]

(* As long as nothing is lost, both halves agree: the pieces the sender    *)
(* has sent of its message are those the receiver holds and those under    *)
(* way.  A broadcast, which any node may send, changes nothing in that     *)
(* (isotp.c:228-231).                                                      *)
InStep == upsets = {} /\ tx.phase # "idle"
            => \E before \in 0..Len(Reassembled \o InTransit) :
                  SubSeq(Reassembled \o InTransit, before + 1,
                         Len(Reassembled \o InTransit))
                     = SubSeq(Whole(tx.msg), 1, tx.off)

(* The two counters of a block, tx_bs_left and rx_block_cf, belong to one  *)
(* grant: the sender never sends more than it was granted, and if nothing  *)
(* is lost the receiver counts to the grant the sender will wait for.      *)
BlockKept ==
    BlockSize # 0 /\ tx.phase = "send" /\ "gaveUp" \notin upsets
      => LET block == rx.blockCf + Len(data) + tx.bsLeft
         IN  block <= BlockSize /\ (upsets = {} => block = BlockSize)

(* With nothing lost, refused or put off, every message arrives: no timer  *)
(* of either side expires on a transfer that is going well.                *)
AllArrive == upsets = {} /\ tx.phase = "idle" /\ data = <<>>
               => Len(delivered) = next - 1

(* The sender is never stuck, which would refuse every later isotp_send:   *)
(* not by a lost grant, and not by a peer that sends WAIT for ever.        *)
SendEnds == tx.phase # "idle" ~> tx.phase = "idle"

(* The receiver gives up a reception that stalls by N_Cr, unless it is     *)
(* another one than isotp.c, which puts off its own grant.                 *)
ReceptionEnds == rx.phase = "recv" ~> rx.phase = "idle" \/ owed

(* No half is busy for ever (isotp.c:350, 443): both of the above.         *)
TransfersEnd == SendEnds /\ ReceptionEnds
=============================================================================
