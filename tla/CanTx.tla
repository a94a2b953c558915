-------------------------------- MODULE CanTx --------------------------------
(***************************************************************************)
(* The transmit path of the bridge (main.c): can_tx_task moves one frame   *)
(* at a time from tx_ring to the TWAI driver and waits for the verdict on  *)
(* it; ctrl_task reads the driver's alerts, forwards verdicts through      *)
(* s_tx_done and reconfigures the driver when the host asks for it.        *)
(*                                                                         *)
(* Both tasks are pinned to core 1 and can_tx_task has the higher priority *)
(* (config.h:66-78): ctrl_task runs only while can_tx_task is blocked, and *)
(* is preempted anywhere when it is not.  The driver's interrupt and the   *)
(* host (core 0) may step in anywhere.                                     *)
(*                                                                         *)
(* The quiesce handshake appears here as what module Quiesce shows it to   *)
(* be: a request that is granted once can_tx_task is parked or withdrawn.  *)
(***************************************************************************)
EXTENDS TwaiHal

CONSTANTS RingDepth,    \* slots of tx_ring (CFG_RB_TX_DEPTH)
          TxDoneDepth,  \* slots of s_tx_done (main.c:762)
          MaxCommands   \* bound: settings commands of the host

ASSUME CanTxAssumption == /\ RingDepth \in Nat \ {0}
                          /\ TxDoneDepth \in Nat \ {0}
                          /\ MaxCommands \in Nat

\* No frame has this number.
None == 0

VARIABLES ring,      \* tx_ring
          next,      \* frames the host has put into tx_ring
          pending,   \* can_tx_task's frame, None without have_pending
          inflight,  \* can_tx_task: the driver owns the frame
          tpc,       \* where can_tx_task is
          txDone,    \* s_tx_done
          dropped,   \* frames discarded because the bus is listen-only
          cpc,       \* where ctrl_task is
          post,      \* events ctrl_service_alerts has still to queue
          quiesce,   \* a park is requested
          want,      \* the host's settings in s_dev_state
          flag,      \* s_dev_state.reconfig_pending
          commands,  \* settings commands so far
          erased     \* frames whose completion a teardown erased unread

txVars   == <<pending, inflight, tpc, dropped>>
ctrlVars == <<cpc, post, quiesce>>
hostVars == <<want, flag, commands>>
ringVars == <<ring, next>>
vars == <<halVars, txVars, ctrlVars, hostVars, ringVars, txDone, erased>>

Settings == [on : BOOLEAN, silent : BOOLEAN]   \* bus_on, silent
Events == {"OK", "FAIL", "ABORT"}

(* can_tx_task: top, park (quiesce_park), pop (in pcan_rb_pop), drain (has *)
(* a frame to submit), submit (about to call the driver), delay (back-off),*)
(* await (in xQueueReceive on s_tx_done).                                  *)
TxPc == {"top", "park", "pop", "drain", "submit", "delay", "await"}

(* ctrl_task: boot, loop, quiesce (in ctrl_quiesce_begin), flush (the      *)
(* service before the teardown), flushPost, apply, abort, release, service,*)
(* servicePost, sleep (the delay that ends a pass).                        *)
CtrlPc == {"boot", "loop", "quiesce", "flush", "flushPost", "apply", "abort",
           "release", "service", "servicePost", "sleep"}

Init == /\ HalInit
        /\ ring = <<>> /\ next = 0
        /\ pending = None /\ inflight = FALSE /\ tpc = "top" /\ dropped = {}
        /\ txDone = <<>>
        /\ cpc = "boot" /\ post = <<>> /\ quiesce = FALSE
        /\ want = [on |-> FALSE, silent |-> FALSE] /\ flag = FALSE /\ commands = 0
        /\ erased = {}

-----------------------------------------------------------------------------
(* can_tx_task                                                             *)

TxFrame == UNCHANGED <<ctrlVars, hostVars, erased>>

\* A move of can_tx_task that changes nothing else.
TxMove(from, to) == /\ tpc = from
                    /\ tpc' = to
                    /\ UNCHANGED <<pending, inflight, dropped, halVars,
                                   ringVars, txDone>>
                    /\ TxFrame

\* The head of the loop: park, or await a verdict, or submit, or fetch.
TxPark   == quiesce /\ TxMove("top", "park")
TxUnpark == ~quiesce /\ TxMove("park", "top")
TxAwait  == ~quiesce /\ inflight /\ TxMove("top", "await")
TxResume == ~quiesce /\ pending # None /\ ~inflight /\ TxMove("top", "drain")
TxFetch  == ~quiesce /\ pending = None /\ TxMove("top", "pop")

\* Goes on to submit without looking at the request again.
TxPop == /\ tpc = "pop"
         /\ ring # <<>>
         /\ pending' = Head(ring)
         /\ ring' = Tail(ring)
         /\ tpc' = "drain"
         /\ UNCHANGED <<inflight, dropped, next, halVars, txDone>>
         /\ TxFrame

TxPopTimeout == ring = <<>> /\ TxMove("pop", "top")

\* Mutant: submits without draining s_tx_done.
TxDrainNothing == TxMove("drain", "submit")

\* Verdicts queued so far are about earlier frames.
TxDrain == /\ tpc = "drain"
           /\ txDone' = <<>>
           /\ tpc' = "submit"
           /\ UNCHANGED <<pending, inflight, dropped, halVars, ringVars>>
           /\ TxFrame

TxAccepted == /\ tpc = "submit"
              /\ HalAccepts
              /\ HalEnqueue(pending)
              /\ inflight' = TRUE
              /\ tpc' = "top"
              /\ UNCHANGED <<pending, dropped, ringVars, txDone>>
              /\ TxFrame

\* Listen-only: the frame is discarded on purpose, and counted.
TxListenDrop == /\ tpc = "submit"
                /\ HalListenOnly
                /\ dropped' = dropped \cup {pending}
                /\ pending' = None
                /\ tpc' = "top"
                /\ UNCHANGED <<inflight, halVars, ringVars, txDone>>
                /\ TxFrame

\* Queue full, driver stopped or absent: keep this frame and back off.
TxRetain == ~HalAccepts /\ ~HalListenOnly /\ TxMove("submit", "delay")

TxDelayOver == TxMove("delay", "top")

\* Mutants: every verdict releases the frame; a frame to send again goes to
\* the end of tx_ring.
TxVerdictReleases == /\ tpc = "await"
                     /\ txDone # <<>>
                     /\ txDone' = Tail(txDone)
                     /\ inflight' = FALSE
                     /\ pending' = None
                     /\ tpc' = "top"
                     /\ UNCHANGED <<dropped, halVars, ringVars>>
                     /\ TxFrame

TxVerdictRequeues == /\ tpc = "await"
                     /\ txDone # <<>>
                     /\ txDone' = Tail(txDone)
                     /\ inflight' = FALSE
                     /\ pending' = None
                     /\ ring' = IF Head(txDone) = "OK" THEN ring
                                                      ELSE Append(ring, pending)
                     /\ tpc' = "top"
                     /\ UNCHANGED <<dropped, halVars, next>>
                     /\ TxFrame

\* OK releases the frame; FAIL and ABORT make it ours to submit again.
TxVerdict == /\ tpc = "await"
             /\ txDone # <<>>
             /\ txDone' = Tail(txDone)
             /\ inflight' = FALSE
             /\ pending' = IF Head(txDone) = "OK" THEN None ELSE pending
             /\ tpc' = "top"
             /\ UNCHANGED <<dropped, halVars, ringVars>>
             /\ TxFrame

\* Mutant: submits again when no verdict comes in time.
TxSilenceResubmits == /\ tpc = "await"
                      /\ txDone = <<>>
                      /\ inflight' = FALSE
                      /\ tpc' = "top"
                      /\ UNCHANGED <<pending, dropped, halVars, ringVars, txDone>>
                      /\ TxFrame

\* Silence proves nothing: only the loop head is visited again.
TxSilence == txDone = <<>> /\ TxMove("await", "top")

TxStep == \/ TxPark \/ TxUnpark \/ TxAwait \/ TxResume \/ TxFetch
          \/ TxPop \/ TxPopTimeout \/ TxDrain \/ TxAccepted
          \/ TxListenDrop \/ TxRetain \/ TxDelayOver \/ TxVerdict \/ TxSilence

-----------------------------------------------------------------------------
(* ctrl_task                                                               *)

\* can_tx_task is blocked: parked, backing off, in pcan_rb_pop (which may wait
\* for the ring's mutex even when a frame is there), or without a verdict.
CtrlMayRun == \/ tpc \in {"park", "delay", "pop"}
              \/ tpc = "await" /\ txDone = <<>>

CtrlFrame == UNCHANGED <<txVars, ringVars>>

\* xQueueSend with no wait: a full queue drops the event.
Queue(e) == txDone' = IF Len(txDone) < TxDoneDepth THEN Append(txDone, e)
                                                   ELSE txDone

\* The driver is first installed here, listen-only, before the host asks.
CtrlBoot == /\ cpc = "boot"
            /\ HalStart("listen")
            /\ cpc' = "loop"
            /\ UNCHANGED <<post, quiesce, hostVars, txDone, erased>>
            /\ CtrlFrame

CtrlLoop == /\ cpc = "loop"
            /\ IF flag THEN cpc' = "quiesce" /\ quiesce' = TRUE
                       ELSE cpc' = "service" /\ UNCHANGED quiesce
            /\ UNCHANGED <<post, hostVars, halVars, txDone, erased>>
            /\ CtrlFrame

\* Not both parked in time, be it twai_rx_task alone that is late: the flag
\* stays, the next pass tries again.
CtrlGiveUp == /\ cpc = "quiesce"
              /\ quiesce' = FALSE
              /\ cpc' = "service"
              /\ UNCHANGED <<post, hostVars, halVars, txDone, erased>>
              /\ CtrlFrame

CtrlGranted == /\ cpc = "quiesce"
               /\ tpc = "park"
               /\ flag' = FALSE
               /\ cpc' = "flush"
               /\ UNCHANGED <<post, quiesce, want, commands, halVars, txDone, erased>>
               /\ CtrlFrame

\* Mutant: bus-off is reported to the host only.
CtrlServiceNoAbort ==
    /\ cpc \in {"flush", "service"}
    /\ HalService
    /\ post' = IF Installed THEN TxEvent ELSE <<>>
    /\ cpc' = IF cpc = "flush" THEN "flushPost" ELSE "servicePost"
    /\ UNCHANGED <<quiesce, hostVars, txDone, erased>>
    /\ CtrlFrame

\* ctrl_service_alerts up to the point where it starts to queue events: a TX
\* completion, and after it an ABORT when the bus went off.
CtrlService == /\ cpc \in {"flush", "service"}
               /\ HalService
               /\ post' = IF ~Installed THEN <<>>
                          ELSE TxEvent \o (IF "bus_off" \in alerts
                                           THEN <<"ABORT">> ELSE <<>>)
               /\ cpc' = IF cpc = "flush" THEN "flushPost" ELSE "servicePost"
               /\ UNCHANGED <<quiesce, hostVars, txDone, erased>>
               /\ CtrlFrame

CtrlPost == /\ cpc \in {"flushPost", "servicePost"}
            /\ post # <<>>
            /\ Queue(Head(post))
            /\ post' = Tail(post)
            /\ UNCHANGED <<cpc, quiesce, hostVars, halVars, erased>>
            /\ CtrlFrame

CtrlPosted == /\ cpc \in {"flushPost", "servicePost"}
              /\ post = <<>>
              /\ cpc' = IF cpc = "flushPost" THEN "apply" ELSE "sleep"
              /\ UNCHANGED <<post, quiesce, hostVars, halVars, txDone, erased>>
              /\ CtrlFrame

ModeOf(w) == IF w.silent THEN "listen" ELSE "normal"

\* The snapshot and the driver call it leads to.  What the driver reported
\* since the flush is erased with it.
CtrlApply == /\ cpc = "apply"
             /\ IF want.on THEN HalStart(ModeOf(want)) ELSE HalStop
             /\ erased' = IF CanUninstall /\ "success" \in alerts
                          THEN erased \cup {pending} ELSE erased
             /\ cpc' = "abort"
             /\ UNCHANGED <<post, quiesce, hostVars, txDone>>
             /\ CtrlFrame

\* Mutant: the teardown is not announced.
CtrlNoAbort == /\ cpc = "abort"
               /\ cpc' = "release"
               /\ UNCHANGED <<post, quiesce, hostVars, halVars, txDone, erased>>
               /\ CtrlFrame

\* Queued while can_tx_task is still parked.
CtrlAbort == /\ cpc = "abort"
             /\ Queue("ABORT")
             /\ cpc' = "release"
             /\ UNCHANGED <<post, quiesce, hostVars, halVars, erased>>
             /\ CtrlFrame

CtrlRelease == /\ cpc = "release"
               /\ quiesce' = FALSE
               /\ cpc' = "service"
               /\ UNCHANGED <<post, hostVars, halVars, txDone, erased>>
               /\ CtrlFrame

\* CTRL_PERIOD_MS is no shorter than QUIESCE_POLL_MS: when the delay is over, a
\* released can_tx_task has left quiesce_park.
CtrlWake == /\ cpc = "sleep"
            /\ tpc # "park"
            /\ cpc' = "loop"
            /\ UNCHANGED <<post, quiesce, hostVars, halVars, txDone, erased>>
            /\ CtrlFrame

CtrlStep == /\ CtrlMayRun
            /\ \/ CtrlBoot \/ CtrlWake \/ CtrlLoop \/ CtrlGiveUp \/ CtrlGranted
               \/ CtrlService \/ CtrlPost \/ CtrlPosted
               \/ CtrlApply \/ CtrlAbort \/ CtrlRelease

-----------------------------------------------------------------------------
(* The host, through the USB callbacks                                     *)

\* The next frame enters tx_ring; without room the host is held off.
HostSend == /\ next + 1 \in Frames
            /\ Len(ring) < RingDepth
            /\ ring' = Append(ring, next + 1)
            /\ next' = next + 1
            /\ UNCHANGED <<halVars, txVars, ctrlVars, hostVars, txDone, erased>>

\* A command sets one of the two switches or the bit timing, and raises the
\* flag whether or not anything changes.
HostCommand == /\ commands < MaxCommands
               /\ commands' = commands + 1
               /\ \/ \E b \in BOOLEAN : \/ want' = [want EXCEPT !.on = b]
                                        \/ want' = [want EXCEPT !.silent = b]
                  \/ UNCHANGED want
               /\ flag' = TRUE
               /\ UNCHANGED <<halVars, txVars, ctrlVars, ringVars, txDone, erased>>

DriverStep == /\ DrvStep
              /\ UNCHANGED <<txVars, ctrlVars, hostVars, ringVars, txDone, erased>>

Next == TxStep \/ CtrlStep \/ DriverStep \/ HostSend \/ HostCommand

Spec == Init /\ [][Next]_vars

(* Nothing above the two tasks runs for ever; can_tx_task blocks for ticks *)
(* at a time, so ctrl_task gets the core again and again (SF: its turn     *)
(* comes and goes with can_tx_task's); and the bus gives each attempt an   *)
(* outcome or takes the node off (main.c:393-395).                         *)
FairSpec == Spec /\ WF_vars(TxStep) /\ SF_vars(CtrlStep) /\ WF_vars(DriverStep)
-----------------------------------------------------------------------------
Elements(s) == {s[i] : i \in DOMAIN s}

TypeOK == /\ HalTypeOK
          /\ ring \in Seq(Frames)
          /\ Len(ring) <= RingDepth
          /\ next \in Nat
          /\ pending \in Frames \cup {None}
          /\ inflight \in BOOLEAN
          /\ tpc \in TxPc
          /\ txDone \in Seq(Events)
          /\ Len(txDone) <= TxDoneDepth
          /\ dropped \subseteq Frames
          /\ cpc \in CtrlPc
          /\ post \in Seq(Events)
          /\ quiesce \in BOOLEAN
          /\ want \in Settings
          /\ flag \in BOOLEAN
          /\ commands \in 0..MaxCommands
          /\ erased \subseteq Frames \cup {None}

Done == 1..next \ (Elements(ring) \cup {pending})

(* The ownership rule (main.c:376-389): while the driver holds the frame,  *)
(* it is the pending one, the only one, and no verdict is on its way.      *)
Ownership ==
    txq # <<>> => /\ inflight
                  /\ txq = <<pending>>
                  /\ txDone = <<>>
                  /\ alerts \cap {"success", "failure"} = {}

(* A frame can_tx_task is done with reached the bus, or was discarded      *)
(* because the host had chosen listen-only: no verdict ever releases a     *)
(* frame the driver gave up.                                               *)
NoFrameLost == \A f \in Done : f \in Elements(wire) \/ f \in dropped

(* The bus sees frames in the order the host wrote them.                   *)
BusOrder == \A i, j \in DOMAIN wire : i <= j => wire[i] <= wire[j]

(* One host write is one frame on the wire, unless a teardown erased its   *)
(* completion.                                                             *)
OnWire(f) == {i \in DOMAIN wire : wire[i] = f}
OncePerFrame == \A f \in Frames \ erased :
                   \A i, j \in OnWire(f) : i = j

(* An outstanding frame that the driver no longer holds has its verdict    *)
(* queued or on the way, also when s_tx_done is full: can_tx_task is never *)
(* stranded.                                                               *)
VerdictOnItsWay ==
    inflight /\ txq = <<>> => \/ txDone # <<>>
                             \/ post # <<>>
                             \/ alerts \cap {"success", "failure"} # {}
                             \/ cpc = "abort"

(* An outstanding frame gets its verdict, also when the bus goes off or    *)
(* the host reconfigures the driver while it is in arbitration.            *)
VerdictArrives == inflight ~> ~inflight

(* Once the host leaves the channel in normal mode and the driver is up in *)
(* that mode, every frame it wrote reaches the bus, over any bus-off.      *)
ChannelSettled == /\ want.on /\ ~want.silent /\ ~flag
                  /\ mode = "normal" /\ Installed
Delivered == <>[]ChannelSettled =>
                \A f \in Frames : f <= next ~> f \in Elements(wire) \cup dropped

-----------------------------------------------------------------------------
(* Statements of the comments that the code does not keep                  *)

(* main.c:471: after FAIL or ABORT "the driver discarded its copy, so      *)
(* putting the frame back cannot duplicate it on the wire".                *)
NeverDuplicated == \A f \in Frames : \A i, j \in OnWire(f) : i = j

(* twai_hal.c:274, pcan_proto.h:223: a single-shot frame is not            *)
(* retransmitted; once its attempt failed it is not on offer again.        *)
SingleShotOnce == \A f \in failed : f \notin Elements(txq)
=============================================================================
