-------------------------------- MODULE UsbTx --------------------------------
(***************************************************************************)
(* The way from the bus to the host (main.c): twai_rx_task stamps frames   *)
(* and puts them into rx_ring; ctrl_task turns the driver's alerts into    *)
(* error masks in s_evt_queue; usb_tx_task packs both, with a calibration  *)
(* record from time to time, into batches for EP 0x82 IN.                  *)
(*                                                                         *)
(* rx_ring is the bounded FIFO that module RingBuf implements, and a batch *)
(* presented to usb_glue is received once, at a time of the host's choice, *)
(* which is what module UsbGlue shows; until then usb_tx_task waits.  The  *)
(* three tasks run on two cores and may interleave anywhere; time passes   *)
(* between any two steps.                                                  *)
(***************************************************************************)
EXTENDS PcanMsg

CONSTANTS Shapes,      \* the shapes of the frames on the bus, in their order
          RingDepth,   \* slots of rx_ring (CFG_RB_RX_DEPTH)
          EvtDepth,    \* slots of s_evt_queue (main.c:757)
          MaxDrain,    \* USBTX_MAX_DRAIN
          CalibPeriod, \* PCAN_USB_TS_CALIB_PERIOD_MS, in ticks
          Kinds,       \* the alerts it raises
          MaxAlerts,   \* bound: how many
          MaxTime      \* bound: ticks that pass

Frames == DOMAIN Shapes

ASSUME UsbTxAssumption == /\ Shapes \in Seq([ext : BOOLEAN, rtr : BOOLEAN,
                                             dlc : 0..MaxLen])
                          /\ {RingDepth, EvtDepth, CalibPeriod} \subseteq Nat \ {0}
                          /\ {MaxDrain, MaxAlerts, MaxTime} \subseteq Nat
                          /\ Kinds \subseteq {"RX_QUEUE_FULL", "ABOVE_ERR_WARN",
                                             "ERR_PASS", "BUS_OFF",
                                             "BELOW_ERR_WARN", "BUS_RECOVERED"}

VARIABLES now,       \* ticks since pcan_time_init
          arrived,   \* frames the bus has brought
          rxHand,    \* twai_rx_task: the frame received and stamped, or <<>>
          ring,      \* rx_ring: frames with the time of their reception
          alerts,    \* unread alerts of the driver
          raised,    \* alerts raised so far
          posted,    \* masks posted so far
          evts,      \* s_evt_queue
          pc,        \* where usb_tx_task is
          ret,       \* where it goes on once the batch is with the host
          hand,      \* the frame or mask it could not add yet, or <<>>
          drained,   \* frames coalesced in this pass
          lastCalib, \* last_calib_us
          b,         \* its batch
          inBatch,   \* the records in it, each with its true time
          host,      \* frames and masks the host has had, and the last calibration
          dropped    \* frames rx_ring refused, masks s_evt_queue had no room for

rxVars   == <<arrived, rxHand>>
ctrlVars == <<alerts, raised, posted>>
taskVars == <<pc, ret, hand, drained, lastCalib, b, inBatch>>
vars == <<now, rxVars, ring, ctrlVars, evts, taskVars, host, dropped>>

(* What the driver reports of the bus, and the mask bit of each; the last  *)
(* two say that a condition is over, and have none.                        *)
BitOf == [RX_QUEUE_FULL |-> {"RXQOVR"}, ABOVE_ERR_WARN |-> {"BUS_LIGHT"},
          ERR_PASS |-> {"BUS_HEAVY"}, BUS_OFF |-> {"BUS_OFF"},
          BELOW_ERR_WARN |-> {}, BUS_RECOVERED |-> {}]

\* Frame n received at time t, as pcan_twai_receive delivers it: an echo comes
\* as an ordinary frame.
FrameAt(n, t) == [id |-> n, ext |-> Shapes[n].ext, rtr |-> Shapes[n].rtr,
                  srr |-> FALSE, ss |-> FALSE, dlc |-> Saturated(Shapes[n].dlc),
                  data |-> [i \in 1..MaxDlc |-> <<n, i>>], writer |-> 0,
                  ts |-> t % WordMod]

Init == /\ now = 0
        /\ arrived = 0 /\ rxHand = <<>> /\ ring = <<>>
        /\ alerts = {} /\ raised = 0 /\ posted = <<>> /\ evts = <<>>
        /\ pc = "pop" /\ ret = "pop" /\ hand = <<>> /\ drained = 0
        /\ lastCalib = 0 /\ b = EmptyBatch /\ inBatch = <<>>
        /\ host = [frames |-> <<>>, masks |-> <<>>, calib |-> 0]
        /\ dropped = [frames |-> {}, masks |-> 0]

Tick == /\ now < MaxTime
        /\ now' = now + 1
        /\ UNCHANGED <<rxVars, ring, ctrlVars, evts, taskVars, host, dropped>>

-----------------------------------------------------------------------------
(* twai_rx_task                                                            *)

RxFrame == UNCHANGED <<now, ctrlVars, evts, taskVars, host>>

\* pcan_twai_receive: the tick is read as the frame leaves the driver.
RxStamp == /\ rxHand = <<>>
           /\ arrived + 1 \in Frames
           /\ arrived' = arrived + 1
           /\ rxHand' = <<arrived + 1, now>>
           /\ UNCHANGED <<ring, dropped>>
           /\ RxFrame

\* A full ring refuses the frame, and so does one whose mutex is not free in
\* time; a frame refused is counted.
RxPush == /\ rxHand # <<>>
          /\ \/ /\ Len(ring) < RingDepth
                /\ ring' = Append(ring, rxHand)
                /\ UNCHANGED dropped
             \/ /\ dropped' = [dropped EXCEPT !.frames = @ \cup {rxHand[1]}]
                /\ UNCHANGED ring
          /\ rxHand' = <<>>
          /\ UNCHANGED arrived
          /\ RxFrame

-----------------------------------------------------------------------------
(* The driver and ctrl_task                                                *)

DrvAlert == /\ raised < MaxAlerts
            /\ raised' = raised + 1
            /\ \E a \in Kinds : alerts' = alerts \cup {a}
            /\ UNCHANGED <<now, rxVars, ring, posted, evts, taskVars, host, dropped>>

\* ctrl_service_alerts, as far as the host hears of it: the alerts are read
\* and cleared at once, and a mask without a bit is not posted.
CtrlService ==
    LET mask == UNION {BitOf[a] : a \in alerts}
    IN  /\ alerts # {}
        /\ alerts' = {}
        /\ IF mask = {} THEN UNCHANGED <<evts, posted, dropped>>
           ELSE IF Len(evts) < EvtDepth
           THEN /\ evts' = Append(evts, mask)
                /\ posted' = Append(posted, mask)
                /\ UNCHANGED dropped
           ELSE /\ dropped' = [dropped EXCEPT !.masks = @ + 1]
                /\ UNCHANGED <<evts, posted>>
        /\ UNCHANGED <<now, rxVars, ring, raised, taskVars, host>>

-----------------------------------------------------------------------------
(* usb_tx_task.  pop: at the head of the loop, in pcan_rb_pop; drain: takes *)
(* what else is queued; check: is calibration due; calib, anchored: before  *)
(* and after that record; events: folds the masks in; flush: in             *)
(* usb_tx_flush_pending; add: again what did not fit before the flush.      *)

Pcs == {"pop", "drain", "check", "calib", "anchored", "events", "flush", "add"}

TaskFrame == UNCHANGED <<now, rxVars, ctrlVars, dropped>>

\* Calls usb_tx_flush_pending and goes on at l.
FlushThen(l) == pc' = "flush" /\ ret' = l

Batches(kind, what, at, bytes) ==
    /\ b' = bytes
    /\ inBatch' = Append(inBatch, <<kind, what, at>>)

\* Mutant: what does not fit is dropped with the flush.
TakeFrameOnce(l) ==
    LET f == Head(ring)
    IN  /\ ring # <<>>
        /\ ring' = Tail(ring)
        /\ IF FrameFits(b, FrameAt(f[1], f[2]))
           THEN /\ Batches("frame", f[1], f[2], WithFrame(b, FrameAt(f[1], f[2])))
                /\ pc' = l
                /\ UNCHANGED <<ret, hand>>
           ELSE FlushThen(l) /\ UNCHANGED <<b, inBatch, hand>>

\* Takes a frame from rx_ring; when it does not fit, the batch goes first.
TakeFrame(l) ==
    LET f == Head(ring)
    IN  /\ ring # <<>>
        /\ ring' = Tail(ring)
        /\ IF FrameFits(b, FrameAt(f[1], f[2]))
           THEN /\ Batches("frame", f[1], f[2], WithFrame(b, FrameAt(f[1], f[2])))
                /\ pc' = l
                /\ UNCHANGED <<ret, hand>>
           ELSE /\ FlushThen("add")
                /\ hand' = <<"frame", f[1], f[2]>>
                /\ UNCHANGED <<b, inBatch>>

TaskPop == /\ pc = "pop"
           /\ TakeFrame("drain")
           /\ drained' = 0
           /\ UNCHANGED <<lastCalib, evts, host>>
           /\ TaskFrame

TaskPopTimeout == /\ pc = "pop"
                  /\ ring = <<>>
                  /\ pc' = "check"
                  /\ UNCHANGED <<ret, hand, drained, lastCalib, b, inBatch,
                                 ring, evts, host>>
                  /\ TaskFrame

TaskDrain == /\ pc = "drain"
             /\ drained < MaxDrain
             /\ TakeFrame("drain")
             /\ drained' = drained + 1
             /\ UNCHANGED <<lastCalib, evts, host>>
             /\ TaskFrame

TaskDrained == /\ pc = "drain"
               /\ drained >= MaxDrain \/ ring = <<>>
               /\ pc' = "check"
               /\ UNCHANGED <<ret, hand, drained, lastCalib, b, inBatch,
                              ring, evts, host>>
               /\ TaskFrame

\* The second attempt: a mask is stamped anew.
TaskAdd == /\ pc = "add"
           /\ IF hand[1] = "frame"
              THEN /\ Batches("frame", hand[2], hand[3],
                              WithFrame(b, FrameAt(hand[2], hand[3])))
                   /\ pc' = "drain"
              ELSE /\ Batches("error", hand[2], now, WithError(b, hand[2], now % WordMod))
                   /\ pc' = "events"
           /\ hand' = <<>>
           /\ UNCHANGED <<ret, drained, lastCalib, ring, evts, host>>
           /\ TaskFrame

CalibDue == now - lastCalib >= CalibPeriod

\* What is pending goes first.
TaskCheck == /\ pc = "check"
             /\ IF CalibDue THEN FlushThen("calib")
                            ELSE pc' = "events" /\ UNCHANGED ret
             /\ UNCHANGED <<hand, drained, lastCalib, b, inBatch, ring, evts, host>>
             /\ TaskFrame

\* Mutant: last_calib_us is the time of the record.
TaskCalibPaces == /\ pc = "calib"
                  /\ Batches("calib", 0, now, WithCalib(b, now % WordMod))
                  /\ lastCalib' = now
                  /\ FlushThen("events")
                  /\ UNCHANGED <<hand, drained, ring, evts, host>>
                  /\ TaskFrame

TaskCalib == /\ pc = "calib"
             /\ Batches("calib", 0, now, WithCalib(b, now % WordMod))
             /\ FlushThen("anchored")
             /\ UNCHANGED <<hand, drained, lastCalib, ring, evts, host>>
             /\ TaskFrame

TaskAnchored == /\ pc = "anchored"
                /\ lastCalib' = now
                /\ pc' = "events"
                /\ UNCHANGED <<ret, hand, drained, b, inBatch, ring, evts, host>>
                /\ TaskFrame

TaskEvent == /\ pc = "events"
             /\ evts # <<>>
             /\ evts' = Tail(evts)
             /\ IF ErrorFits(b)
                THEN /\ Batches("error", Head(evts), now,
                                WithError(b, Head(evts), now % WordMod))
                     /\ UNCHANGED <<pc, ret, hand>>
                ELSE /\ FlushThen("add")
                     /\ hand' = <<"error", Head(evts)>>
                     /\ UNCHANGED <<b, inBatch>>
             /\ UNCHANGED <<drained, lastCalib, ring, host>>
             /\ TaskFrame

\* Mutant: what has accumulated waits for a full batch.
TaskEventsDoneHolds == /\ pc = "events"
                       /\ evts = <<>>
                       /\ pc' = "pop"
                       /\ UNCHANGED <<ret, hand, drained, lastCalib, b, inBatch,
                                      ring, evts, host>>
                       /\ TaskFrame

TaskEventsDone == /\ pc = "events"
                  /\ evts = <<>>
                  /\ FlushThen("pop")
                  /\ UNCHANGED <<hand, drained, lastCalib, b, inBatch,
                                 ring, evts, host>>
                  /\ TaskFrame

\* An empty batch is not presented.
TaskNothing == /\ pc = "flush"
               /\ b.count = 0
               /\ pc' = ret
               /\ UNCHANGED <<ret, hand, drained, lastCalib, b, inBatch,
                              ring, evts, host>>
               /\ TaskFrame

\* The records of one kind in the batch.
Batched(kind) ==
    LET upto[i \in 0..Len(inBatch)] ==
            IF i = 0 THEN <<>>
            ELSE IF inBatch[i][1] = kind THEN Append(upto[i - 1], inBatch[i][2])
            ELSE upto[i - 1]
    IN  upto[Len(inBatch)]

\* The batch has reached the host, who reads of it what was put in
\* (HostInStep); only now is it reset.
TaskFlushed ==
    /\ pc = "flush"
    /\ b.count > 0
    /\ host' = [frames |-> host.frames \o Batched("frame"),
                masks  |-> host.masks \o Batched("error"),
                calib  |-> IF Batched("calib") # <<>> THEN now ELSE host.calib]
    /\ b' = EmptyBatch
    /\ inBatch' = <<>>
    /\ pc' = ret
    /\ UNCHANGED <<ret, hand, drained, lastCalib, ring, evts>>
    /\ TaskFrame

TaskStep == \/ TaskPop \/ TaskPopTimeout \/ TaskDrain \/ TaskDrained \/ TaskAdd
            \/ TaskCheck \/ TaskCalib \/ TaskAnchored
            \/ TaskEvent \/ TaskEventsDone \/ TaskNothing \/ TaskFlushed

Next == Tick \/ RxStamp \/ RxPush \/ DrvAlert \/ CtrlService \/ TaskStep

Spec == Init /\ [][Next]_vars

(* The tasks block for ticks at a time and their cores run them; the host  *)
(* keeps asking EP2 IN for data while it is there.                         *)
FairSpec == Spec /\ WF_vars(RxPush) /\ WF_vars(CtrlService) /\ WF_vars(TaskStep)
-----------------------------------------------------------------------------
Elements(s) == {s[i] : i \in DOMAIN s}

(* Every batch stays within its buffer, whichever records came before: the *)
(* size checked (pcan_msg.c:71, 151) is the size written.  And the host    *)
(* stays in step with it: it reads to the last byte, and understands each  *)
(* record as what was put in, in order.                                    *)
Understood(s, r) == /\ s[1] = r[1]
                    /\ r[1] = "frame" => s[2] = HostView(FrameAt(r[2], r[3]))
                    /\ r[1] = "error" => s[2] = r[2]
HostInStep ==
    LET reading == HostDecode(b)
    IN  /\ BatchLen(b) <= BufSize
        /\ reading.ok
        /\ reading.pos = Len(b.bytes) + 1
        /\ Len(reading.seen) = Len(inBatch)
        /\ \A i \in DOMAIN inBatch : Understood(reading.seen[i], inBatch[i])

(* The host recovers the tick of a record exactly, over every wrap of the  *)
(* low byte and of the word (pcan_time.c:82-96), as long as no two records *)
(* before it in its batch are a full turn of the low byte apart.           *)
TickOf(s) == IF s[1] = "calib" THEN s[2] ELSE s[3]
TickRight(i) == TickOf(HostDecode(b).seen[i]) = inBatch[i][3] % WordMod
Close(i) == \A j \in 2..i : inBatch[j][3] < inBatch[j - 1][3] + ByteMod
TicksRight == \A i \in DOMAIN inBatch : Close(i) => TickRight(i)

(* Frames reach the host in the order of the bus, each once, and one that  *)
(* does not is in some queue or hand, or was dropped and counted when      *)
(* rx_ring refused it (main.c:235).  Error masks reach it each once, in    *)
(* the order posted.  No refusal or flush (main.c:311-332, 357-364) loses  *)
(* or repeats a record.                                                    *)
InHand(kind) == IF hand # <<>> /\ hand[1] = kind THEN <<hand[2]>> ELSE <<>>
FramesOnTheWay == host.frames \o Batched("frame") \o InHand("frame")
                  \o [i \in DOMAIN ring |-> ring[i][1]]
                  \o (IF rxHand = <<>> THEN <<>> ELSE <<rxHand[1]>>)
RecordsInOrder ==
    /\ \A i, j \in DOMAIN FramesOnTheWay :
           i < j => FramesOnTheWay[i] < FramesOnTheWay[j]
    /\ Elements(FramesOnTheWay) \cup dropped.frames = 1..arrived
    /\ posted = host.masks \o Batched("error") \o InHand("error") \o evts

(* No burst of calibration after a flush that blocked (main.c:350-352):    *)
(* the host has them at least a period apart.                              *)
CalibrationPaced ==
    [][host'.calib # host.calib => host'.calib >= host.calib + CalibPeriod]_vars

(* Every frame that came in reaches the host or is counted as dropped, and *)
(* every posted mask reaches it: no order of pops, refusals and flushes    *)
(* leaves usb_tx_task with a record it does not send.                      *)
AllReach == []<>(/\ Elements(host.frames) \cup dropped.frames = 1..arrived
                 /\ host.masks = posted)
=============================================================================
