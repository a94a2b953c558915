------------------------------- MODULE UsbGlue -------------------------------
(***************************************************************************)
(* usb_glue.c: the bulk endpoints between the host, the TinyUSB task and   *)
(* usb_tx_task.  EP 0x82 IN carries batches to the host, one at a time;    *)
(* EP 0x02 OUT carries CAN frames from it and stays unarmed until every    *)
(* frame of the last transfer is in tx_ring; EP 0x01 OUT carries commands. *)
(*                                                                         *)
(* TinyUSB is external: one queue of events, which its task works off one  *)
(* by one, calling the class driver or a deferred function.  Both tasks    *)
(* share core 0 and TinyUSB's has the higher priority (config.h:59-64), so *)
(* usb_tx_task runs only while TinyUSB's waits: for an event, or for the   *)
(* mutex of tx_ring.  The controller's interrupt queues events anywhere.   *)
(***************************************************************************)
EXTENDS Naturals, Sequences

CONSTANTS QueueLen,     \* events TinyUSB can queue
          RingDepth,    \* slots of tx_ring
          Contention,   \* TRUE: the mutex of tx_ring can keep TinyUSB waiting
          BatchFrames,  \* CAN frames in a transfer on EP2 OUT, at most
          MaxBatch,     \* bound: batches usb_tx_task presents
          MaxTransfers, \* bound: transfers on EP2 OUT
          MaxCommands,  \* bound: transfers on EP1 OUT
          MaxResets,    \* bound: bus resets
          MaxFaults     \* bound: submits and transfers that fail

ASSUME UsbGlueAssumption == /\ QueueLen \in Nat \ {0}
                            /\ RingDepth \in Nat \ {0}
                            /\ Contention \in BOOLEAN
                            /\ BatchFrames \in Nat
                            /\ {MaxBatch, MaxTransfers, MaxCommands} \subseteq Nat
                            /\ {MaxResets, MaxFaults} \subseteq Nat

VARIABLES events,    \* TinyUSB's event queue
          hwIn,      \* the batch in transit on EP2 IN, or 0
          hwOut,     \* EP2 OUT is armed
          hwCmd,     \* EP1 OUT is armed
          outBuf,    \* s_msg_out: the frames of the last transfer
          received,  \* batches the host has received
          budget,    \* resets, faults, transfers and commands so far
          open,      \* s_itf_open
          gen,       \* s_usb_generation
          pend,      \* s_msg_pending from index to count
          msgRearm,  \* s_msg_out_needs_rearm
          cmdRearm,  \* s_cmd_out_needs_rearm
          inState,   \* s_msg_in_state
          inBuf,     \* s_msg_in and s_msg_in_len: the batch retained
          inGen,     \* s_msg_in_generation
          lost,      \* frames counted in tx_pending_reset_drops
          upc,       \* where TinyUSB's task is
          tpc,       \* where usb_tx_task is
          snap,      \* what usb_glue_service has read
          batch,     \* the batch usb_tx_task presents
          sent,      \* frames the host has written, numbered in its order
          ring,      \* tx_ring
          got        \* frames can_tx_task has popped

hwVars   == <<hwIn, hwOut, hwCmd, outBuf, received, budget, sent>>
inVars   == <<inState, inBuf, inGen>>
outVars  == <<pend, msgRearm, cmdRearm, lost>>
taskVars == <<tpc, snap, batch>>
ringVars == <<ring, got>>
vars == <<events, hwVars, open, gen, inVars, outVars, upc, taskVars, ringVars>>

InStates == {"idle", "queued", "submitted", "complete", "retry"}
Kinds == {"reset", "open", "inDone", "outDone", "cmdDone",
          "msgIn", "msgOut", "cmdOut"}

Init == /\ events = <<>>
        /\ hwIn = 0 /\ hwOut = FALSE /\ hwCmd = FALSE
        /\ outBuf = <<>> /\ received = <<>> /\ sent = 0
        /\ budget = [resets |-> 0, faults |-> 0, transfers |-> 0, commands |-> 0]
        /\ open = FALSE /\ gen = 1
        /\ pend = <<>> /\ msgRearm = FALSE /\ cmdRearm = FALSE /\ lost = {}
        /\ inState = "idle" /\ inBuf = 0 /\ inGen = 0
        /\ upc = "idle"
        /\ tpc = "service" /\ snap = [cmd |-> FALSE, msg |-> FALSE, gen |-> 0]
        /\ batch = 1
        /\ ring = <<>> /\ got = <<>>

Elements(s) == {s[i] : i \in DOMAIN s}

Pending(kind) == \E i \in DOMAIN events : events[i][1] = kind

\* The head of the queue, taken by TinyUSB's task.
Takes(kind) == /\ upc = "idle"
               /\ events # <<>>
               /\ Head(events)[1] = kind

Arg == Head(events)[2]

Raises(kind, arg) == events' = Append(events, <<kind, arg>>)

Fault == /\ budget.faults < MaxFaults
         /\ budget' = [budget EXCEPT !.faults = @ + 1]

-----------------------------------------------------------------------------
(* The host and the controller                                             *)

HostReady == open /\ ~Pending("reset")

HostFrame == UNCHANGED <<open, gen, inVars, outVars, upc, taskVars, ringVars>>

\* A bus reset ends every transfer at once; the stack hears of it in turn.
BusReset == /\ budget.resets < MaxResets
            /\ budget' = [budget EXCEPT !.resets = @ + 1]
            /\ hwIn' = 0 /\ hwOut' = FALSE /\ hwCmd' = FALSE
            /\ Raises("reset", 0)
            /\ UNCHANGED <<outBuf, received, sent>>
            /\ HostFrame

Configure == /\ ~open
             /\ ~Pending("reset") /\ ~Pending("open")
             /\ Raises("open", 0)
             /\ UNCHANGED hwVars
             /\ HostFrame

HostReceives == /\ HostReady
                /\ hwIn # 0
                /\ hwIn' = 0
                /\ received' = Append(received, hwIn)
                /\ Raises("inDone", 1)
                /\ UNCHANGED <<hwOut, hwCmd, outBuf, budget, sent>>
                /\ HostFrame

TransferFails == /\ HostReady
                 /\ hwIn # 0
                 /\ Fault
                 /\ hwIn' = 0
                 /\ Raises("inDone", 0)
                 /\ UNCHANGED <<hwOut, hwCmd, outBuf, received, sent>>
                 /\ HostFrame

\* One that is malformed has no frames; 0 marks one that is empty or failed.
HostSends == /\ HostReady
             /\ hwOut
             /\ budget.transfers < MaxTransfers
             /\ budget' = [budget EXCEPT !.transfers = @ + 1]
             /\ \E n \in 0..BatchFrames, success \in 0..1 :
                   /\ success = 0 => n = 0
                   /\ outBuf' = [i \in 1..n |-> sent + i]
                   /\ sent' = sent + n
                   /\ Raises("outDone", success)
             /\ hwOut' = FALSE
             /\ UNCHANGED <<hwIn, hwCmd, received>>
             /\ HostFrame

HostCommands == /\ HostReady
                /\ hwCmd
                /\ budget.commands < MaxCommands
                /\ budget' = [budget EXCEPT !.commands = @ + 1]
                /\ hwCmd' = FALSE
                /\ Raises("cmdDone", 0)
                /\ UNCHANGED <<hwIn, hwOut, outBuf, received, sent>>
                /\ HostFrame

Host == \/ BusReset \/ Configure \/ HostReceives \/ TransferFails
        \/ HostSends \/ HostCommands

-----------------------------------------------------------------------------
(* TinyUSB's task: class driver callbacks and deferred functions           *)

UsbFrame == UNCHANGED <<outBuf, received, sent, taskVars, ringVars>>

Consume == events' = Tail(events)

\* Mutant of DrvReset: the reset releases the batch instead of retaining it.
ResetReleases ==
    /\ Takes("reset")
    /\ Consume
    /\ open' = FALSE
    /\ gen' = gen + 1
    /\ lost' = lost \cup Elements(pend)
    /\ pend' = <<>>
    /\ msgRearm' = FALSE /\ cmdRearm' = FALSE
    /\ inState' = IF inState \in {"queued", "submitted", "retry"}
                  THEN "complete" ELSE inState
    /\ hwIn' = 0 /\ hwOut' = FALSE /\ hwCmd' = FALSE
    /\ UNCHANGED <<inBuf, inGen, upc, budget>>
    /\ UsbFrame

\* pcan_drv_reset
DrvReset == /\ Takes("reset")
            /\ Consume
            /\ open' = FALSE
            /\ gen' = gen + 1
            /\ lost' = lost \cup Elements(pend)
            /\ pend' = <<>>
            /\ msgRearm' = FALSE /\ cmdRearm' = FALSE
            /\ IF inState \in {"queued", "submitted", "retry"}
               THEN inState' = "retry" /\ inGen' = gen + 1
               ELSE UNCHANGED <<inState, inGen>>
            /\ hwIn' = 0 /\ hwOut' = FALSE /\ hwCmd' = FALSE
            /\ UNCHANGED <<inBuf, upc, budget>>
            /\ UsbFrame

\* Mutant of DrvOpen: a batch retained over the reset stays in its session.
OpenKeepsGeneration ==
    /\ Takes("open")
    /\ Consume
    /\ open' = TRUE
    /\ gen' = gen + 1
    /\ pend' = <<>>
    /\ hwCmd' \in BOOLEAN /\ hwOut' \in BOOLEAN
    /\ IF hwCmd' /\ hwOut' THEN UNCHANGED budget ELSE Fault
    /\ cmdRearm' = ~hwCmd' /\ msgRearm' = ~hwOut'
    /\ UNCHANGED <<hwIn, inVars, lost, upc>>
    /\ UsbFrame

\* pcan_drv_open: arms both OUT endpoints, flags the one that is refused.
DrvOpen == /\ Takes("open")
           /\ Consume
           /\ open' = TRUE
           /\ gen' = gen + 1
           /\ pend' = <<>>
           /\ inGen' = IF inState = "retry" THEN gen + 1 ELSE inGen
           /\ hwCmd' \in BOOLEAN /\ hwOut' \in BOOLEAN
           /\ IF hwCmd' /\ hwOut' THEN UNCHANGED budget ELSE Fault
           /\ cmdRearm' = ~hwCmd' /\ msgRearm' = ~hwOut'
           /\ UNCHANGED <<hwIn, inState, inBuf, lost, upc>>
           /\ UsbFrame

\* xfer_cb on EP2 IN: only a success releases the caller's batch.
InDone == /\ Takes("inDone")
          /\ inState' = IF inState # "submitted" THEN inState
                        ELSE IF Arg = 1 THEN "complete" ELSE "retry"
          /\ Consume
          /\ UNCHANGED <<open, gen, inBuf, inGen, outVars, upc, hwIn, hwOut,
                         hwCmd, budget>>
          /\ UsbFrame

\* xfer_cb on EP2 OUT: the frames are retained, the endpoint is not armed.
OutDone == /\ Takes("outDone")
           /\ Consume
           /\ IF Arg = 1
              THEN lost' = lost \cup Elements(pend) /\ pend' = outBuf
              ELSE UNCHANGED <<lost, pend>>
           /\ msgRearm' = TRUE
           /\ UNCHANGED <<open, gen, inVars, cmdRearm, upc, hwIn, hwOut, hwCmd,
                          budget>>
           /\ UsbFrame

\* xfer_cb on EP1 OUT: armed again at once; a refusal is flagged.
CmdDone == /\ Takes("cmdDone")
           /\ Consume
           /\ \/ hwCmd' = TRUE /\ UNCHANGED <<cmdRearm, budget>>
              \/ Fault /\ cmdRearm' = TRUE /\ UNCHANGED hwCmd
           /\ UNCHANGED <<open, gen, inVars, pend, msgRearm, lost, upc, hwIn,
                          hwOut>>
           /\ UsbFrame

Live == open /\ Arg = gen

\* The claim on EP2 IN is given back with the completion.
InBusy == hwIn # 0 \/ Pending("inDone")

\* Mutant of MsgIn: the batch counts as complete when it is submitted.
MsgInCompletes ==
    /\ Takes("msgIn")
    /\ Consume
    /\ IF Live /\ inState = "queued" /\ inGen = gen
       THEN \/ /\ ~InBusy
               /\ hwIn' = inBuf
               /\ inState' = "complete"
               /\ UNCHANGED budget
            \/ /\ IF InBusy THEN UNCHANGED budget ELSE Fault
               /\ inState' = "retry"
               /\ UNCHANGED hwIn
       ELSE UNCHANGED <<hwIn, inState, budget>>
    /\ UNCHANGED <<open, gen, inBuf, inGen, outVars, upc, hwOut, hwCmd>>
    /\ UsbFrame

\* usb_glue_msg_in_deferred: one attempt to submit the retained batch.
MsgIn == /\ Takes("msgIn")
         /\ Consume
         /\ IF Live /\ inState = "queued" /\ inGen = gen
            THEN \/ /\ ~InBusy
                    /\ hwIn' = inBuf
                    /\ inState' = "submitted"
                    /\ UNCHANGED budget
                 \/ /\ IF InBusy THEN UNCHANGED budget ELSE Fault
                    /\ inState' = "retry"
                    /\ UNCHANGED hwIn
            ELSE UNCHANGED <<hwIn, inState, budget>>
         /\ UNCHANGED <<open, gen, inBuf, inGen, outVars, upc, hwOut, hwCmd>>
         /\ UsbFrame

\* usb_glue_msg_out_deferred: frames still pending first, then the endpoint.
MsgOut == /\ Takes("msgOut")
          /\ Consume
          /\ upc' = IF ~(Live /\ msgRearm) THEN "idle"
                    ELSE IF pend # <<>> THEN "push" ELSE "arm"
          /\ UNCHANGED <<open, gen, inVars, outVars, hwIn, hwOut, hwCmd, budget>>
          /\ UsbFrame

InPush == /\ upc = "push"
          /\ UNCHANGED <<events, hwVars, open, gen, inVars, msgRearm, cmdRearm,
                         lost, taskVars, got>>

PushOk == /\ InPush
          /\ Len(ring) < RingDepth
          /\ ring' = Append(ring, Head(pend))
          /\ pend' = Tail(pend)
          /\ upc' = IF Tail(pend) = <<>> THEN "arm" ELSE "push"

\* Mutant of PushRefused: the index advances although nothing was pushed.
RefusedSkips == /\ InPush
                /\ Len(ring) = RingDepth \/ Contention
                /\ upc' = "idle"
                /\ pend' = Tail(pend)
                /\ UNCHANGED ring

\* tx_ring is full, or its mutex timed out: the flag stays set.
PushRefused == /\ InPush
               /\ Len(ring) = RingDepth \/ Contention
               /\ upc' = "idle"
               /\ UNCHANGED <<ring, pend>>

\* Mutant of ArmOut: the flag is cleared before the outcome is known.
ArmOutForgets ==
    /\ upc = "arm"
    /\ msgRearm' = FALSE
    /\ \/ hwOut' = TRUE /\ UNCHANGED budget
       \/ Fault /\ UNCHANGED hwOut
    /\ upc' = "idle"
    /\ UNCHANGED <<events, open, gen, inVars, pend, cmdRearm, lost, hwIn, hwCmd>>
    /\ UsbFrame

\* Only a submit that was accepted clears the flag.
ArmOut == /\ upc = "arm"
          /\ \/ hwOut' = TRUE /\ msgRearm' = FALSE /\ UNCHANGED budget
             \/ Fault /\ UNCHANGED <<hwOut, msgRearm>>
          /\ upc' = "idle"
          /\ UNCHANGED <<events, open, gen, inVars, pend, cmdRearm, lost, hwIn,
                         hwCmd>>
          /\ UsbFrame

\* usb_glue_cmd_out_deferred
CmdOut == /\ Takes("cmdOut")
          /\ Consume
          /\ IF Live /\ cmdRearm
             THEN \/ hwCmd' = TRUE /\ cmdRearm' = FALSE /\ UNCHANGED budget
                  \/ Fault /\ UNCHANGED <<hwCmd, cmdRearm>>
             ELSE UNCHANGED <<hwCmd, cmdRearm, budget>>
          /\ UNCHANGED <<open, gen, inVars, pend, msgRearm, lost, upc, hwIn, hwOut>>
          /\ UsbFrame

Usb == \/ DrvReset \/ DrvOpen \/ InDone \/ OutDone \/ CmdDone
       \/ MsgIn \/ MsgOut \/ PushOk \/ PushRefused \/ ArmOut \/ CmdOut

-----------------------------------------------------------------------------
(* usb_tx_task                                                             *)

UsbTxMayRun == \/ upc = "idle" /\ events = <<>>
               \/ upc = "push" /\ Contention

TaskFrame == /\ UsbTxMayRun
             /\ UNCHANGED <<hwVars, open, gen, outVars, upc, ringVars>>

\* usbd_defer_func: dropped outright when the queue is full.
Defer(kind, g) == events' = IF Len(events) < QueueLen
                            THEN Append(events, <<kind, g>>) ELSE events

\* Mutant of ServiceRead: the flags are consumed when the work is scheduled.
ServiceConsumes ==
    /\ tpc = "service"
    /\ UsbTxMayRun
    /\ snap' = [cmd |-> open /\ cmdRearm, msg |-> open /\ msgRearm, gen |-> gen]
    /\ cmdRearm' = (cmdRearm /\ ~open) /\ msgRearm' = (msgRearm /\ ~open)
    /\ tpc' = "deferCmd"
    /\ UNCHANGED <<events, hwVars, open, gen, inVars, pend, lost, upc, batch,
                   ringVars>>

\* usb_glue_service, up to the end of its critical section.
ServiceRead == /\ tpc = "service"
               /\ snap' = [cmd |-> open /\ cmdRearm, msg |-> open /\ msgRearm,
                           gen |-> gen]
               /\ tpc' = "deferCmd"
               /\ UNCHANGED <<events, batch, inVars>>
               /\ TaskFrame

ServiceCmd == /\ tpc = "deferCmd"
              /\ IF snap.cmd THEN Defer("cmdOut", snap.gen) ELSE UNCHANGED events
              /\ tpc' = "deferMsg"
              /\ UNCHANGED <<snap, batch, inVars>>
              /\ TaskFrame

ServiceMsg == /\ tpc = "deferMsg"
              /\ IF snap.msg THEN Defer("msgOut", snap.gen) ELSE UNCHANGED events
              /\ tpc' = "send"
              /\ UNCHANGED <<snap, batch, inVars>>
              /\ TaskFrame

\* usb_glue_send_msg_batch: the batch on the wire is released.
SendFinished == /\ tpc = "send"
                /\ batch <= MaxBatch
                /\ inState = "complete"
                /\ inState' = "idle" /\ inBuf' = 0
                /\ batch' = batch + 1
                /\ tpc' = "service"
                /\ UNCHANGED <<events, snap, inGen>>
                /\ TaskFrame

\* ... a batch is retained, or one whose transfer failed is scheduled again.
SendSchedules == /\ tpc = "send"
                 /\ batch <= MaxBatch
                 /\ open
                 /\ \/ inState = "idle" /\ inBuf' = batch /\ inGen' = gen
                    \/ inState = "retry" /\ inGen = gen /\ UNCHANGED <<inBuf, inGen>>
                 /\ inState' = "queued"
                 /\ snap' = [snap EXCEPT !.gen = gen]
                 /\ tpc' = "deferIn"
                 /\ UNCHANGED <<events, batch>>
                 /\ TaskFrame

\* ... or there is nothing to do but to come back.
SendWaits == /\ tpc = "send"
             /\ \/ batch > MaxBatch
                \/ inState \in {"queued", "submitted"}
                \/ inState = "idle" /\ ~open
                \/ inState = "retry" /\ ~(open /\ inGen = gen)
             /\ tpc' = "service"
             /\ UNCHANGED <<events, snap, batch, inVars>>
             /\ TaskFrame

SendDefer == /\ tpc = "deferIn"
             /\ Defer("msgIn", snap.gen)
             /\ tpc' = "service"
             /\ UNCHANGED <<snap, batch, inVars>>
             /\ TaskFrame

UsbTx == \/ ServiceRead \/ ServiceCmd \/ ServiceMsg
         \/ SendFinished \/ SendSchedules \/ SendWaits \/ SendDefer

-----------------------------------------------------------------------------
\* can_tx_task takes a frame from tx_ring.
CanPop == /\ ring # <<>>
          /\ got' = Append(got, Head(ring))
          /\ ring' = Tail(ring)
          /\ UNCHANGED <<events, hwVars, open, gen, inVars, outVars, upc, taskVars>>

Next == Host \/ Usb \/ UsbTx \/ CanPop

Spec == Init /\ [][Next]_vars

(* The tasks run, the host enumerates and reads, the CAN side drains; and  *)
(* the mutex of tx_ring does not time out for ever (ringbuf.c:44-47).      *)
FairSpec == /\ Spec
            /\ WF_vars(Usb) /\ SF_vars(PushOk)
            /\ SF_vars(UsbTx)
            /\ WF_vars(Configure) /\ WF_vars(HostReceives)
            /\ WF_vars(CanPop)
-----------------------------------------------------------------------------
(* The host receives every batch once and in order, across resets and      *)
(* failed transfers, and a batch is released only after it arrived         *)
(* (usb_glue.h:84-89).                                                     *)
BatchesOnce == /\ \A i \in DOMAIN received : received[i] = i
               /\ Len(received) \in {batch - 1, batch}

(* Nobody else touches a buffer the controller uses: s_msg_in holds what    *)
(* was submitted, and is known to be in use, until that transfer is over;  *)
(* EP2 OUT is unarmed, and no transfer waits to be handled, while a frame  *)
(* is still pending (the "unreachable" loss of usb_glue.c:213-218).        *)
BuffersOwned == /\ hwIn # 0 => hwIn = inBuf /\ inState = "submitted"
                /\ hwOut \/ Pending("outDone") => pend = <<>>

Arriving == IF Pending("outDone") THEN outBuf ELSE <<>>

(* A frame the host wrote is in exactly one place: on its way to the CAN   *)
(* side, in order, or counted as lost to a reset.                          *)
FramesAccounted ==
    LET path == got \o ring \o pend \o Arriving
    IN  /\ \A i, j \in DOMAIN path : i < j => path[i] < path[j]
        /\ Elements(path) \cup lost = 1..sent
        /\ Elements(path) \cap lost = {}

(* While the interface is open each OUT endpoint is armed, or its transfer *)
(* is being handled, or it is flagged for usb_glue_service: none is ever   *)
(* dead and forgotten, whatever is refused or dropped.                     *)
NotForgotten ==
    HostReady => /\ hwOut \/ Pending("outDone") \/ msgRearm
                 /\ hwCmd \/ Pending("cmdDone") \/ cmdRearm

(* A flagged OUT endpoint is armed again, or the session is over.          *)
OutResumes == /\ msgRearm ~> hwOut \/ ~open
              /\ cmdRearm ~> hwCmd \/ ~open

\* Queued, but the request to submit it is neither on its way nor to come.
Stranded == inState = "queued" /\ ~Pending("msgIn") /\ tpc # "deferIn"

(* Resets and failed transfers end for every batch: each is released after *)
(* it arrived, unless TinyUSB dropped the request to submit it.            *)
BatchArrivesOrStrands ==
    \A b \in 1..MaxBatch : batch = b ~> batch > b \/ Stranded

(* Every batch arrives: DESIGN.md:69-70 "retained and resubmitted until    *)
(* TinyUSB reports the transfer completed".                                *)
BatchArrives == \A b \in 1..MaxBatch : batch = b ~> batch > b
=============================================================================
