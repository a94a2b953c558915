# A TLA+ model of the espcan32 bridge

The firmware under `src/` turns an ESP32-S3 into a PCAN-USB adapter (PCAN mode)
or into a stand-alone ISO-TP/UDS server (bench mode). This directory holds TLA+
modules that model its concurrent and protocol parts, TLC configurations that
check them on small instances, and TLAPS proofs of the results that matter most.

## 1. The system

### Parts, state and operations

| Part | Source | State | Operations |
|---|---|---|---|
| Quiesce handshake | `main.c` 73-83, 211-218, 490-517 | `s_quiesce_seq`, two ack words | park, request, wait, release |
| CAN transmit path | `main.c` 372-482, 611-739 | `pending`, `have_pending`, `inflight`, `s_tx_done` | pop, submit, await verdict, publish verdict, abort |
| TWAI wrapper | `twai_hal.c` | `s_installed`, `s_bitrate`, `s_mode` | start, stop, reconfigure, transmit, receive, status, service alerts |
| Frame rings | `ringbuf.c` | slots, head, tail, two counting semaphores, mutex, drop counter | push, try_push, pop, count, take_dropped |
| Device state | `pcan_cmd.c` | settings, `reconfig_pending`, mutex | handle a command, snapshot, clear |
| USB glue | `usb_glue.c` | session number, retained batch and its state, pending frames, two rearm flags | open, reset, transfer callback, deferred handlers, periodic service |
| USB transmit task | `main.c` 261-370 | the batch being built, the pending flush | drain rx_ring, build a batch, flush, calibrate |
| Message codec | `pcan_msg.c` | a batch under construction | add frame/status/calibration/error, decode a transmit batch |
| Timestamps | `pcan_time.c` | none (reads the microsecond clock) | 16-bit ticks, short and long encodings |
| ISO-TP | `isotp.c` | one sender and one receiver state machine | send, on_can_frame, poll, receive |
| UDS server | `uds.c` | session, security level, transfer, S3 and lock timers | poll, one handler per service |
| Bench loop | `main.c` 815-901 | none of its own | receive, feed ISO-TP, poll ISO-TP, poll UDS |
| Start-up | `main.c` 156-201, 741-797, 913-940 | mode, queues, tasks | select the mode, create everything once |

### How they interact (PCAN mode)

    host --EP2 OUT--> usb_glue --try_push--> tx_ring --pop--> can_tx_task --> TWAI driver --> bus
    host <--EP2 IN--- usb_glue <-- batch --- usb_tx_task <--pop-- rx_ring <--push-- twai_rx_task <-- driver
    host --EP1 OUT--> usb_glue -> pcan_cmd_handle -> s_dev_state --flag--> ctrl_task
    ctrl_task: reads the driver's alerts -> s_evt_queue -> usb_tx_task (error records)
                                         -> s_tx_done   -> can_tx_task (OK, FAIL, ABORT)
               parks twai_rx_task and can_tx_task, then reconfigures the driver

`twai_rx_task` (priority 12), `can_tx_task` (9) and `ctrl_task` (8) share core 1;
TinyUSB (11) and `usb_tx_task` (10) share core 0 (`config.h` 51-78).

### What is hard here

- Two tasks must be out of the driver before it is uninstalled, and the word
  they acknowledge in may be overtaken by the next request (`main.c` 490-517).
- The driver's alerts are destroyed by reading them, and each TX outcome must
  reach exactly one waiting task, across bus-off, recovery and reconfiguration.
- Rings are shared by tasks of both cores; full and empty both have
  `head == tail`; a timed-out mutex must give back what it reserved.
- USB transfers are armed, completed and reset from different contexts.
- ISO-TP and UDS are driven by timers that race the frames they wait for.

`PROJECT.json` lists each hazard at its line with the properties that cover it.

## 2. Modules

| Module | Models | Uses |
|---|---|---|
| `DriverGuard` | the promise: tasks share the driver, a teardown has it alone | |
| `Quiesce` | the handshake, one memory access per step | refines `DriverGuard` |
| `QuiesceProofs` | proofs about `Quiesce` | |
| `TwaiHal` | `twai_hal.c` for the transmit path, over the ESP-IDF driver (external) | |
| `CanTx` | `can_tx_task`, `ctrl_task`, the driver and the host together | `TwaiHal`; the handshake as `Quiesce` establishes it |
| `CanTxProofs` | proofs about `CanTx` and the driver under it | |
| `BoundedFifo` | the promise of the ring | |
| `RingBuf` | `ringbuf.c`, one semaphore call or memory access per step | refines `BoundedFifo` |
| `RingBufProofs` | proofs about `RingBuf` | |
| `UsbGlue` | `usb_glue.c`, TinyUSB's event queue and the host (external), the retry loop of `usb_tx_task` | |
| `UsbGlueProofs` | proofs about `UsbGlue` | |
| `PcanMsg` | `pcan_msg.c` and `pcan_ts_append`: operators that encode a batch and decode a transfer, with the host's decoder and encoder of `test_pcan_msg.c` as the reference | |
| `UsbTx` | `twai_rx_task`, `rx_ring`, the alerts `ctrl_task` posts, `usb_tx_task` and what the host has received | `PcanMsg`; the ring as `RingBuf`, the endpoint as `UsbGlue` establishes it |
| `UsbTxProofs` | proofs about `UsbTx` and the codec under it | |
| `HostPort` | `pcan_cmd_handle`, `s_dev_state`, its use by `ctrl_task`, the rate the driver gets, transfers on EP2 OUT | `PcanMsg`; leave to apply as `Quiesce` grants it |
| `HostPortProofs` | proofs about `HostPort` and the decoder of EP2 OUT | |
| `IsoTp` | `isotp.c`: the sending half of one link, the receiving half of its peer's, the bus between them (external) and the order of the bench task's pass | |
| `IsoTpProofs` | proofs about `IsoTp` | |
| `Uds` | `uds.c`: the server, a tester over a link that loses and refuses messages (external) and an observer of the bus | |
| `UdsProofs` | proofs about `Uds` | |
| `MC*` | bounds and constants for TLC | |

### Quiesce

`seq`, `ack`, `cycle` are the C variables of the same names. A task's location
`pc` has a value for every place at which it can be preempted between sampling
the word and acting on it; `ctrl` does the same for `ctrl_task`. The acks are
read one after the other (`ReadAck`), as the `||` of `main.c` 503 does. The
settings the host asks for (`want`), the pending flag and the settings last
handed to the driver are there because the order clear, snapshot, apply is part
of what makes the protocol right.

A request that timed out stays pending and is made again in the next pass, without
limit (`main.c` 671-676). With a task wedged in the driver, that a parked peer gets
back to work in between rests on timing, not on the protocol: the pass ends with a
delay of `CTRL_PERIOD_MS`, which begins after the release and is no shorter than the
`QUIESCE_POLL_MS` of `quiesce_park`, and the two tasks share `ctrl_task`'s core with
higher priorities (`config.h` 55-78). So whoever was in the park at the release has
woken and has passed the head of its loop before the next pass begins. `due` holds
these tasks and `NextPass` waits for them; without that guard `HandshakeEnds` fails.
Nothing is assumed of a task that is elsewhere.

Ids are only compared with the current one and tested for parity. So that retries
need no bound, `Renumber` lowers them all by two when the word reaches `MaxSeq`; no
code stands for that. In the code the word wraps after 2^31 requests, which keeps
its parity.

### TwaiHal and CanTx

The driver is external: it is installed or not, running, off the bus, recovering
or stopped; it owns a queue of frames; outcomes accumulate as alert bits. What
is assumed of it comes from the comments and error paths of `twai_hal.c` and
`main.c`: uninstalling is refused while recovering (`twai_hal.c` 237-241), recovery
and uninstalling discard the queue without an alert (`main.c` 630-632), a frame
may complete just before the bus goes off (`main.c` 634-635).

`can_tx_task`'s locations are the places where it can block or be overtaken.
`ctrl_task` shares its core and has the lower priority, so `CtrlMayRun` lets it
step only while `can_tx_task` is blocked; the driver's interrupt and the host on
the other core step in anywhere. Its park request appears as what `Quiesce`
establishes: granted once `can_tx_task` is parked, or withdrawn. After a delay of
`CTRL_PERIOD_MS` a released task has left `quiesce_park`, whose polling period is
no longer (`CtrlWake`).

`twai_start` of an installed and stopped driver is assumed to succeed, as ESP-IDF
refuses it only in other states. Were it to fail after a recovery, the code would log
it and leave the channel stopped until the next reconfiguration (`twai_hal.c` 434-440).

Counters, log lines and the LED are left out. Frames are numbered in the order
the host writes them; settings are the two switches a command can set.

### RingBuf

Slots are numbered from 1 (`slots[s - 1]` in C). The producer is
`pcan_rb_push` (`countDrop`) or `pcan_rb_try_push`, the consumer `pcan_rb_pop`, a
third task calls `pcan_rb_take_dropped`. The increment of the drop counter, which
the code does outside the mutex, is a load and a store.

### UsbGlue

`events` is TinyUSB's queue: what the controller reports and what
`usbd_defer_func` adds, worked off one by one. Each callback is one action, for
TinyUSB's task is not preempted by `usb_tx_task`; the one place where it waits is
the mutex of `tx_ring`, and with `Contention` the sender runs there too (`upc` =
"push"). `usb_glue_service` is three steps: what it read under its lock, then one
deferred call each for EP1 and EP2 OUT. `pend` is `s_msg_pending` from the index
to the count, so its head is the frame to push next. The number of a session is
bounded by `MaxResets`. The stack is assumed to report a completed transfer
before a bus reset that follows it, and never to drop what the controller
reports; only deferred calls are dropped, as the comment at `usb_glue.c` 319-326
says of them. `CmdDone` is one step, though `pcan_cmd_handle` may wait for the mutex of `s_dev_state`
(`pcan_cmd.c` 25-33): nothing else of the glue runs in TinyUSB's task meanwhile. The
reply on EP 0x81 and the counters are left out, and so are the
driver's init and deinit, called once before any traffic and never.

### PcanMsg

A batch is a sequence of bytes, each a pair of its role (flag byte, identifier,
tick, data, tag, ...) and its value. Which bits of a byte carry a flag is left out;
how many bytes a record has, in which order, and what a reader makes of them when
it is out of step is what is modelled. The host's side is not invented: `HostDecode`
and `HostEncode` translate `host_decode_*` and `host_encode_tx` of
`src/test/host/test_pcan_msg.c`, which transcribe the Linux driver. `BufSize`, `MaxDlc` and
`ByteMod` scale the 64-byte buffer, the eight data bytes and the byte of a tick, so
that a batch fills after two or three records and both bytes of the tick wrap.

### UsbTx

`rxHand` is the frame in `twai_rx_task`, stamped and not yet pushed; `hand` is what
`usb_tx_task` could not add to the batch before it flushes. `pc` names the places
in the loop; `ret` is the return address of `usb_tx_flush_pending`. `inBatch` is a
history: the records put into the batch with their true times, against which
what the host decodes is compared. `TaskFlushed` may take any time, for the host reads
when it likes, and the clock runs between any two steps. `CtrlService` is the part of
`ctrl_service_alerts` that the host hears of. `TaskPopTimeout` stands for a pop that found
the ring empty; one that could not get the mutex in time leaves the frames where they
are and goes on in the same way.

### HostPort

`st` is `s_dev_state`; `hal` is what `twai_hal.c` remembers and the transceiver's
standby pin. `ctrl_task` clears the flag, takes a snapshot and applies it in three
steps, and a command may come between them. `CtrlApply` may be refused by the driver,
which `refused` remembers. `SettledAsAsked` compares the driver with the history
`asked` of the host's commands, not with `st`. A transfer on EP2 OUT is whole or cut
at any byte. The replies to GET, and `DEVID`, `EXT_VCC` and `ERR_FR`, whose bytes
no code reads again except the reply to `DEVID`, are left out.

### IsoTp

`tx` and `rx` are the `tx_` and `rx_` fields of `isotp_link_t`, each of its own
node. A message is a sequence of pieces, one per frame; `tx.off` and `rx.buf`
count pieces where the code counts bytes. A pass of a task takes one frame if
there is one (`OnFc`, `OnCanFrame`), then polls (`PollTx`, `PollRx`), then collects
(`Collect`), as `bench_task` does. The bus keeps the order of frames, delays each
by at most `MaxDelay` ticks and may lose some; `tx_frame` may fail. With
`ForeignPeer` the receiver is not `isotp.c` alone: instead of granting, another
implementation may answer WAIT any number of times, or OVFLW, which the code
handles but never sends. A broadcast on the functional address may arrive at any
moment: it is a pass of the receiver of its own, so it is ordered freely against the
frames under way without standing among them. `upsets` remembers which of these things have happened, so that a
property can say what it depends on.

Timers are counted in ticks up to their limits. `IsoTpTiming` says that they are
set for the bus: `2 * MaxDelay < NBs`, so a grant comes back in time, and
`2 * MaxDelay + STmin + 1 < NCr`, so a consecutive frame does. The defaults, a
second each against frames and passes of a few milliseconds, meet
both. Without them the properties fail: with `MaxDelay` 2 and `NBs` 3 a late grant is
taken for the answer to the next message, and with `NCr` at the sum `InStep` fails.
A peer that grants after the sender gave up on it is the same case; it is named
`"gaveUp"`. Frames are assumed to be well formed, so the checks of DLC, length
fields and padding are left out, as are N_As and N_Ar, which the code stores but
does not enforce. The bench configuration's default for `wft_max`, 8, is far from the 255
at which the 8-bit count of WAITs would wrap; the model's count does not wrap.

### Uds

`srv` is `uds_server_t` with the file-static `g_` variables of the handlers. A
handler is an operator from the server and a request to the new server, the
session it asks for and the answer; `Handle` is the service table of `main.c`
838-848. `PollIdle` and `PollRequest` are the two ways through `uds_server_poll`:
the lockout ages, then either the session ages or a request is handled,
committed and answered. The answer can be suppressed, taken by the link
(`Taken`) or refused (`Refused`), for good while a long answer is still being sent
(`busy`), or for this frame (`BusFails`). Blocks of a download are numbered; the
counter is the number modulo `BscMod`, and memory sizes are counted in blocks.

The tester keeps one request outstanding, sends a block again until it is
answered, and asks any other service in between. `seen` and `sink` belong to no
part of the system: they are what an observer of the requests and answers counts
(time since the last request, seeds, wrong keys, blocks), so that a property can
compare the server with what was promised on the bus and not with itself. A
restart resets both sides: the lockout does not survive it, as `uds_server_init`
sets it to 0.

Left out: the length and capacity checks, blocks longer than advertised, the
gating by session and `UDS_RESPONSE_PENDING`, which no service of the table uses,
security, reset and transfer requests to the functional address (it would only change which
negative answers are suppressed, `uds.c` 316-333),
the mirrored fields `sec_level` and `sec_seed`, and the count of dropped answers.
Blocks carry data: a first block with none would not be acknowledged when it is
sent again, because `g_xfer_received` is still 0 (`uds.c` 752).

`RestartIsTold` is about the one effect that the code withdraws when its answer is
refused. The comment at `uds.c` 368-369 speaks of all effects; the session change
and the relock before it (361-364) stay, and so do those of the handlers. In the
model this is `Refused`, which keeps everything but the restart.

## 3. Runs

| Run | Question | Result |
|---|---|---|
| `MCQuiesce` | is the teardown ever concurrent with a driver call; is a settings command ever forgotten | no; refines `DriverGuard` |
| | does every request end and every parked task resume, even with a wedged driver and a request that is made again for ever (`HandshakeEnds`) | yes, given the periods and priorities of `config.h` |
| `MCCanTx` | ownership, order, loss and duplication of frames; is the task ever stranded | hold |
| | does every verdict arrive; is every frame delivered once the channel settles | yes |
| `MCCanTxDuplicate` | can a resubmission duplicate a frame (`main.c` 471) | yes: a completion between flush and teardown is erased |
| `MCCanTxSingleShot` | is a failed single-shot frame given up (`pcan_proto.h` 223) | no: it is submitted again |
| `MCRingBuf` | does the ring ever overwrite a frame; is it a FIFO; does the retrying producer lose or repeat a frame | no; yes; no |
| | does every frame offered to it arrive, however often the ring is full or the mutex times out (`AllDelivered`) | yes: no place is lost for ever |
| `MCUsbGlue` | is a batch or frame lost, repeated or overwritten over resets and refusals; is an OUT endpoint forgotten | no; no |
| `MCUsbGlueLive` | is a flagged OUT endpoint armed again although requests are dropped; does every batch whose request is not dropped arrive | yes |
| `MCUsbGlueStall` | does every batch arrive (`DESIGN.md` 69) when a request can be dropped | no: it stays queued for ever |
| `MCUsbTx` | does the host stay in step with every batch and recover every tick; is a frame or error mask lost, repeated or reordered by flushes and refusals; is calibration paced; does everything arrive | yes; no; yes; yes |
| `MCHostPort` | does the controller end up with the last of each setting, whatever the order and timing of the commands; are transfers decoded as sent; are settings applied in the end | yes, unless the driver refused |
| `MCIsoTp` | do messages arrive whole and in order over delays and losses; do both halves agree on blocks; does every bad transfer end and no good one | yes |
| `MCUds` | can a challenge, an unlock, a transfer or the count of wrong keys outlive or escape what limits it; is a block taken twice; does a restart happen untold | no; no; no |

### Bounds

- `MCQuiesce`: two tasks as in the code, one poll before the timeout (the loop body
  and the exit). Both settings can be asked for at any time and any number of
  times, and requests are made again without limit: at `MaxSeq` 6 the ids are renumbered,
  after three cycles (a stale ack needs two, the third shows it dies out).
- `MCCanTx`: three frames (one pending, one behind it, one single-shot), one
  bus-off, three settings commands, one failed attempt, installs that may fail; a
  driver queue of two and a ring of two, so that both can be full. `TxDoneDepth`
  is 2 where the code has 8, so that events are dropped, also while a frame is
  outstanding; the proofs cover every depth.
- `MCRingBuf`: either kind of producer, two slots and five frames, so both indices
  wrap twice.
- `MCUsbGlue`: two batches, so one follows one that failed or was reset; two
  transfers of up to two frames into a ring of one slot, so a transfer stops in
  the middle; a queue of two, so a request can be dropped (TinyUSB's has more
  places, and `usb_tx_task` adds one request per pass while TinyUSB waits up to the
  ring's mutex timeout); one reset and one fault. `MCUsbGlueLive` has two faults (an
  endpoint refused twice). `MCUsbGlueStall` needs only a queue of one.
- `MCUsbTx`: a plain, an extended and a remote frame (which differ most in size), two
  alerts of which one has no mask, a ring of two and an event queue of one, so both
  refuse; a batch of 13 bytes behind its header, so the second or third record makes it
  flush; one coalesced frame per pass; ticks of two digits to the base 2 over four
  ticks, so both digits wrap; calibration due every two ticks. About two minutes.
- `MCHostPort`: four commands, enough for one to come before, between and after the
  clearing and the snapshot; four values of the bit timing registers (two rates that
  are supported or snap down, one that is not supported, one unknown); transfers of
  up to two records of four kinds, between the first command and the second, as the
  two endpoints share no state.
- `MCIsoTp`: two messages of four frames with a single frame between them, in
  blocks of two, so each long one needs two grants and ends in a block that is
  not full; sequence numbers of 3, so they wrap; one WAIT allowed, so the second
  ends the transfer; three faults, so that each message can be hit; two
  broadcasts, one during a reception and one before its frame is collected. A frame
  is under way for up to two ticks, so that frames and grants overlap; `STmin`, `NBs`
  and `NCr` are the smallest that satisfy the two conditions above.
- `MCUds`: a session timeout and a lockout of three ticks and up to two ticks
  between polls, so that a poll can come before, at and after each limit; two
  attempts, so that the first wrong key does not lock; four blocks and a counter
  of three values, so it wraps before the download ends; two messages lost or refused, so that a
  repeated block is lost too; one restart.
- The ring run ends when the frames are used up, hence `CHECK_DEADLOCK FALSE`
  there and nowhere else.

### Fairness

- Every task that is not blocked runs again (weak fairness per task): FreeRTOS
  schedules by priority, and all tasks above block in every pass.
- `ctrl_task` gets strong fairness in `CanTx`, because its turn comes and goes with
  `can_tx_task`'s blocking calls, each of which lasts at least a tick.
- Nothing makes a driver call return in `Quiesce`: the liveness results there hold
  for a wedged driver too. Weak fairness on `ctrl_task` suffices, as `NextPass` stays
  enabled once the tasks that were parked are back at work.
- In `CanTx` the bus gives each attempt an outcome or takes the node off it, the
  assumption stated at `main.c` 393-395.
- In `UsbGlue` the host enumerates again after a reset and reads what is offered,
  TinyUSB works off its queue, and `usb_tx_task` runs again and again when
  TinyUSB waits (strong fairness: its turn comes and goes). The mutex of
  `tx_ring` does not time out for ever, and `can_tx_task` keeps popping. Resets
  and faults are bounded, so they end.
- In `IsoTp` both tasks take their frames and poll, and time passes. Nothing makes
  a foreign receiver grant: it may send WAIT for ever.
- In `UsbTx` the three tasks run and the host keeps reading EP2 IN; frames need not
  come and time need not pass.
- In `HostPort` `ctrl_task` loops (weak fairness) and gets leave again and again: a
  task looks at the request after every driver call, and each lasts at most
  `TWAI_CALL_TIMEOUT_MS` (strong fairness on `CtrlClear`).
- `Uds` needs none: only safety is claimed of it.
- In `RingBuf` the mutex is handed to a waiter (FreeRTOS queues waiters), hence
  strong fairness on taking it.

## 4. Proofs

All proofs hold for every value of the constants.

- `QuiesceProofs`. The inductive invariant `IInv` is needed because `TeardownAlone`
  alone is not preserved: it says that an ack naming the current odd id was
  written by a task that is in the park and will write nothing older
  (`AckIsConsent`), that no ack is ahead of the word and the word is odd exactly
  while a request is out (`SeqDiscipline`), and that what `ctrl_task` read stays
  true (`SeenHolds`). From it follow `TeardownSafe` and the refinement
  `HandshakeGuardsDriver`. `NothingForgotten` shows by itself that no settings
  command is lost. That `Renumber` keeps order and parity of the ids is arithmetic
  (`LoweredOrder`, `LoweredParity`); the proofs hold for every `MaxSeq`.
- `RingBufProofs`. `RingInv` says that the two semaphores and the frames under way
  account for every slot (`TokensConserved`), that head is as far ahead of tail as
  frames are stored (`IndicesAgree`), that the mutex has one holder
  (`LockDiscipline`) and that what was copied still holds when the index moves
  (`CopiesHold`). From it follow `SlotsSafe` and `RingIsFifo`. On top of it: the
  frames received, stored and on offer carry consecutive numbers (`Consecutive`),
  which gives `NothingLostOnRetry`.
- `CanTxProofs`. `OwnerInv` says that what the driver holds, or has completed
  unread, is the pending frame and that no verdict is queued or about to be
  (`VerdictComesFirst`). That is inductive only together with what each task
  knows at each of its places (`TaskDiscipline`, `CtrlDiscipline`) and what the
  driver's state says about its alerts (`DriverAgrees`). From it follow
  `TypeCorrect` and `OwnershipHolds`. On top of it: an OK on its way is about a frame
  that was sent (`OkIsTrue`), which gives `NothingLost`; ring, pending frame and bus
  carry consecutive numbers (`Numbered`), which gives `OrderHolds`; the OK for a
  frame that was sent is the next verdict (`SentIsReported`), which gives
  `SentOnce`; and no event is dropped into an empty queue, which gives `NeverStranded`.
  The driver is the external model of `TwaiHal`: the theorems hold of the code as far
  as ESP-IDF's driver behaves so.
- `UdsProofs`. The promises about silence, challenges and wrong keys are about
  the history of the bus, which the server does not keep; `IInv` adds what it
  keeps instead. Its session timer is the time since the last request
  (`ClockAgrees`), it never holds a challenge that was not issued or is spent
  (`SeedsAgree`), and wrong keys are counted either in `attempts` or, once they
  have reached the limit, in the lockout that is left (`LockoutAgrees`). The proof
  goes handler by handler: all but that of SecurityAccess leave these fields
  alone (`Plain`), and that one moves them as the observer does (`Keys`,
  `KeysAgree`); then along the poll: ageing, commit, refusal, restart. From
  `ServerAgrees` follow `TransferIsGuarded`, `SilenceLocks`, `SeedsAreSpentOnce` and
  `WrongKeysLimited`. Its second half is about blocks. A request or an answer is under way, never both, and what an
  answer tells the tester still holds when it arrives (`InTurn`); an open transfer
  has counted the blocks it took, and the tester is at most one block behind
  (`Counts`, `InOrder`). The number of a block is told from its neighbour's modulo
  the size of the counter (`Stepping`), which needs a size above one: with one,
  every repeated block would pass for the next. This gives `BlocksTakenOnce`. The
  same `InTurn`, and that no handler but that of ECUReset raises the reset flag
  (`HandleResets`), give `RestartsAreTold`.
- `UsbGlueProofs`. `GlueInv` joins what the queue holds to what the flags say:
  at most one completion of a kind waits in it, and none behind a reset
  (`QueueInv`); completions wait only while the interface is open, a request to
  open it only while it is closed (`Interface`); what `s_msg_in_state` says of the
  batch, the endpoint and the batches received (`InSide`); and that a flagged OUT
  endpoint is unarmed with no completion on its way, while frames are pending only
  behind that flag (`OutSide`). Without the queue's part neither `BatchesOnce` nor
  `BuffersOwned` is inductive: a second completion, or one behind a reset, would be
  taken for the batch that follows. This gives `EveryBatchOnce`,
  `BuffersNotShared` and `EndpointsNotForgotten`. On top of it: a transfer that
  failed left no frames (`FailedIsEmpty`), and the frames on their way are numbered
  in their order, each there or lost (`Accounted`), which gives `FramesNotLost`.
  TinyUSB and the host are external: the theorems hold of the code as far as the
  stack works off one queue in order and gives back a claim with its completion.
- `IsoTpProofs`. `LinkInv` holds whatever is lost, delayed, refused, put off or
  broadcast. What is under way is in the order it was sent in (`UnderWay`). A frame
  that calls for a grant is the last one under way, or its answer is, or a foreign
  receiver owes it, and never two of these (`Asking`); while the sender waits its
  timer is behind the age of the question, and at most `MaxDelay` ahead of that of
  the answer (`InTime`), which is where `2 * MaxDelay < NBs` is needed: the sender
  does not give up on a grant that comes. What the receiver holds are pieces of one
  message in their order, so no more of them than the number of the last one
  (`Holding`), and what comes is later still and within the block (`Coming`,
  `Together`). So a message that is complete has no hole, although the sequence
  numbers, which wrap, need not show one: this is `MessagesIntact`. `FlowInv` is what holds
  as long as `upsets` is empty: every piece sent is delivered, held or under way
  (`NoneMissing`, `Trail`), both halves count the same block (`InBlock`) and the same
  sequence number (`Numbers`), and `N_Cr` runs no further than the delay and the
  separation time (`Pace`), where the second condition is needed. It gives
  `BlockKept`, `AllArrive` and `InStep`. The theorems hold for every list of
  messages, block size (none included) and modulus of the sequence numbers.
- `UsbTxProofs`. `TypeOK` and `Ordered`: what the host has, the batch under way, `hand`,
  the ring and `rxHand` are, one behind the other, one sequence of frames whose numbers
  grow; this gives `RecordsInOrder`. A calibration record is in the batch only while it
  is being flushed, and the next is not due before (`CalibAlone`, `Pace`); this gives
  `CalibrationPaced`. `BatchInv` is about the bytes. Its first half is on the records:
  none is older than the last one in the batch (`Sorted`, `Timely`). Its second
  half says that the batch can be read whatever follows it, that the host has then
  understood the records put in, and that the tick it remembers is that of the last
  stamped one (`Open`); the last of these fails between a calibration record and the flush
  behind it, where the others suffice (`Readable`). It is kept record by record: the
  encoder appends bytes that a reader in step takes for this record and no other
  (`FrameAdded`, `ErrorAdded`, `CalibAdded`), and what follows a record does not change
  what was understood of it (`Reading`). This gives `HostInStep` and `TicksRight`, for
  every size of buffer, payload and byte that `PcanMsgAssumption` admits.
  The induction over the records of a batch rests on the well-foundedness of `Nat`
  (`WFMin`), for the library's induction theorems take an operator; the functions that
  encoder and decoder define by recursion are first shown to exist.
- `HostPortProofs`. `SettingsInv`: `s_dev_state` holds the last of each setting
  (`Remembered`), a snapshot agrees with it while no newer command has raised the flag
  (`Taken`), and outside the sequence clear, snapshot, apply, once a setting was asked for,
  with the flag down and no refusal, the driver has what `s_dev_state` holds (`Applied`). With `NearestIs`, that the loop of
  `nearest_supported_bitrate` finds the nearest candidate, this gives `Settled`. `Decoded`
  goes along the records of a transfer: each writes its bytes behind those of the ones before
  it (`EncodedGrows`), the decoder takes exactly the bytes of a record that is there as a
  whole (`ReadsRecord`) and gives up on the first that is not, for good (`StaysBroken`,
  `ReadsAll`).
- Assumptions on constants are the named ASSUMEs of `Quiesce`, `TwaiHal`, `CanTx`,
  `RingBuf`, `UsbGlue`, `Uds`, `IsoTp`, `PcanMsg`, `UsbTx` and `HostPort`; `IsoTpTiming`
  is the only one that says more than what the constants are.

Every safety property of a passing run is proved. Only model-checked are the liveness
properties (`HandshakeEnds`, `VerdictArrives`, `Delivered`, `AllDelivered`, `OutResumes`,
`BatchArrivesOrStrands`, `TransfersEnd`, `AllReach`, `AllApplied`), for TLAPS has no rule for fairness
and does not reason about ENABLED.

### Where documents and code disagree

Three runs expect a violation; each is quoted in `PROJECT.json` under `findings`.
Smaller disagreements, met while modelling and shown by no run:

- Settings refused by a recovering driver are forgotten: the flag is cleared before
  they are applied (`main.c` 680), while `pcan_cmd.h` 55-57 and 82 has it stand until
  they have been. `SettledAsAsked` therefore excepts `refused`.
- `twai_hal.c` 412-414 reports that a bus condition is over "so the host clears its
  bus-error indicator"; `ctrl_service_alerts` posts only masks with a bit
  (`main.c` 615-617), so the host never hears of it.
- Two records of one batch a full turn of the low byte of the tick apart cannot be
  told from two close ones (`pcan_time.c` 20-22); `TicksRight` says `Close`.
- `test_pcan_msg.c` 373-376 lets a calibration record join the batch; `usb_tx_task` sends it
  alone.
- The `ERR_FR` mask is stored and never read.

## 5. Not modelled, and the plan

In this order:

1. An abstract message channel that `IsoTp` implements and `Uds` uses, and both
   composed with the bench loop over `TwaiHal`, where no task starts the recovery
   from bus-off.
2. `QuiesceTimed`: tick timers, to show that `QUIESCE_WAIT_MS` suffices for tasks that
   are not wedged, and to derive the guard of `NextPass` from the periods.

Left out for good: USB descriptors, board files and start-up, which are constant
data or straight-line code; the replies on EP 0x81, the conversion of microseconds
to ticks and the timing macros, which are arithmetic or formatting without state; and the
contents of log lines and statistics.
