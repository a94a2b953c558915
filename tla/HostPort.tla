------------------------------- MODULE HostPort -------------------------------
(***************************************************************************)
(* What the host writes, and what becomes of it: commands on EP1 OUT go to *)
(* pcan_cmd_handle, which keeps the settings in s_dev_state; ctrl_task     *)
(* applies them to the CAN driver (main.c, twai_hal.c); transfers on EP2   *)
(* OUT are decoded into frames.                                            *)
(*                                                                         *)
(* TinyUSB's task runs on core 0, ctrl_task on core 1.  The mutex of       *)
(* s_dev_state makes each command, each snapshot and each clearing of      *)
(* reconfig_pending one step.  Module Quiesce shows how ctrl_task comes to *)
(* be allowed to apply settings, and module UsbGlue what follows a decoded *)
(* transfer; here ctrl_task is granted leave or not, and the driver takes  *)
(* the settings or not.  What DEVID, EXT_VCC and ERR_FR store is read by   *)
(* nothing but the reply to DEVID; REGISTER and SN store nothing.          *)
(***************************************************************************)
EXTENDS PcanMsg

CONSTANTS Btrs,        \* the values of the bit timing registers the host sends
          Records,     \* the records it puts into a transfer
          MaxRecords,  \* bound: records in a transfer
          MaxCommands  \* bound: commands

\* A record of a transfer: a status record, or a frame.
ASSUME HostPortAssumption ==
    /\ {MaxRecords, MaxCommands} \subseteq Nat
    /\ \A r \in Records : IF IsStatus(r) THEN r.status \in 0..MaxLen
                         ELSE /\ {r.ext, r.rtr, r.srr, r.ss} \subseteq BOOLEAN
                              /\ r.dlc \in 0..MaxLen

\* PCAN_BTR_TABLE_INIT, in kbit/s, by BTR0 and BTR1.
BtrTable == [x0014 |-> 1000, x0016 |-> 800, x001C |-> 500, x011C |-> 250,
             x031C |-> 125, x432F |-> 100, x472F |-> 50, x532F |-> 20,
             x672F |-> 10, x7F7F |-> 5]

SupportedBitrates == <<1000, 500, 250, 125, 100, 50>>
DefaultBitrate    == 500

VARIABLES st,       \* s_dev_state
          asked,    \* the commands so far, in order
          cpc,      \* where ctrl_task is
          snap,     \* what pcan_cmd_snapshot gave it
          lit,      \* the status LED
          hal,      \* s_installed, s_bitrate, s_mode and the transceiver's pin
          refused,  \* the driver refused the settings applied last
          transfer  \* the transfer on EP2 OUT, not yet decoded

devVars  == <<st, asked>>
ctrlVars == <<cpc, snap, lit, hal, refused>>
vars == <<devVars, ctrlVars, transfer>>

NoTransfer == [records |-> <<>>, bytes |-> <<>>]

\* pcan_cmd_init; ctrl_task has brought the driver up, listening.
Init == /\ st = [bitrate |-> DefaultBitrate, busOn |-> FALSE, silent |-> FALSE,
                 led |-> FALSE, pending |-> FALSE]
        /\ asked = <<>>
        /\ cpc = "loop"
        /\ snap = st
        /\ lit = FALSE
        /\ hal = [installed |-> TRUE, bitrate |-> DefaultBitrate, mode |-> "listen",
                  standby |-> FALSE]
        /\ refused = FALSE
        /\ transfer = NoTransfer

-----------------------------------------------------------------------------
(* pcan_cmd_handle                                                         *)

\* pcan_twai_btr_to_bitrate: 0 for a value that is not in the table.
BtrToBitrate(btr) == IF btr \in DOMAIN BtrTable THEN BtrTable[btr] ELSE 0

\* Bound: not while a transfer waits, see HostSends.
Command(kind, arg) == /\ Len(asked) < MaxCommands
                      /\ transfer = NoTransfer
                      /\ asked' = Append(asked, <<kind, arg>>)
                      /\ UNCHANGED <<ctrlVars, transfer>>

\* An unknown value is acknowledged, and the rate before it stays.
CmdBitrate == \E btr \in Btrs :
    /\ Command("BITRATE", btr)
    /\ st' = [st EXCEPT !.bitrate = IF BtrToBitrate(btr) # 0 THEN BtrToBitrate(btr) ELSE @,
                        !.pending = TRUE]

CmdXcver == \E on \in BOOLEAN :
    /\ Command("XCVER", on)
    /\ st' = [st EXCEPT !.busOn = on, !.pending = TRUE]

CmdSilent == \E silent \in BOOLEAN :
    /\ Command("SILENT", silent)
    /\ st' = [st EXCEPT !.silent = silent, !.pending = TRUE]

CmdLed == \E on \in BOOLEAN :
    /\ Command("LED", on)
    /\ st' = [st EXCEPT !.led = on]

-----------------------------------------------------------------------------
(* twai_hal.c: the settings the driver gets                                *)

Distance(a, c) == IF a > c THEN a - c ELSE c - a

\* nearest_supported_bitrate: the loop over the candidates.
NearestSupported(rate) ==
    LET best[i \in 1..Len(SupportedBitrates)] ==
            IF i = 1 \/ Distance(rate, SupportedBitrates[i]) < Distance(rate, best[i - 1])
            THEN SupportedBitrates[i] ELSE best[i - 1]
    IN  best[Len(SupportedBitrates)]

\* pcan_twai_stop: a refusal leaves everything.
Stopped == [hal EXCEPT !.installed = FALSE, !.standby = TRUE]

\* pcan_twai_reconfigure: stop, install, start.
Started(rate, mode) == [installed |-> TRUE, bitrate |-> NearestSupported(rate),
                        mode |-> mode, standby |-> FALSE]

-----------------------------------------------------------------------------
(* ctrl_task: loop, cleared (the flag), snapped, led (past the settings)   *)

CtrlFrame == UNCHANGED <<devVars, transfer>>

\* The tasks are parked: from here on a command raises the flag anew.
CtrlClear == /\ cpc = "loop"
             /\ st.pending
             /\ st' = [st EXCEPT !.pending = FALSE]
             /\ cpc' = "cleared"
             /\ UNCHANGED <<asked, snap, lit, hal, refused, transfer>>

\* Nothing to apply, or no leave: the flag stays.
CtrlPass == /\ cpc = "loop"
            /\ cpc' = "led"
            /\ UNCHANGED <<snap, lit, hal, refused>>
            /\ CtrlFrame

CtrlSnapshot == /\ cpc = "cleared"
                /\ snap' = st
                /\ cpc' = "snapped"
                /\ UNCHANGED <<lit, hal, refused>>
                /\ CtrlFrame

ModeOf(s) == IF s.silent THEN "listen" ELSE "normal"

\* Mutant: the flag is cleared once the settings are applied.
CtrlApplyClears == /\ cpc = "snapped"
                   /\ hal' = IF snap.busOn THEN Started(snap.bitrate, ModeOf(snap))
                                           ELSE Stopped
                   /\ refused' = FALSE
                   /\ st' = [st EXCEPT !.pending = FALSE]
                   /\ cpc' = "led"
                   /\ UNCHANGED <<asked, snap, lit, transfer>>

\* The driver takes the settings; or it does not let itself be stopped, or
\* not installed again.
CtrlApply == /\ cpc = "snapped"
             /\ \/ /\ hal' = IF snap.busOn THEN Started(snap.bitrate, ModeOf(snap))
                                           ELSE Stopped
                   /\ refused' = FALSE
                \/ /\ hal.installed
                   /\ refused' = TRUE
                   /\ UNCHANGED hal
                \/ /\ snap.busOn
                   /\ hal' = Stopped
                   /\ refused' = TRUE
             /\ cpc' = "led"
             /\ UNCHANGED <<snap, lit>>
             /\ CtrlFrame

\* Mutant: the LED follows a reconfiguration.
CtrlLedSnapped == /\ cpc = "led"
                  /\ lit' = snap.led
                  /\ cpc' = "loop"
                  /\ UNCHANGED <<snap, hal, refused>>
                  /\ CtrlFrame

CtrlLed == /\ cpc = "led"
           /\ lit' = st.led
           /\ cpc' = "loop"
           /\ UNCHANGED <<snap, hal, refused>>
           /\ CtrlFrame

CtrlStep == CtrlPass \/ CtrlSnapshot \/ CtrlApply \/ CtrlLed

-----------------------------------------------------------------------------
(* EP2 OUT                                                                 *)

RecordLists == UNION {[1..n -> Records] : n \in 0..MaxRecords}

\* A full transfer, or one cut short.  Bound: transfers come between the
\* first command and the second, as decoding reads nothing a command writes.
HostSends == /\ transfer = NoTransfer
             /\ st.busOn
             /\ Len(asked) = 1
             /\ \E records \in RecordLists :
                   LET full == HostEncode(records, 1)
                   IN  /\ Len(full) = BufSize - HeaderLen
                       /\ \E n \in {Len(full)} \cup 0..Len(HostBytes(records)) :
                             transfer' = [records |-> records,
                                          bytes |-> SubSeq(full, 1, n)]
             /\ UNCHANGED <<devVars, ctrlVars>>

\* usb_glue_handle_msg: what it decodes becomes s_msg_pending (see UsbGlue).
DevReceives == /\ transfer # NoTransfer
               /\ transfer' = NoTransfer
               /\ UNCHANGED <<devVars, ctrlVars>>

Next == \/ CmdBitrate \/ CmdXcver \/ CmdSilent \/ CmdLed
        \/ CtrlClear \/ CtrlStep \/ HostSends \/ DevReceives

Spec == Init /\ [][Next]_vars

(* ctrl_task loops, and is granted leave again and again: the tasks look   *)
(* at the request every TWAI_CALL_TIMEOUT_MS (main.c:497-502).             *)
FairSpec == Spec /\ WF_vars(CtrlStep) /\ SF_vars(CtrlClear)
-----------------------------------------------------------------------------
(* When ctrl_task has caught up, and the driver did not refuse, the        *)
(* controller runs with the last of each setting the host sent, whatever   *)
(* their order and whatever arrived while ctrl_task was applying earlier   *)
(* ones (main.c:680, DESIGN.md section 4): at the nearest rate it supports *)
(* to the last one it knows.                                               *)
LastOf(kind, default, Counts(_)) ==
    LET at == {i \in DOMAIN asked : asked[i][1] = kind /\ Counts(asked[i][2])}
    IN  IF at = {} THEN default
        ELSE asked[CHOOSE i \in at : \A j \in at : j <= i][2]

Supported == {SupportedBitrates[i] : i \in DOMAIN SupportedBitrates}
Known(btr) == btr \in DOMAIN BtrTable
Always(arg) == TRUE

SettledAsAsked ==
    LET rate == BtrTable[LastOf("BITRATE", "x001C", Known)]
    IN  cpc = "loop" /\ ~st.pending /\ ~refused
        /\ (\E i \in DOMAIN asked : asked[i][1] # "LED")
        => /\ hal.installed = LastOf("XCVER", FALSE, Always)
           /\ hal.standby = ~hal.installed
           /\ hal.installed =>
                 /\ hal.mode = IF LastOf("SILENT", FALSE, Always) THEN "listen" ELSE "normal"
                 /\ hal.bitrate \in Supported
                 /\ \A r \in Supported : Distance(hal.bitrate, rate) <= Distance(r, rate)

(* pcan_msg_decode_tx gets out of a transfer the frames the host put in,   *)
(* and nothing out of one that is cut inside a record.                     *)
Expected(r, writer) ==
    [id |-> r.id, ext |-> r.ext, rtr |-> r.rtr, srr |-> r.srr, ss |-> r.ss,
     dlc |-> Saturated(r.dlc), data |-> [i \in 1..DataBytes(r) |-> r.data[i]],
     writer |-> writer]

FramesOf(records, writer) ==
    LET upto[i \in 0..Len(records)] ==
            IF i = 0 THEN <<>>
            ELSE IF IsStatus(records[i]) THEN upto[i - 1]
            ELSE Append(upto[i - 1], Expected(records[i], writer))
    IN  upto[Len(records)]

TransfersDecoded ==
    LET records == transfer.records
        n       == Len(transfer.bytes)
        writer  == IF n = BufSize - HeaderLen THEN 1 ELSE 0
    IN  DecodeTx(transfer.bytes, Len(records)) =
           IF n = 0 \/ n < Len(HostBytes(records)) THEN Malformed
           ELSE FramesOf(records, writer)

(* Settings and the LED are applied once the host leaves them alone.       *)
AllApplied == []<>(~st.pending /\ lit = st.led)
=============================================================================
