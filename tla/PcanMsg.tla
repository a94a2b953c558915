------------------------------- MODULE PcanMsg -------------------------------
(***************************************************************************)
(* pcan_msg.c and pcan_ts_append: the records of a bulk batch.  The device *)
(* encodes frames, status and calibration records for EP2 IN and decodes   *)
(* the host's frames from EP2 OUT.  The host's side is translated from     *)
(* test_pcan_msg.c, which transcribes the Linux driver.                    *)
(*                                                                         *)
(* A byte is a pair <<role, value>>: a reader that finds another role than *)
(* it expects is out of step and gives the batch up.  Sizes are the wire's *)
(* except for the buffer and the payload, which the constants scale, and   *)
(* the two bytes of a tick, which are digits to the base ByteMod.          *)
(***************************************************************************)
EXTENDS Naturals, Sequences

CONSTANTS BufSize,   \* PCAN_USB_TX_BUFFER_SIZE
          MaxDlc,    \* PCAN_FRAME_MAX_DLC
          ByteMod    \* values of a byte of the tick

ASSUME PcanMsgAssumption == /\ MaxDlc \in Nat
                            /\ ByteMod \in Nat \ {0, 1}
                            \* the largest record fits in an empty batch
                            /\ BufSize \in Nat /\ BufSize >= 2 + 1 + 4 + 2 + MaxDlc + 1

HeaderLen == 2
MaxLen    == 15              \* PCAN_USB_STATUSLEN_DLC, the low nibble of SL
WordMod   == ByteMod * ByteMod

(* A frame's shape: [ext, rtr, srr, ss : BOOLEAN, dlc : 0..MaxLen]; the    *)
(* frame adds its id, its data bytes and the tick of its reception.        *)
Saturated(dlc) == IF dlc > MaxDlc THEN MaxDlc ELSE dlc

Repeat(x, n) == [i \in 1..n |-> x]

-----------------------------------------------------------------------------
(* The encoder.  A batch: its bytes behind the header, ts.have_first and   *)
(* rec_cnt.                                                                *)

EmptyBatch == [bytes |-> <<>>, haveFirst |-> FALSE, count |-> 0]

BatchLen(b) == HeaderLen + Len(b.bytes)

TsWidth(b) == IF b.haveFirst THEN 1 ELSE 2

IdBytes(f)   == IF f.ext THEN 4 ELSE 2
DataBytes(f) == IF f.rtr THEN 0 ELSE Saturated(f.dlc)
TagBytes(f)  == IF f.srr /\ ~f.rtr THEN 1 ELSE 0

\* Mutant: the id word is taken to be short.
FrameSizeShortId(b, f) == 3 + TsWidth(b) + DataBytes(f) + TagBytes(f)

FrameSize(b, f) == 1 + IdBytes(f) + TsWidth(b) + DataBytes(f) + TagBytes(f)

StatusSize(b, payload, stamped) ==
    3 + (IF stamped THEN TsWidth(b) ELSE 0) + Len(payload)

Fits(b, size) == BatchLen(b) + size <= BufSize

FrameFits(b, f) == Fits(b, FrameSize(b, f))

StatusFits(b, payload, stamped) ==
    Len(payload) <= MaxLen /\ Fits(b, StatusSize(b, payload, stamped))

ErrorFits(b) == StatusFits(b, <<>>, TRUE)
Low(ts)  == ts % ByteMod
High(ts) == (ts \div ByteMod) % ByteMod

\* Mutant: the high byte of the full tick first.
TsBytesSwapped(b, ts) == IF b.haveFirst THEN << <<"ts", Low(ts)>> >>
                         ELSE << <<"ts", High(ts)>>, <<"ts", Low(ts)>> >>

\* pcan_ts_append: the full tick once per batch, then its low byte only.
TsBytes(b, ts) == IF b.haveFirst THEN << <<"ts", Low(ts)>> >>
                  ELSE << <<"ts", Low(ts)>>, <<"ts", High(ts)>> >>

\* SL, the id word with SRR and AT in its low bits.
FrameHead(f, dlc) ==
    << <<"sl", [internal |-> FALSE, ext |-> f.ext, rtr |-> f.rtr, len |-> dlc]>> >>
    \o Repeat(<<"id", [id |-> f.id, srr |-> f.srr, at |-> f.ss]>>, IdBytes(f))

Put(b, bytes, stamped) == [bytes |-> b.bytes \o bytes,
                           haveFirst |-> b.haveFirst \/ stamped,
                           count |-> b.count + 1]

\* The record of a frame; the trailer only where the host looks for it.
WithFrame(b, f) ==
    Put(b, FrameHead(f, Saturated(f.dlc)) \o TsBytes(b, f.ts)
           \o [i \in 1..DataBytes(f) |-> <<"data", f.data[i]>>]
           \o Repeat(<<"tag", f.writer>>, TagBytes(f)),
        TRUE)

WithStatus(b, func, num, payload, stamped, ts) ==
    Put(b, << <<"sl", [internal |-> TRUE, stamped |-> stamped, len |-> Len(payload)]>>,
              <<"func", func>>, <<"num", num>> >>
           \o (IF stamped THEN TsBytes(b, ts) ELSE <<>>)
           \o [i \in DOMAIN payload |-> <<"data", payload[i]>>],
        stamped)

WithError(b, mask, ts) == WithStatus(b, "ERROR", mask, <<>>, TRUE, ts)

\* The tick is the payload; the record leaves have_first alone.
WithCalib(b, ts) == WithStatus(b, "TS", 0, <<Low(ts), High(ts)>>, FALSE, 0)

-----------------------------------------------------------------------------
(* The host's decoder for EP2 IN.  Its state: the next byte, the tick and  *)
(* the low byte it remembers, whether a stamped record was read, what it   *)
(* has understood, and whether it is still in step.                        *)

HostStart == [pos |-> 1, tick |-> 0, low |-> 0, stamped |-> FALSE,
              seen |-> <<>>, ok |-> TRUE]

\* The n bytes from pos on are there and have this role.
Reads(bytes, pos, n, role) ==
    /\ pos + n - 1 <= Len(bytes)
    /\ \A i \in pos..pos + n - 1 : bytes[i][1] = role

GivesUp(mc) == [mc EXCEPT !.ok = FALSE]

\* host_decode_ts: both bytes once per batch, then a low byte; one smaller
\* than the last means that the high byte went up by one.
HostTs(mc, bytes) ==
    LET two == ~mc.stamped
        lo  == bytes[mc.pos][2]
        up  == IF lo < mc.low THEN 1 ELSE 0
    IN  IF ~Reads(bytes, mc.pos, IF two THEN 2 ELSE 1, "ts") THEN GivesUp(mc)
        ELSE [mc EXCEPT !.tick = IF two THEN lo + ByteMod * bytes[mc.pos + 1][2]
                                 ELSE lo + ByteMod * ((High(mc.tick) + up) % ByteMod),
                        !.low = lo,
                        !.stamped = TRUE,
                        !.pos = @ + (IF two THEN 2 ELSE 1)]

Sees(mc, what) == [mc EXCEPT !.seen = Append(@, what)]

\* host_decode_status: a REC_TS is read in place, and every record is closed
\* by skipping the length that SL gives.
HostStatus(mc, sl, bytes) ==
    LET func == bytes[mc.pos][2]
        num  == bytes[mc.pos + 1][2]
        at2  == [mc EXCEPT !.pos = @ + 2]
        ts   == IF sl.stamped THEN HostTs(at2, bytes) ELSE at2
        tick == bytes[ts.pos][2] + ByteMod * bytes[ts.pos + 1][2]
        close(s) == [s EXCEPT !.pos = @ + sl.len]
    IN  IF ~Reads(bytes, mc.pos, 1, "func") \/ ~Reads(bytes, mc.pos + 1, 1, "num")
           \/ ~ts.ok \/ ~Reads(bytes, ts.pos, sl.len, "data")
        THEN GivesUp(mc)
        ELSE IF func = "TS"
        THEN close(Sees([ts EXCEPT !.tick = tick], <<"calib", tick>>))
        ELSE close(Sees(ts, <<"error", num, ts.tick>>))

\* host_decode_data: no data and no trailer in a remote frame.
HostData(mc, sl, bytes) ==
    LET n    == IF sl.ext THEN 4 ELSE 2
        word == bytes[mc.pos][2]
        ts   == HostTs([mc EXCEPT !.pos = @ + n], bytes)
        size == IF sl.rtr THEN 0 ELSE sl.len
        view == <<"frame", [id |-> word.id, ext |-> sl.ext, rtr |-> sl.rtr,
                            len |-> Saturated(sl.len),
                            data |-> [i \in 1..size |-> bytes[ts.pos + i - 1][2]]],
                  ts.tick>>
        tag  == IF word.srr /\ ~sl.rtr THEN 1 ELSE 0
    IN  IF ~Reads(bytes, mc.pos, n, "id") \/ ~ts.ok
           \/ ~Reads(bytes, ts.pos, size, "data")
           \/ ~Reads(bytes, ts.pos + size, tag, "tag")
        THEN GivesUp(mc)
        ELSE Sees([ts EXCEPT !.pos = @ + size + tag], view)

HostRecord(mc, bytes) ==
    IF ~mc.ok \/ ~Reads(bytes, mc.pos, 1, "sl") THEN GivesUp(mc)
    ELSE LET sl == bytes[mc.pos][2]
             at1 == [mc EXCEPT !.pos = @ + 1]
         IN  IF sl.internal THEN HostStatus(at1, sl, bytes)
                            ELSE HostData(at1, sl, bytes)

\* host_decode_batch: rec_cnt records from the header on.
HostDecode(b) ==
    LET after[i \in 0..b.count] ==
            IF i = 0 THEN HostStart ELSE HostRecord(after[i - 1], b.bytes)
    IN  after[b.count]

\* What it should understand of a frame.
HostView(f) == [id |-> f.id, ext |-> f.ext, rtr |-> f.rtr, len |-> Saturated(f.dlc),
                data |-> [i \in 1..DataBytes(f) |-> f.data[i]]]

-----------------------------------------------------------------------------
(* EP2 OUT: what the host's encoder writes, and pcan_msg_decode_tx.  A     *)
(* record of the host is a frame with the data length code of its caller,  *)
(* or, in a batch no driver sends, a status record: [status |-> n].        *)

IsStatus(r) == "status" \in DOMAIN r

\* Here the trailer follows a remote frame too.
HostRecordBytes(r) ==
    IF IsStatus(r)
    THEN << <<"sl", [internal |-> TRUE, len |-> r.status]>>, <<"func", 0>>, <<"num", 0>> >>
         \o Repeat(<<"data", 0>>, r.status)
    ELSE FrameHead(r, r.dlc)
         \o [i \in 1..DataBytes(r) |-> <<"data", r.data[i]>>]
         \o (IF r.srr THEN << <<"tag", 0>> >> ELSE <<>>)

HostBytes(records) ==
    LET upto[i \in 0..Len(records)] ==
            IF i = 0 THEN <<>> ELSE upto[i - 1] \o HostRecordBytes(records[i])
    IN  upto[Len(records)]

\* host_encode_tx: a full buffer, the transmit counter in its last byte.
HostEncode(records, counter) ==
    LET bytes == HostBytes(records)
    IN  bytes \o Repeat(<<"pad", 0>>, BufSize - HeaderLen - 1 - Len(bytes))
              \o << <<"tail", counter>> >>

Malformed == "malformed"

\* Mutant: a trailer only where the device itself would put one.
TxTagNotRemote(sl, word) == IF word.srr /\ ~sl.rtr THEN 1 ELSE 0

\* The trailer of the host's record.
TxTag(sl, word) == IF word.srr THEN 1 ELSE 0

\* A decoded frame.
TxFrame(sl, word, data, writer) ==
    [id |-> word.id, ext |-> sl.ext, rtr |-> sl.rtr, srr |-> word.srr, ss |-> word.at,
     dlc |-> Saturated(sl.len), data |-> data, writer |-> writer]

TxData(s, sl, bytes, writer) ==
    LET n    == IF sl.ext THEN 4 ELSE 2
        word == bytes[s.pos][2]
        size == IF sl.rtr THEN 0 ELSE Saturated(sl.len)
        data == [i \in 1..size |-> bytes[s.pos + n + i - 1][2]]
        tag  == TxTag(sl, word)
    IN  IF ~Reads(bytes, s.pos, n, "id") \/ ~Reads(bytes, s.pos + n, size, "data")
           \/ ~Reads(bytes, s.pos + n + size, tag, "tag")
        THEN GivesUp(s)
        ELSE [s EXCEPT !.pos = @ + n + size + tag,
                       !.out = Append(@, TxFrame(sl, word, data, writer))]

\* Status records are skipped.
TxRecord(s, bytes, writer) ==
    IF ~s.ok \/ ~Reads(bytes, s.pos, 1, "sl") THEN GivesUp(s)
    ELSE LET sl  == bytes[s.pos][2]
             at1 == [s EXCEPT !.pos = @ + 1]
         IN  IF ~sl.internal THEN TxData(at1, sl, bytes, writer)
             ELSE IF at1.pos + 1 + sl.len <= Len(bytes)
             THEN [at1 EXCEPT !.pos = @ + 2 + sl.len]
             ELSE GivesUp(at1)

\* pcan_msg_decode_tx: count records from the bytes behind the header.  Only a
\* full transfer ends in a transmit counter.
DecodeTx(bytes, count) ==
    LET writer == IF HeaderLen + Len(bytes) >= BufSize
                  THEN bytes[BufSize - HeaderLen][2] ELSE 0
        after[i \in 0..count] ==
            IF i = 0 THEN [pos |-> 1, out |-> <<>>, ok |-> TRUE]
                     ELSE TxRecord(after[i - 1], bytes, writer)
    IN  IF bytes = <<>> \/ ~after[count].ok THEN Malformed ELSE after[count].out
=============================================================================
