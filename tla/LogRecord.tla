----------------------------- MODULE LogRecord -----------------------------
(***************************************************************************)
(* The bytes of the log file: serialize and deserialize of                 *)
(* src/wal/log_record.rs, and the loop of read_all_records_from_file that  *)
(* reads the file when a database is opened after a crash.                 *)
(*                                                                         *)
(* The fields have the order they have in the file.  The length and the    *)
(* checksum keep their four bytes, the others have one: a header of 14     *)
(* bytes stands for the code's 41.  The checksum is the real one.          *)
(*                                                                         *)
(* Records that were written and not synced may come back from a crash     *)
(* with the end of the file cut off, or with blocks of zeros where the     *)
(* file had been extended and the data had not been written yet.           *)
(***************************************************************************)
EXTENDS Crc32

CONSTANTS Images,      \* before- and after-images, sequences of bytes
          MaxRecords   \* bound: records in the file

\* Every number fits the byte that stands for its field.
ASSUME RecordAssumption ==
  /\ Images \subseteq Seq(Bytes) /\ MaxRecords \in 0 .. 255
  /\ \A before, after \in Images : 15 + Len(before) + Len(after) <= 255

VARIABLES written,   \* history: the records logged, their images and where each one ends
          original,  \* history: the log file as it was written
          log,       \* the bytes of the log file
          phase,     \* "writing", "reading", "stopped" or "panicked"
          pos,       \* how far the reader is
          records    \* what it has read

recordVars == <<written, original, log, phase, pos, records>>

-----------------------------------------------------------------------------
(* Records                                                                 *)

ImageLenSize == 1
ChecksumAt == 4    \* after total_len
BodyAt == 8
RecordHeaderSize == 14

Num == [b \in Bytes |-> CHOOSE n \in 0 .. 255 : Byte(n) = b]

RecordTypes == [Begin |-> 1, Commit |-> 2, Abort |-> 3, PageWrite |-> 4, Checkpoint |-> 5]

\* LogRecordType::from: 6 is a compensation record, which nothing writes.
TypeFrom(n) == IF n \in 1 .. 6 THEN n ELSE 0

NewRecord(lsn, t, prev, type, p, data) ==
  [lsn |-> lsn, txn_id |-> t, prev_lsn |-> prev, record_type |-> type, page_id |-> p,
   data |-> data]

PageWriteData(before, after) == <<Byte(Len(before))>> \o before \o after

CheckpointData(active) ==
  <<Byte(Len(active))>> \o [i \in 1 .. Len(active) |-> Byte(active[i])]

\* The images of a page write, and none of any other record.
PageWriteImages(r) ==
  IF r.record_type # RecordTypes.PageWrite \/ Len(r.data) < ImageLenSize THEN << >>
  ELSE LET n == Num[r.data[1]]
       IN <<SubSeq(r.data, ImageLenSize + 1, ImageLenSize + n),
            SubSeq(r.data, ImageLenSize + n + 1, Len(r.data))>>

-----------------------------------------------------------------------------
(* serialize and deserialize                                               *)

Body(r) ==
  <<Byte(r.lsn), Byte(r.txn_id), Byte(r.prev_lsn), Byte(r.record_type), Byte(r.page_id),
    Byte(Len(r.data))>> \o r.data

ToLeBytes(w) == [i \in 1 .. 4 |-> ByteAt(w, 8 * (i - 1))]

\* to_le_bytes of a length.
LengthBytes(n) ==
  <<Byte(n % 256), Byte((n \div 256) % 256), Byte((n \div 65536) % 256), Byte(n \div 16777216)>>

Serialize(r) ==
  LengthBytes(RecordHeaderSize + Len(r.data)) \o ToLeBytes(Crc32(Body(r))) \o Body(r)

\* buf[from..to] panics unless from <= to <= buf.len().
SliceOk(buf, from, to) == from <= to /\ to <= Len(buf)

Slice(buf, from, to) == SubSeq(buf, from + 1, to)

\* read_u32_le(buf, 0).  What TLC's integers cannot hold is longer than any file.
TotalLen(buf) ==
  IF Num[buf[4]] > 127 THEN 2147483647
  ELSE Num[buf[1]] + 256 * Num[buf[2]] + 65536 * Num[buf[3]] + 16777216 * Num[buf[4]]

Decoded(buf) ==
  LET Field(i) == Num[buf[BodyAt + i]]
  IN NewRecord(Field(1), Field(2), Field(3), TypeFrom(Field(4)), Field(5),
               Slice(buf, RecordHeaderSize, RecordHeaderSize + Field(6)))

\* Variant of FitsBuffer: a record may reach beyond the end of the file.
FitsAnyway(buf, total_len) == TRUE

FitsBuffer(buf, total_len) == total_len <= Len(buf)

\* Variant of ChecksumOk: the checksum is read and not compared.
ChecksumIgnored(buf, total_len) == TRUE

ChecksumOk(buf, total_len) ==
  LittleEndian(buf, ChecksumAt) = Crc32(Slice(buf, BodyAt, total_len))

\* The checks in the order of the code.  A length below 8 does not fail a check: it
\* ends before the body, and the slice over which the checksum is computed panics.
Deserialize(buf) ==
  IF Len(buf) < RecordHeaderSize THEN [result |-> "err"]
  ELSE LET total_len == TotalLen(buf)
           data_len == Num[buf[RecordHeaderSize]]
       IN IF ~FitsBuffer(buf, total_len) THEN [result |-> "err"]
          ELSE IF ~SliceOk(buf, BodyAt, total_len) THEN [result |-> "panic"]
          ELSE IF ~ChecksumOk(buf, total_len) THEN [result |-> "err"]
          ELSE IF ~SliceOk(buf, RecordHeaderSize, RecordHeaderSize + data_len)
               THEN [result |-> "panic"]
          ELSE [result |-> "ok", record |-> Decoded(buf), consumed |-> total_len]

-----------------------------------------------------------------------------
(* Writing the file, a crash, and reading it back                          *)

RecordInit ==
  /\ written = << >> /\ original = << >> /\ log = << >> /\ phase = "writing"
  /\ pos = 0 /\ records = << >>

Log(r, images) ==
  /\ phase = "writing" /\ Len(written) < MaxRecords
  /\ log' = log \o Serialize(r)
  /\ original' = log'
  /\ written' = Append(written, [record |-> r, images |-> images, end |-> Len(log')])
  /\ UNCHANGED <<phase, pos, records>>

\* The records of transaction 1, each with the previous one as its prev_lsn, and
\* checkpoints, which belong to no transaction.
LogRecords ==
  LET lsn == Len(written) + 1
      Mine == {i \in DOMAIN written : written[i].record.txn_id = 1}
      prev == IF Mine = {} THEN 0 ELSE CHOOSE i \in Mine : \A j \in Mine : j <= i
      New(type, p, data) == NewRecord(lsn, 1, prev, type, p, data)
  IN \/ \E type \in {RecordTypes.Begin, RecordTypes.Commit, RecordTypes.Abort} :
           Log(New(type, 0, << >>), << >>)
     \/ \E before, after \in Images :
           Log(New(RecordTypes.PageWrite, 7, PageWriteData(before, after)),
               <<before, after>>)
     \/ \E active \in {<< >>, <<1>>} :
           Log(NewRecord(lsn, 0, 0, RecordTypes.Checkpoint, 0, CheckpointData(active)),
               << >>)

\* The bytes after the first `from', up to `to', are zeros.
ZeroFilled(f, from, to) ==
  [i \in 1 .. Len(f) |-> IF from < i /\ i <= to THEN {} ELSE f[i]]

\* The file is opened after a crash, with its end cut off or with zeros in it.
Reopen ==
  /\ phase = "writing"
  /\ \/ \E n \in 0 .. Len(log) : log' = SubSeq(log, 1, n)
     \/ \E from \in 0 .. Len(log) : \E to \in from .. Len(log) :
           log' = ZeroFilled(log, from, to)
  /\ phase' = "reading"
  /\ UNCHANGED <<written, original, pos, records>>

\* Variant of ReadRecord: the reader moves on by the length of the data.
ReadRecordByData ==
  LET d == Deserialize(Slice(log, pos, Len(log))) IN
  /\ phase = "reading"
  /\ IF pos < Len(log) /\ d.result = "ok"
     THEN /\ records' = Append(records, d.record)
          /\ pos' = pos + Len(d.record.data)
          /\ UNCHANGED phase
     ELSE /\ phase' = IF pos < Len(log) /\ d.result = "panic" THEN "panicked" ELSE "stopped"
          /\ UNCHANGED <<pos, records>>
  /\ UNCHANGED <<written, original, log>>

\* One turn of the loop of read_all_records_from_file.
ReadRecord ==
  LET d == Deserialize(Slice(log, pos, Len(log))) IN
  /\ phase = "reading"
  /\ IF pos < Len(log) /\ d.result = "ok"
     THEN /\ records' = Append(records, d.record)
          /\ pos' = pos + d.consumed
          /\ UNCHANGED phase
     ELSE /\ phase' = IF pos < Len(log) /\ d.result = "panic" THEN "panicked" ELSE "stopped"
          /\ UNCHANGED <<pos, records>>
  /\ UNCHANGED <<written, original, log>>

RecordNext == LogRecords \/ Reopen \/ ReadRecord

RecordSpec == RecordInit /\ [][RecordNext]_recordVars

-----------------------------------------------------------------------------
\* How many records come before the first byte that the crash lost.
WholeRecords ==
  LET Whole(n) == \A i \in 1 .. written[n].end : i <= Len(log) /\ log[i] = original[i]
  IN CHOOSE n \in 0 .. Len(written) :
       /\ n > 0 => Whole(n)
       /\ n < Len(written) => ~Whole(n + 1)

\* What is read back is a prefix of what was logged, every field and both images as
\* they were, and nothing made up of the bytes that follow the damage.  When the loop
\* of read_all_records_from_file stops, it has read every record before the first one
\* that was damaged.  (Where deserialize panics, open returns nothing.)
ReadsWholeRecords ==
  /\ Len(records) <= Len(written)
  /\ \A i \in DOMAIN records :
        /\ records[i] = written[i].record
        /\ PageWriteImages(records[i]) = written[i].images
  /\ phase = "stopped" => Len(records) = WholeRecords

\* A log file that was only cut short, wherever the cut is, is read without a panic of
\* deserialize: the record it cuts is refused by its length.
CutFileIsRead ==
  log = SubSeq(original, 1, Len(log)) => phase # "panicked"

\* "Try to read a record; if corrupted (e.g., torn write), stop": damage ends the loop
\* of read_all_records_from_file, it does not end the program.
StopsAtDamage == phase # "panicked"

\* Slicing by four, with the bytes that remain, computes the CRC of the polynomial, on
\* whatever the log holds and at every length.
SlicedIsBitwise ==
  phase = "writing" =>
    \A n \in 0 .. Len(log) :
       LET data == SubSeq(log, 1, n) IN Crc32(data) = BitwiseCrc(data)

\* The reader's loop ends on every file, damaged or not: a turn that does not stop it
\* takes it further into the file, and never beyond its end.
ReaderAdvances ==
  [][phase = "reading" =>
        \/ phase' # "reading"
        \/ pos' > pos /\ pos' <= Len(log)]_recordVars

=============================================================================
