-------------------------------- MODULE Wal --------------------------------
(***************************************************************************)
(* The write-ahead log of src/wal: records are appended to a buffer in     *)
(* memory, flush() writes the buffer to the log file and syncs it, and     *)
(* recover() sorts the records it can read into redo and undo actions.     *)
(*                                                                         *)
(* Lengths and offsets count records instead of bytes.  A record stands    *)
(* for its before- and after-image.  Torn is what is left of a record that *)
(* a crash cut short: deserialize returns Err on it, by its length or its  *)
(* checksum, whatever follows it in the file.                              *)
(***************************************************************************)
EXTENDS Naturals, Sequences

CONSTANTS TornWrites,  \* may a crash leave part of a record?
          MaxLsn       \* bound: records appended to one log

ASSUME WalAssumption == TornWrites \in BOOLEAN /\ MaxLsn \in Nat

VARIABLES write_buffer,   \* records appended since the last flush
          log_file,       \* records in the file, as a reader sees them
          log_durable,    \* the file as of the last successful sync
          offset,         \* append position, the buffer included
          next_lsn,
          flushed_lsn,
          txn_last_lsn,   \* txn_id -> lsn of its last record
          session         \* history: how many times the log has been opened

walVars == <<write_buffer, log_file, log_durable, offset, next_lsn, flushed_lsn,
             txn_last_lsn, session>>

Torn == [type |-> "Torn", txn_id |-> 0, page_id |-> 0, lsn |-> 0, prev_lsn |-> 0, session |-> 0]

\* Where the buffer goes when it is flushed: everything before is in the file.
Base == offset - Len(write_buffer)

-----------------------------------------------------------------------------
(* append and flush                                                        *)

PrevLsn(t) == IF t \in DOMAIN txn_last_lsn THEN txn_last_lsn[t] ELSE 0

Record(type, t, p) ==
  [type |-> type, txn_id |-> t, page_id |-> p, lsn |-> next_lsn,
   prev_lsn |-> IF t = 0 THEN 0 ELSE PrevLsn(t), session |-> session]

CanAppend == next_lsn <= MaxLsn

\* The parts of append that every log_* method shares.
NextLsn == next_lsn' = next_lsn + 1 /\ offset' = offset + 1

Remember(t) ==
  txn_last_lsn' = [u \in DOMAIN txn_last_lsn \cup {t} |->
                     IF u = t THEN next_lsn ELSE txn_last_lsn[u]]

Forget(t) ==
  txn_last_lsn' = [u \in DOMAIN txn_last_lsn \ {t} |-> txn_last_lsn[u]]

\* append on its own, as log_begin and log_page_write use it.
AppendRecord(type, t, p) ==
  /\ CanAppend /\ NextLsn
  /\ write_buffer' = Append(write_buffer, Record(type, t, p))
  /\ Remember(t)
  /\ UNCHANGED <<log_file, log_durable, flushed_lsn, session>>

\* Variant of Written: the buffer goes to the end of whatever the file holds.
WrittenAtEnd(buf) == log_file \o buf

\* The file once buf has been written where the write position says.
Written(buf) == SubSeq(log_file, 1, Base) \o buf

\* Variant of FlushedOk: the file is written but not synced.
FlushedUnsynced(buf, lsn) ==
  /\ log_file' = Written(buf)
  /\ write_buffer' = << >>
  /\ flushed_lsn' = lsn
  /\ UNCHANGED log_durable

\* flush succeeds, with buf in the buffer and lsn the last one handed out.
FlushedOk(buf, lsn) ==
  /\ log_file' = Written(buf)
  /\ log_durable' = log_file'
  /\ write_buffer' = << >>
  /\ flushed_lsn' = lsn

\* flush returns Err.  Either the write failed after n records (and, perhaps,
\* part of the next), or before it got beyond what an earlier failed write left
\* there, and the buffer is kept; or the sync failed after the buffer was
\* written and cleared.
FlushFailed(buf) ==
  /\ UNCHANGED <<log_durable, flushed_lsn>>
  /\ \/ \E n \in Len(log_file) - Base .. Len(buf) :
           /\ \/ log_file' = Written(SubSeq(buf, 1, n))
              \/ /\ TornWrites /\ n < Len(buf)
                 /\ log_file' = Written(SubSeq(buf, 1, n)) \o <<Torn>>
           /\ write_buffer' = buf
     \/ UNCHANGED log_file /\ write_buffer' = buf
     \/ log_file' = Written(buf) /\ write_buffer' = << >>

Flush ==
  /\ FlushedOk(write_buffer, next_lsn - 1)
  /\ UNCHANGED <<offset, next_lsn, txn_last_lsn, session>>

FlushFails ==
  /\ FlushFailed(write_buffer)
  /\ UNCHANGED <<offset, next_lsn, txn_last_lsn, session>>

-----------------------------------------------------------------------------
(* log_commit, log_abort, log_checkpoint                                   *)

\* Variant of LogCommit: the commit record is left in the buffer.
LogCommitUnforced(t) ==
  /\ CanAppend /\ NextLsn
  /\ write_buffer' = Append(write_buffer, Record("Commit", t, 0))
  /\ Forget(t)
  /\ UNCHANGED <<log_file, log_durable, flushed_lsn, session>>

\* log_commit forces the log before it returns Ok.
LogCommit(t) ==
  /\ CanAppend /\ NextLsn
  /\ FlushedOk(Append(write_buffer, Record("Commit", t, 0)), next_lsn)
  /\ Forget(t)
  /\ UNCHANGED session

\* When the flush fails, the COMMIT record has been appended all the same.
LogCommitFails(t) ==
  /\ CanAppend /\ NextLsn
  /\ FlushFailed(Append(write_buffer, Record("Commit", t, 0)))
  /\ Remember(t)
  /\ UNCHANGED session

\* The ABORT record waits in the buffer for a later flush.
LogAbort(t) ==
  /\ CanAppend /\ NextLsn
  /\ write_buffer' = Append(write_buffer, Record("Abort", t, 0))
  /\ Forget(t)
  /\ UNCHANGED <<log_file, log_durable, flushed_lsn, session>>

LogCheckpoint ==
  /\ CanAppend /\ NextLsn
  /\ FlushedOk(Append(write_buffer, Record("Checkpoint", 0, 0)), next_lsn)
  /\ UNCHANGED <<txn_last_lsn, session>>

LogCheckpointFails ==
  /\ CanAppend /\ NextLsn
  /\ FlushFailed(Append(write_buffer, Record("Checkpoint", 0, 0)))
  /\ UNCHANGED <<txn_last_lsn, session>>

-----------------------------------------------------------------------------
(* Reading the log: read_all_records and recover                           *)

\* The records before the first one that deserialize refuses.
Readable(f) ==
  LET n == CHOOSE n \in 0 .. Len(f) :
             /\ \A i \in 1 .. n : f[i] # Torn
             /\ n < Len(f) => f[n + 1] = Torn
  IN SubSeq(f, 1, n)

Positions(recs, type, t) ==
  {i \in 1 .. Len(recs) : recs[i].type = type /\ recs[i].txn_id = t}

\* Variant of Committed: a transaction that has ended counts as committed.
CommittedIfEnded(recs, t) ==
  Positions(recs, "Commit", t) \cup Positions(recs, "Abort", t) # {}

Committed(recs, t) == Positions(recs, "Commit", t) # {}

\* In the analysis' `active' set at the end of the log: a BEGIN inserts the
\* transaction and a later COMMIT or ABORT removes it.
InProgress(recs, t) ==
  \E b \in Positions(recs, "Begin", t) :
     \A e \in Positions(recs, "Commit", t) \cup Positions(recs, "Abort", t) : e < b

\* The redo actions, in log order, and the undo actions, which the code lists
\* from the last to the first.
Redo(recs) ==
  LET Is(r) == r.type = "PageWrite" /\ Committed(recs, r.txn_id) IN SelectSeq(recs, Is)

Undo(recs) ==
  LET Is(r) == r.type = "PageWrite" /\ InProgress(recs, r.txn_id)
      fwd == SelectSeq(recs, Is)
  IN [i \in 1 .. Len(fwd) |-> fwd[Len(fwd) + 1 - i]]

-----------------------------------------------------------------------------
(* Crashes, open, truncate                                                 *)

IsPrefixOf(s, f) == Len(s) <= Len(f) /\ SubSeq(f, 1, Len(s)) = s

\* What a crash may leave of the file: nothing that was synced is lost, and
\* of what was written since, any number of records, the last one perhaps torn.
\* A truncation that was not synced may not have happened.
CrashImages ==
  LET kept == IF IsPrefixOf(log_durable, log_file) THEN Len(log_durable) ELSE 0
      whole == {SubSeq(log_file, 1, n) : n \in kept .. Len(log_file)}
      torn == {Append(SubSeq(log_file, 1, n), Torn) :
                 n \in {m \in kept .. Len(log_file) - 1 : log_file[m + 1] # Torn}}
  IN whole \cup (IF TornWrites THEN torn ELSE {})
           \cup (IF IsPrefixOf(log_durable, log_file) THEN {} ELSE {log_durable})

MaxLsnOf(recs) ==
  IF recs = << >> THEN 0
  ELSE CHOOSE m \in {recs[i].lsn : i \in 1 .. Len(recs)} :
         \A i \in 1 .. Len(recs) : recs[i].lsn <= m

\* Variant of OpenLog: numbering starts again, whatever the file holds.
OpenLogFromOne(f) ==
  /\ next_lsn' = 1
  /\ flushed_lsn' = MaxLsnOf(Readable(f))
  /\ write_buffer' = << >>
  /\ txn_last_lsn' = [t \in {} |-> 0]
  /\ session' = session + 1

\* WalManager::open on file f.  What follows the readable records stays there.
OpenLog(f) ==
  /\ next_lsn' = MaxLsnOf(Readable(f)) + 1
  /\ flushed_lsn' = MaxLsnOf(Readable(f))
  /\ write_buffer' = << >>
  /\ txn_last_lsn' = [t \in {} |-> 0]
  /\ session' = session + 1

WalInit ==
  /\ write_buffer = << >> /\ log_file = << >> /\ log_durable = << >>
  /\ offset = 0 /\ next_lsn = 1 /\ flushed_lsn = 0
  /\ txn_last_lsn = [t \in {} |-> 0]
  /\ session = 1

=============================================================================
