---------------------------- MODULE Transactions ----------------------------
(***************************************************************************)
(* Transactions, locks and the log over several runs of the program:       *)
(* transactions of one run after another write to the same log, which is   *)
(* forced by commits, checkpoints and StorageEngine::sync, survives        *)
(* crashes, and is read and perhaps truncated by StorageEngine::recover    *)
(* when the database is opened again.                                      *)
(*                                                                         *)
(* Callers use the methods of TransactionManager, which refuse ids that    *)
(* are not under way.  StorageEngine::txn_put and txn_delete write to the  *)
(* log past it, with any id and without locks: that is in Engine.          *)
(***************************************************************************)
EXTENDS TransactionManager, FiniteSets

CONSTANTS MaxSessions,  \* bound: openings of the database
          MaxFaults     \* bound: flushes that fail

ASSUME SessionAssumption ==
  MaxTxn \in Nat /\ MaxSessions \in Nat /\ MaxFaults \in Nat /\ Txns = 1 .. MaxTxn

VARIABLES pending,      \* history: page writes of transactions that have not ended
          acked,        \* history: page writes whose commit returned Ok and that no
                        \*   recovery has applied yet
          dropped,      \* history: page writes whose transaction was aborted in this
                        \*   run without ever having been asked to commit
          faults        \* history: flushes that have failed

histVars == <<pending, acked, dropped, faults>>

vars == <<lockVars, walVars, txnVars, histVars>>

Init ==
  /\ LockInit /\ WalInit /\ TxnInit
  /\ pending = {} /\ acked = {} /\ dropped = {} /\ faults = 0

\* The page writes of t that no call has ended yet.
PendingOf(t) == {w \in pending : w.txn_id = t}

Fault ==
  /\ faults < MaxFaults
  /\ faults' = faults + 1
  /\ UNCHANGED <<pending, acked, dropped>>

BeginTxn == Begin /\ UNCHANGED histVars

LockPage(t, p, m) == AcquireLock(t, p, m) /\ UNCHANGED histVars

WritePage(t, p) ==
  /\ LogWrite(t, p)
  /\ pending' = pending \cup {Record("PageWrite", t, p)}
  /\ UNCHANGED <<acked, dropped, faults>>

CommitTxn(t) ==
  /\ Commit(t)
  /\ pending' = pending \ PendingOf(t)
  /\ acked' = acked \cup PendingOf(t)
  /\ UNCHANGED <<dropped, faults>>

CommitTxnFails(t) == CommitFails(t) /\ Fault

AbortTxn(t) ==
  /\ Abort(t)
  /\ pending' = pending \ PendingOf(t)
  /\ dropped' = IF active_txns[t] = "Active" THEN dropped \cup PendingOf(t) ELSE dropped
  /\ UNCHANGED <<acked, faults>>

TxnStep ==
  \/ BeginTxn
  \/ \E t \in Txns :
        \/ \E p \in Resources, m \in LockMode : LockPage(t, p, m)
        \/ \E p \in Resources : WritePage(t, p)
        \/ CommitTxn(t) \/ CommitTxnFails(t) \/ AbortTxn(t)

\* StorageEngine::checkpoint, and the part of StorageEngine::sync that is about
\* the log.
EngineStep ==
  /\ \/ (LogCheckpoint \/ Flush) /\ UNCHANGED histVars
     \/ (LogCheckpointFails \/ FlushFails) /\ Fault
  /\ UNCHANGED <<lockVars, txnVars>>

\* What recovery has applied, or what no later recovery can apply, is forgotten.
Open(f, d) ==
  /\ session < MaxSessions
  /\ OpenManager(f, d)
  /\ acked' = IF NeedsRecovery(Readable(f)) THEN {} ELSE acked
  /\ pending' = {} /\ dropped' = {}
  /\ UNCHANGED faults

\* The process ends, and the operating system keeps what it has written.
Exit == Open(log_file, log_durable)

\* The machine crashes.
Crash == \E f \in CrashImages : Open(f, f)

Next == TxnStep \/ EngineStep \/ Exit \/ Crash

Spec == Init /\ [][Next]_vars

-----------------------------------------------------------------------------
\* Type invariant.  The file ends where the next flush will write, or holds part
\* of the buffer beyond that after a failed flush; LSNs are handed out in order.
TxnTypeOK ==
  /\ LockTypeOK
  /\ DOMAIN active_txns \subseteq 1 .. next_txn_id - 1
  /\ \A t \in DOMAIN active_txns : active_txns[t] \in TransactionState \ {"Aborted"}
  /\ next_txn_id \in 1 .. MaxTxn + 1
  /\ Base \in 0 .. Len(log_file) /\ Len(log_file) <= offset
  /\ flushed_lsn < next_lsn /\ next_lsn <= MaxLsn + 1
  /\ DOMAIN txn_last_lsn \subseteq DOMAIN active_txns

\* Strict two-phase locking ends with the transaction: only a transaction the
\* manager still knows holds a lock, also when its commit failed.
NoLockOutlivesTxn == \A t \in Txns : txn_locks[t] # {} => IsActive(t)

\* Durability ("via WAL force on commit"): whatever a crash at this moment leaves
\* of the log, recovery redoes every write of every transaction whose commit
\* returned Ok, and undoes none of them.
CommitIsDurable ==
  \A f \in CrashImages : \A w \in acked :
     LET recs == Readable(f) redo == Redo(recs) undo == Undo(recs) IN
       /\ \E i \in 1 .. Len(redo) : redo[i] = w
       /\ \A i \in 1 .. Len(undo) : undo[i] # w

\* The log as it will be once the buffer is flushed.
WholeLog == Written(write_buffer)

\* Every record up to flushed_lsn that this run has appended is in the durable
\* part of the log, so no crash loses it -- after failed and repeated flushes too.
\* (open also counts what an earlier run wrote and did not sync as flushed.)
FlushedIsDurable ==
  \A i \in 1 .. Len(WholeLog) :
     WholeLog[i].session = session /\ WholeLog[i].lsn <= flushed_lsn =>
        i <= Len(log_durable) /\ log_durable[i] = WholeLog[i]

\* The undo chain: following prev_lsn from any record leads to the record that
\* the same transaction logged just before, and from the first one to 0.  LSNs
\* grow along the log, over all runs of the program that wrote it.  This is about
\* the writes of log_write, which asks for a transaction under way.
UndoChain ==
  LET log == WholeLog IN
  \A i \in 1 .. Len(log) : log[i] # Torn =>
     LET before == {j \in 1 .. i - 1 : log[j].txn_id = log[i].txn_id
                                       /\ log[j].session = log[i].session} IN
       /\ \A j \in 1 .. i - 1 : log[j].lsn < log[i].lsn
       /\ log[i].txn_id # 0 =>
             IF before = {} THEN log[i].prev_lsn = 0
             ELSE \E j \in before : log[i].prev_lsn = log[j].lsn /\ \A k \in before : k <= j

OneSession(recs) == \A i, j \in 1 .. Len(recs) : recs[i].session = recs[j].session

\* "Replay all changes from committed transactions", and of no others: what is
\* redone belongs to a transaction that was itself asked to commit.
NoPhantomRedo ==
  \A f \in CrashImages :
     LET recs == Readable(f) redo == Redo(recs) IN
     \A i \in 1 .. Len(redo) :
        \E j \in 1 .. Len(recs) : /\ recs[j].type = "Commit" /\ recs[j].txn_id = redo[i].txn_id
                                  /\ recs[j].session = redo[i].session

\* "Atomicity: via WAL undo on abort", for recovery only (nothing undoes the writes
\* at the time of the abort): within one run, no crash makes recovery redo a write
\* of a transaction that was aborted.  Out of it is a transaction whose commit failed
\* before it was aborted: its COMMIT record is in the log, in front of the ABORT
\* record, and recovery does redo it.
AbortedStaysOut ==
  \A f \in CrashImages :
     LET recs == Readable(f) IN
     OneSession(recs) => \A i \in 1 .. Len(Redo(recs)) : Redo(recs)[i] \notin dropped

=============================================================================
