------------------------ MODULE TransactionManager ------------------------
(***************************************************************************)
(* The transaction manager of src/txn/txn_manager.rs, with the lock        *)
(* manager it owns and the log it is given.  Callers may issue any calls   *)
(* in any order, with any number of transactions under way.  A method that *)
(* returns Err without having changed anything is not a step.              *)
(*                                                                         *)
(* read_set and write_set are left out: nothing in the repository reads    *)
(* the first, and abort only hands the second back to its caller.          *)
(***************************************************************************)
EXTENDS LockManager, Wal

CONSTANT MaxTxn     \* bound: transactions begun between two openings

VARIABLES next_txn_id,
          active_txns   \* txn_id -> its TransactionState

txnVars == <<next_txn_id, active_txns>>

TransactionState == {"Active", "Committed", "Aborted"}

IsActive(t) == t \in DOMAIN active_txns

TxnInit ==
  /\ next_txn_id = 1
  /\ active_txns = [t \in {} |-> "Active"]

SetState(t, s) ==
  active_txns' = [u \in DOMAIN active_txns \cup {t} |-> IF u = t THEN s ELSE active_txns[u]]

Remove(t) ==
  active_txns' = [u \in DOMAIN active_txns \ {t} |-> active_txns[u]]

Begin ==
  /\ next_txn_id <= MaxTxn
  /\ AppendRecord("Begin", next_txn_id, 0)
  /\ SetState(next_txn_id, "Active")
  /\ next_txn_id' = next_txn_id + 1
  /\ UNCHANGED lockVars

\* acquire_read_lock and acquire_write_lock, granted.
AcquireLock(t, p, m) ==
  /\ IsActive(t)
  /\ Acquire(t, p, m)
  /\ UNCHANGED <<txnVars, walVars>>

\* log_write checks neither the lock nor the state of the transaction.
LogWrite(t, p) ==
  /\ IsActive(t)
  /\ AppendRecord("PageWrite", t, p)
  /\ UNCHANGED <<txnVars, lockVars>>

\* Variant of Commit: the locks are kept.
CommitKeepsLocks(t) ==
  /\ IsActive(t) /\ active_txns[t] = "Active"
  /\ LogCommit(t)
  /\ Remove(t)
  /\ UNCHANGED <<next_txn_id, lockVars>>

Commit(t) ==
  /\ IsActive(t) /\ active_txns[t] = "Active"
  /\ LogCommit(t)
  /\ ReleaseAll(t)
  /\ Remove(t)
  /\ UNCHANGED next_txn_id

\* The log could not be forced: commit returns Err, and the transaction stays in
\* the table as Committed, with its locks.
CommitFails(t) ==
  /\ IsActive(t) /\ active_txns[t] = "Active"
  /\ LogCommitFails(t)
  /\ SetState(t, "Committed")
  /\ UNCHANGED <<next_txn_id, lockVars>>

\* abort does not look at the state, so it also ends a transaction whose commit
\* failed.
Abort(t) ==
  /\ IsActive(t)
  /\ LogAbort(t)
  /\ ReleaseAll(t)
  /\ Remove(t)
  /\ UNCHANGED next_txn_id

NeedsRecovery(recs) == Redo(recs) # << >> \/ Undo(recs) # << >>

\* The log f, of which d is known to be durable, is opened, a manager is made, and
\* StorageEngine::recover leaves a log with nothing to redo or undo as it is, or
\* truncates it once the actions have been applied.
OpenManager(f, d) ==
  /\ OpenLog(f)
  /\ lock_table' = [r \in {} |-> {}] /\ txn_locks' = [t \in Txns |-> {}]
  /\ next_txn_id' = 1 /\ active_txns' = [t \in {} |-> "Active"]
  /\ log_durable' = d
  /\ IF NeedsRecovery(Readable(f)) THEN log_file' = << >> /\ offset' = 0
     ELSE log_file' = f /\ offset' = Len(f)

=============================================================================
