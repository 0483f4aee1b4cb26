------------------------- MODULE TransactionsProofs -------------------------
(***************************************************************************)
(* A proof about the whole of Transactions, for any numbers of             *)
(* transactions, records, runs and failed flushes: locks are held by       *)
(* transactions the manager still knows, and by no others.  It rests on    *)
(* the lemmas about the lock manager alone, which is part of the state.    *)
(***************************************************************************)
EXTENDS Transactions, LockManagerProofs

\* What the log and the history do is left out: no lock depends on it.
TxnInv == LockInv /\ NoLockOutlivesTxn

\* A step that leaves locks alone and forgets no transaction.
LEMMA LocksAlone ==
  ASSUME TxnInv, UNCHANGED lockVars, DOMAIN active_txns \subseteq DOMAIN active_txns'
  PROVE  TxnInv'
<1>1. lock_table' = lock_table /\ txn_locks' = txn_locks
  BY DEF lockVars
<1>2. LockInv'
  BY <1>1 DEF TxnInv, LockInv, LockTypeOK, TablesAgree, ExclusiveIsAlone, Holds, EntryOf
<1>3. NoLockOutlivesTxn'
  BY <1>1 DEF TxnInv, NoLockOutlivesTxn, IsActive
<1> QED BY <1>2, <1>3 DEF TxnInv

\* commit and abort: a transaction leaves the table with all its locks.
LEMMA EndsWithLocks ==
  ASSUME TxnInv, NEW t \in Txns, ReleaseAll(t), Remove(t)
  PROVE  TxnInv'
<1>1. LockInv
  BY DEF TxnInv
<1>2. LockInv'
  BY <1>1, ReleaseInv
<1>3. txn_locks' = [u \in Txns |-> IF u = t THEN {} ELSE txn_locks[u]]
  BY <1>1, ReleaseEffect
<1>4. DOMAIN active_txns' = DOMAIN active_txns \ {t}
  BY DEF Remove
<1>5. NoLockOutlivesTxn'
  BY <1>3, <1>4 DEF TxnInv, NoLockOutlivesTxn, IsActive
<1> QED BY <1>2, <1>5 DEF TxnInv

\* acquire_read_lock and acquire_write_lock: only a known transaction gets a lock.
LEMMA KnownGetsLock ==
  ASSUME TxnInv, NEW t \in Txns, NEW p \in Resources, NEW m \in LockMode, AcquireLock(t, p, m)
  PROVE  TxnInv'
<1>1. LockInv /\ IsActive(t) /\ Acquire(t, p, m) /\ active_txns' = active_txns
  BY DEF TxnInv, AcquireLock, txnVars
<1>2. LockInv'
  BY <1>1, AcquireInv
<1>3. \A u \in Txns \ {t} : txn_locks'[u] = txn_locks[u]
  <2>1. txn_locks \in [Txns -> SUBSET Resources]
    BY <1>1 DEF LockInv, LockTypeOK
  <2> QED BY <1>1, <2>1 DEF Acquire, AlreadyHeld, Upgrade, Grant, lockVars
<1>4. NoLockOutlivesTxn'
  BY <1>1, <1>3 DEF TxnInv, NoLockOutlivesTxn, IsActive
<1> QED BY <1>2, <1>4 DEF TxnInv

\* A restart begins with no locks.
LEMMA RestartsUnlocked ==
  ASSUME NEW f, NEW d, Open(f, d)
  PROVE  TxnInv'
<1>1. lock_table' = [r \in {} |-> {}] /\ txn_locks' = [t \in Txns |-> {}]
  BY DEF Open, OpenManager
<1>2. LockInv'
  BY <1>1 DEF LockInv, LockTypeOK, TablesAgree, ExclusiveIsAlone, Holds, EntryOf
<1>3. NoLockOutlivesTxn'
  BY <1>1 DEF NoLockOutlivesTxn
<1> QED BY <1>2, <1>3 DEF TxnInv

\* The invariant of transactions and locks holds throughout, also over crashes,
\* failed commits and aborts of transactions whose commit failed.
LEMMA TxnInvHolds == Spec => []TxnInv
<1>1. Init => TxnInv
  <2>1. SUFFICES ASSUME Init PROVE TxnInv
    OBVIOUS
  <2>2. LockInv
    BY <2>1, LockInitInv DEF Init
  <2>3. NoLockOutlivesTxn
    BY <2>1 DEF Init, LockInit, NoLockOutlivesTxn
  <2> QED BY <2>2, <2>3 DEF TxnInv
<1>2. TxnInv /\ [Next]_vars => TxnInv'
  <2> SUFFICES ASSUME TxnInv, [Next]_vars PROVE TxnInv'
    OBVIOUS
  <2>1. CASE BeginTxn
    BY <2>1, LocksAlone DEF BeginTxn, Begin, SetState
  <2>2. ASSUME NEW t \in Txns, NEW p \in Resources, NEW m \in LockMode, LockPage(t, p, m)
        PROVE  TxnInv'
    BY <2>2, KnownGetsLock DEF LockPage
  <2>3. ASSUME NEW t \in Txns, NEW p \in Resources, WritePage(t, p) PROVE TxnInv'
    BY <2>3, LocksAlone DEF WritePage, LogWrite, txnVars
  <2>4. ASSUME NEW t \in Txns, CommitTxn(t) PROVE TxnInv'
    BY <2>4, EndsWithLocks DEF CommitTxn, Commit
  <2>5. ASSUME NEW t \in Txns, CommitTxnFails(t) PROVE TxnInv'
    BY <2>5, LocksAlone DEF CommitTxnFails, CommitFails, SetState
  <2>6. ASSUME NEW t \in Txns, AbortTxn(t) PROVE TxnInv'
    BY <2>6, EndsWithLocks DEF AbortTxn, Abort
  <2>7. CASE EngineStep
    BY <2>7, LocksAlone DEF EngineStep, txnVars
  <2>8. CASE Exit
    BY <2>8, RestartsUnlocked DEF Exit
  <2>9. CASE Crash
    BY <2>9, RestartsUnlocked DEF Crash
  <2>10. CASE UNCHANGED vars
    BY <2>10, LocksAlone DEF vars, txnVars
  <2> QED
    BY <2>1, <2>2, <2>3, <2>4, <2>5, <2>6, <2>7, <2>8, <2>9, <2>10 DEF Next, TxnStep
<1> QED BY <1>1, <1>2, PTL DEF Spec

\* No lock outlives its transaction: commit and abort release all locks of the
\* transaction they remove, and a failed commit removes neither.
THEOREM TxnLocks == Spec => []NoLockOutlivesTxn
<1>1. TxnInv => NoLockOutlivesTxn
  BY DEF TxnInv
<1> QED BY <1>1, TxnInvHolds, PTL

=============================================================================
