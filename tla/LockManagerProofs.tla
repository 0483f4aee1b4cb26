------------------------- MODULE LockManagerProofs -------------------------
(***************************************************************************)
(* Proofs about LockManager, for any sets of transactions and resources.   *)
(* The inductive invariant is the conjunction of the three invariants TLC  *)
(* checks.  It makes release_all simple: the tables agree and no request   *)
(* is ever queued, so the call takes t out of every entry and no more.     *)
(***************************************************************************)
EXTENDS LockManager, TLAPS

\* The inductive invariant of the lock tables.
LockInv == LockTypeOK /\ TablesAgree /\ ExclusiveIsAlone

\* Leaving an entry that has no waiters only removes the holder.
LEMMA WithoutNoWaiters ==
  ASSUME NEW e \in LockEntry, NEW t, e.wait_queue = << >>
  PROVE  Without(e, t) = [e EXCEPT !.holders = @ \ {t}]
BY DEF Without

\* Under the invariant, what release_all(t) does to the two tables: t is no
\* longer a holder of anything, and everything else is as before.
LEMMA ReleaseEffect ==
  ASSUME LockInv, NEW t \in Txns, ReleaseAll(t)
  PROVE  /\ txn_locks' = [u \in Txns |-> IF u = t THEN {} ELSE txn_locks[u]]
         /\ DOMAIN lock_table' = {r \in DOMAIN lock_table : lock_table[r].holders # {t}}
         /\ \A r \in DOMAIN lock_table' :
               lock_table'[r] = [lock_table[r] EXCEPT !.holders = @ \ {t}]
<1>1. \A r \in DOMAIN lock_table :
         /\ lock_table[r] \in LockEntry
         /\ Without(lock_table[r], t) = [lock_table[r] EXCEPT !.holders = @ \ {t}]
  BY WithoutNoWaiters DEF LockInv, LockTypeOK
<1>2. \A r \in DOMAIN lock_table :
         /\ Without(lock_table[r], t).holders = lock_table[r].holders \ {t}
         /\ Without(lock_table[r], t).wait_queue = << >>
  BY <1>1 DEF LockInv, LockTypeOK, LockEntry
<1>3. \A r \in DOMAIN lock_table : r \in Visited(t) <=> t \in lock_table[r].holders
  BY DEF LockInv, LockTypeOK, TablesAgree, Visited, Holds, EntryOf
<1>4. Emptied(t) = {r \in DOMAIN lock_table : lock_table[r].holders = {t}}
  <2>1. \A r \in DOMAIN lock_table : lock_table[r].holders # {}
    BY DEF LockInv, LockTypeOK
  <2>2. Visited(t) \subseteq DOMAIN lock_table
    BY DEF Visited
  <2> QED BY <1>2, <1>3, <2>1, <2>2 DEF Emptied
<1>5. \A u : HandedOver(u, t) = {}
  BY <1>2 DEF HandedOver, Visited
<1>6. txn_locks' = [u \in Txns |-> IF u = t THEN {} ELSE txn_locks[u]]
  BY <1>5 DEF ReleaseAll
<1>7. DOMAIN lock_table' = {r \in DOMAIN lock_table : lock_table[r].holders # {t}}
  BY <1>4 DEF ReleaseAll
<1>8. ASSUME NEW r \in DOMAIN lock_table'
      PROVE  lock_table'[r] = [lock_table[r] EXCEPT !.holders = @ \ {t}]
  <2>1. r \in DOMAIN lock_table
    BY <1>7
  <2>2. CASE r \in Visited(t)
    BY <1>1, <2>1, <2>2 DEF ReleaseAll
  <2>3. CASE r \notin Visited(t)
    <3>1. lock_table[r].holders \ {t} = lock_table[r].holders
      BY <1>3, <2>1, <2>3
    <3>2. lock_table[r] = [lock_table[r] EXCEPT !.holders = @ \ {t}]
      BY <1>1, <2>1, <3>1 DEF LockEntry
    <3> QED BY <2>3, <3>2 DEF ReleaseAll
  <2> QED BY <2>2, <2>3
<1> QED BY <1>6, <1>7, <1>8

\* Initially both tables are empty.
LEMMA LockInitInv == LockInit => LockInv
BY DEF LockInit, LockInv, LockTypeOK, TablesAgree, ExclusiveIsAlone, Holds, EntryOf

\* A granted or upgraded request keeps the invariant.
LEMMA AcquireInv ==
  ASSUME LockInv, NEW t \in Txns, NEW r \in Resources, NEW m \in LockMode, Acquire(t, r, m)
  PROVE  LockInv'
<1>1. CASE AlreadyHeld(t, r, m)
  BY <1>1 DEF AlreadyHeld, lockVars, LockInv, LockTypeOK, TablesAgree, ExclusiveIsAlone,
              Holds, EntryOf
<1>2. CASE Upgrade(t, r, m)
  <2>1. r \in DOMAIN lock_table /\ lock_table[r].holders = {t}
    BY <1>2 DEF Upgrade, WantsUpgrade, Holds, EntryOf
  <2>2. /\ lock_table' = [lock_table EXCEPT ![r] = [lock_table[r] EXCEPT !.mode = "Exclusive"]]
        /\ txn_locks' = txn_locks
    BY <1>2, <2>1 DEF Upgrade, SetEntry, EntryOf, LockInv, LockTypeOK
  <2>3. LockTypeOK'
    BY <2>1, <2>2 DEF LockInv, LockTypeOK, LockEntry, LockMode
  <2>4. TablesAgree'
    BY <2>1, <2>2 DEF LockInv, LockTypeOK, LockEntry, TablesAgree, Holds, EntryOf
  <2>5. ExclusiveIsAlone'
    BY <2>1, <2>2 DEF LockInv, LockTypeOK, LockEntry, ExclusiveIsAlone
  <2> QED BY <2>3, <2>4, <2>5 DEF LockInv
<1>3. CASE Grant(t, r, m)
  <2> DEFINE new == [EntryOf(r) EXCEPT !.mode = m, !.holders = @ \cup {t}]
  <2>1. EntryOf(r) \in LockEntry /\ EntryOf(r).wait_queue = << >>
    BY DEF EntryOf, LockInv, LockTypeOK, LockEntry, LockMode
  <2>2. /\ new \in LockEntry
        /\ new.mode = m
        /\ new.holders = EntryOf(r).holders \cup {t}
        /\ new.wait_queue = << >>
    BY <2>1, Zenon DEF LockEntry
  <2>3. /\ DOMAIN lock_table' = DOMAIN lock_table \cup {r}
        /\ lock_table' = [s \in DOMAIN lock_table' |-> IF s = r THEN new ELSE lock_table[s]]
        /\ txn_locks' = [txn_locks EXCEPT ![t] = @ \cup {r}]
    BY <1>3 DEF Grant, SetEntry
  <2> HIDE DEF new
  <2>4. LockTypeOK'
    BY <2>2, <2>3, Zenon DEF LockInv, LockTypeOK
  <2>5. \A u \in Txns, s \in Resources :
           Holds(u, s)' <=> Holds(u, s) \/ (u = t /\ s = r)
    BY <2>2, <2>3 DEF Holds, EntryOf
  <2>6. TablesAgree'
    BY <2>3, <2>5 DEF LockInv, LockTypeOK, TablesAgree
  <2>7. m = "Exclusive" => new.holders = {t}
    BY <1>3, <2>2 DEF Grant, Conflict
  <2>8. ExclusiveIsAlone'
    BY <2>2, <2>3, <2>7 DEF LockInv, ExclusiveIsAlone
  <2> QED BY <2>4, <2>6, <2>8 DEF LockInv
<1> QED BY <1>1, <1>2, <1>3 DEF Acquire

\* release_all keeps the invariant.
LEMMA ReleaseInv ==
  ASSUME LockInv, NEW t \in Txns, ReleaseAll(t)
  PROVE  LockInv'
<1>1. /\ txn_locks' = [u \in Txns |-> IF u = t THEN {} ELSE txn_locks[u]]
      /\ DOMAIN lock_table' = {r \in DOMAIN lock_table : lock_table[r].holders # {t}}
      /\ \A r \in DOMAIN lock_table' :
            lock_table'[r] = [lock_table[r] EXCEPT !.holders = @ \ {t}]
  BY ReleaseEffect, Zenon
<1>2. \A r \in DOMAIN lock_table' :
         /\ lock_table'[r] \in LockEntry
         /\ lock_table'[r].mode = lock_table[r].mode
         /\ lock_table'[r].holders = lock_table[r].holders \ {t}
         /\ lock_table'[r].holders # {}
         /\ lock_table'[r].wait_queue = << >>
  <2> TAKE r \in DOMAIN lock_table'
  <2>1. /\ r \in DOMAIN lock_table /\ lock_table[r].holders # {t}
        /\ lock_table[r] \in LockEntry /\ lock_table[r].holders # {}
        /\ lock_table[r].wait_queue = << >>
    BY <1>1 DEF LockInv, LockTypeOK
  <2>2. lock_table[r].holders \ {t} # {}
    BY <2>1
  <2> QED BY <1>1, <2>1, <2>2 DEF LockEntry
<1>3. LockTypeOK'
  <2>1. lock_table' = [r \in DOMAIN lock_table' |-> lock_table'[r]]
    BY DEF ReleaseAll
  <2>2. lock_table' \in [DOMAIN lock_table' -> LockEntry]
    BY <1>2, <2>1
  <2> QED BY <1>1, <1>2, <2>2 DEF LockInv, LockTypeOK
<1>4. \A u \in Txns, s \in Resources : Holds(u, s)' <=> Holds(u, s) /\ u # t
  BY <1>1, <1>2 DEF Holds, EntryOf
<1>5. TablesAgree'
  BY <1>1, <1>4 DEF LockInv, LockTypeOK, TablesAgree
<1>6. ExclusiveIsAlone'
  <2> SUFFICES ASSUME NEW r \in DOMAIN lock_table', lock_table'[r].mode = "Exclusive"
               PROVE  \E u \in Txns : lock_table'[r].holders = {u}
    BY DEF ExclusiveIsAlone
  <2>1. r \in DOMAIN lock_table /\ lock_table[r].mode = "Exclusive"
    BY <1>1, <1>2
  <2>2. PICK u \in Txns : lock_table[r].holders = {u}
    BY <2>1 DEF LockInv, ExclusiveIsAlone
  <2> QED BY <1>2, <2>2
<1> QED BY <1>3, <1>5, <1>6 DEF LockInv

\* The inductive invariant holds whatever acquire and release_all calls are made.
LEMMA LockInvHolds == LockSpec => []LockInv
<1>1. LockInv /\ [LockNext]_lockVars => LockInv'
  <2> SUFFICES ASSUME LockInv, [LockNext]_lockVars PROVE LockInv'
    OBVIOUS
  <2>1. CASE UNCHANGED lockVars
    BY <2>1 DEF lockVars, LockInv, LockTypeOK, TablesAgree, ExclusiveIsAlone, Holds, EntryOf
  <2>2. ASSUME NEW t \in Txns, NEW r \in Resources, NEW m \in LockMode, Acquire(t, r, m)
        PROVE  LockInv'
    BY <2>2, AcquireInv
  <2>3. ASSUME NEW t \in Txns, ReleaseAll(t)
        PROVE  LockInv'
    BY <2>3, ReleaseInv
  <2> QED BY <2>1, <2>2, <2>3 DEF LockNext
<1> QED BY <1>1, LockInitInv, PTL DEF LockSpec

\* The lock tables stay well typed: acquire never queues a request, and
\* release_all leaves no entry without a holder.
THEOREM LockTypes == LockSpec => []LockTypeOK
<1>1. LockInv => LockTypeOK
  BY DEF LockInv
<1> QED BY <1>1, LockInvHolds, PTL

\* lock_table and txn_locks always agree on who holds what.
THEOREM LockTablesAgree == LockSpec => []TablesAgree
<1>1. LockInv => TablesAgree
  BY DEF LockInv
<1> QED BY <1>1, LockInvHolds, PTL

\* An exclusive lock never has a second holder.
THEOREM LockExclusion == LockSpec => []ExclusiveIsAlone
<1>1. LockInv => ExclusiveIsAlone
  BY DEF LockInv
<1> QED BY <1>1, LockInvHolds, PTL

-----------------------------------------------------------------------------
(* What one call changes, in terms of who holds what in which mode.        *)

\* A refused request changes nothing and has no step; a granted one gives t
\* the lock r, in mode m, and leaves every other lock as it was.
LEMMA AcquireEffect ==
  ASSUME LockInv, NEW t \in Txns, NEW r \in Resources, NEW m \in LockMode,
         Upgrade(t, r, m) \/ Grant(t, r, m)
  PROVE  /\ Holds(t, r)' /\ EntryOf(r)'.mode = m
         /\ Holds(t, r) => EntryOf(r).mode = "Shared"
         /\ \A u \in Txns, s \in Resources : u # t \/ s # r =>
               /\ Holds(u, s)' <=> Holds(u, s)
               /\ Holds(u, s) => EntryOf(s)'.mode = EntryOf(s).mode
         /\ \A u \in Txns \ {t} : Holds(u, r) => EntryOf(r).mode = "Shared" /\ m = "Shared"
<1>1. EntryOf(r) \in LockEntry
  BY DEF EntryOf, LockInv, LockTypeOK, LockEntry, LockMode
<1>2. CASE Upgrade(t, r, m)
  <2>1. SetEntry(r, [EntryOf(r) EXCEPT !.mode = "Exclusive"]) /\ m = "Exclusive"
    BY <1>2 DEF Upgrade, WantsUpgrade
  <2>2. EntryOf(r)'.mode = m /\ EntryOf(r)'.holders = EntryOf(r).holders
    BY <1>1, <2>1, Zenon DEF SetEntry, EntryOf, LockEntry
  <2>3. \A s \in Resources \ {r} : EntryOf(s)' = EntryOf(s)
    BY <2>1 DEF SetEntry, EntryOf
  <2> QED BY <1>2, <2>2, <2>3 DEF Upgrade, WantsUpgrade, Holds
<1>3. CASE Grant(t, r, m)
  <2>1. SetEntry(r, [EntryOf(r) EXCEPT !.mode = m, !.holders = @ \cup {t}])
    BY <1>3 DEF Grant
  <2>2. EntryOf(r)'.mode = m /\ EntryOf(r)'.holders = EntryOf(r).holders \cup {t}
    BY <1>1, <2>1, Zenon DEF SetEntry, EntryOf, LockEntry
  <2>3. \A s \in Resources \ {r} : EntryOf(s)' = EntryOf(s)
    BY <2>1 DEF SetEntry, EntryOf
  <2>4. ~Holds(t, r) /\ (EntryOf(r).holders # {} => EntryOf(r).mode = "Shared" /\ m = "Shared")
    BY <1>3 DEF Grant, Conflict
  <2> QED BY <2>2, <2>3, <2>4 DEF Holds
<1> QED BY <1>2, <1>3

\* release_all(t) takes every lock from t and none from anyone else.
LEMMA ReleaseHolds ==
  ASSUME LockInv, NEW t \in Txns, ReleaseAll(t)
  PROVE  \A u \in Txns, s \in Resources :
            /\ Holds(u, s)' <=> Holds(u, s) /\ u # t
            /\ Holds(u, s)' => EntryOf(s)'.mode = EntryOf(s).mode
<1>1. /\ DOMAIN lock_table' = {r \in DOMAIN lock_table : lock_table[r].holders # {t}}
      /\ \A r \in DOMAIN lock_table' :
            lock_table'[r] = [lock_table[r] EXCEPT !.holders = @ \ {t}]
  BY ReleaseEffect, Zenon
<1>2. \A r \in DOMAIN lock_table : lock_table[r] \in LockEntry
  BY DEF LockInv, LockTypeOK
<1>3. \A r \in DOMAIN lock_table' :
         /\ lock_table'[r].mode = lock_table[r].mode
         /\ lock_table'[r].holders = lock_table[r].holders \ {t}
  BY <1>1, <1>2 DEF LockEntry
<1> QED BY <1>1, <1>3 DEF Holds, EntryOf

\* Strict two-phase locking: a step never takes some of a transaction's locks,
\* or weakens one, while it leaves the transaction another.
THEOREM LockTwoPhase == LockSpec => KeepsOrDropsAll
<1> DEFINE Keeps(t) == \/ txn_locks'[t] = {}
                       \/ \A r \in txn_locks[t] :
                             /\ Holds(t, r)'
                             /\ EntryOf(r).mode = "Exclusive" => EntryOf(r)'.mode = "Exclusive"
<1>1. LockInv /\ [LockNext]_lockVars => [\A t \in Txns : Keeps(t)]_lockVars
  <2> SUFFICES ASSUME LockInv, LockNext, NEW t \in Txns PROVE Keeps(t) \/ UNCHANGED lockVars
    OBVIOUS
  <2>1. \A r \in txn_locks[t] : r \in Resources /\ Holds(t, r)
    BY DEF LockInv, LockTypeOK, TablesAgree
  <2>2. ASSUME NEW u \in Txns, NEW r \in Resources, NEW m \in LockMode, Acquire(u, r, m)
        PROVE  Keeps(t) \/ UNCHANGED lockVars
    <3>1. CASE AlreadyHeld(u, r, m)
      BY <3>1 DEF AlreadyHeld
    <3>2. CASE Upgrade(u, r, m) \/ Grant(u, r, m)
      <4>1. ASSUME NEW s \in txn_locks[t]
            PROVE  /\ Holds(t, s)'
                   /\ EntryOf(s).mode = "Exclusive" => EntryOf(s)'.mode = "Exclusive"
        <5>1. s \in Resources /\ Holds(t, s)
          BY <2>1
        <5>2. CASE t = u /\ s = r
          BY <3>2, <5>1, <5>2, AcquireEffect
        <5>3. CASE ~(t = u /\ s = r)
          BY <3>2, <5>1, <5>3, AcquireEffect
        <5> QED BY <5>2, <5>3
      <4> QED BY <4>1
    <3> QED BY <2>2, <3>1, <3>2 DEF Acquire
  <2>3. ASSUME NEW u \in Txns, ReleaseAll(u)
        PROVE  Keeps(t)
    <3>1. CASE t = u
      BY <2>3, <3>1, ReleaseEffect, Zenon
    <3>2. CASE t # u
      BY <2>1, <2>3, <3>2, ReleaseHolds
    <3> QED BY <3>1, <3>2
  <2> QED BY <2>2, <2>3 DEF LockNext
<1> QED BY <1>1, LockInvHolds, PTL DEF LockSpec, KeepsOrDropsAll

\* The lock tables implement the abstract strict two-phase locks.
THEOREM LockRefinement == LockSpec => ImplementsStrictLocks
<1> DEFINE held == [t \in Txns |-> [r \in Resources |->
                      IF Holds(t, r) THEN EntryOf(r).mode ELSE "None"]]
<1>1. LockInit => Abstract!Init
  BY DEF LockInit, Abstract!Init, Holds, EntryOf
<1>2. LockInv /\ LockInv' /\ [LockNext]_lockVars => [Abstract!Next]_held
  <2> SUFFICES ASSUME LockInv, LockInv', [LockNext]_lockVars
               PROVE  Abstract!Next \/ held' = held
    OBVIOUS
  <2>1. CASE UNCHANGED lockVars
    BY <2>1 DEF lockVars, Holds, EntryOf
  <2>2. ASSUME NEW t \in Txns, NEW r \in Resources, NEW m \in LockMode, Acquire(t, r, m)
        PROVE  Abstract!Next \/ held' = held
    <3>1. CASE AlreadyHeld(t, r, m)
      BY <3>1 DEF AlreadyHeld, lockVars, Holds, EntryOf
    <3>2. CASE Upgrade(t, r, m) \/ Grant(t, r, m)
      <4>1. /\ Holds(t, r)' /\ EntryOf(r)'.mode = m
            /\ Holds(t, r) => EntryOf(r).mode = "Shared"
            /\ \A u \in Txns, s \in Resources : u # t \/ s # r =>
                  /\ Holds(u, s)' <=> Holds(u, s)
                  /\ Holds(u, s) => EntryOf(s)'.mode = EntryOf(s).mode
            /\ \A u \in Txns \ {t} : Holds(u, r) => EntryOf(r).mode = "Shared" /\ m = "Shared"
        BY <3>2, AcquireEffect
      <4>2. held' = [held EXCEPT ![t][r] = m]
        BY <4>1, Zenon
      <4>3. Abstract!Compatible(t, r, m)
        BY <4>1 DEF Abstract!Compatible
      <4>4. held[t][r] # "Exclusive"
        BY <4>1
      <4>5. Abstract!Lock(t, r, m)
        BY <4>2, <4>3, <4>4 DEF Abstract!Lock
      <4> QED BY <4>5 DEF Abstract!Next, Abstract!Modes, LockMode
    <3> QED BY <2>2, <3>1, <3>2 DEF Acquire
  <2>3. ASSUME NEW t \in Txns, ReleaseAll(t)
        PROVE  Abstract!Next
    <3>1. held' = [held EXCEPT ![t] = [r \in Resources |-> "None"]]
      BY <2>3, ReleaseHolds, Zenon
    <3> QED BY <3>1, Zenon DEF Abstract!Next, Abstract!UnlockAll
  <2> QED BY <2>1, <2>2, <2>3 DEF LockNext
<1> QED BY <1>1, <1>2, LockInvHolds, PTL DEF LockSpec, ImplementsStrictLocks, Abstract!Spec

=============================================================================
