---------------------------- MODULE LockManager ----------------------------
(***************************************************************************)
(* The lock manager of src/txn/lock_manager.rs: a table from resources     *)
(* (page ids) to lock entries, and, redundantly, a table from transactions *)
(* to the resources they have locked.                                      *)
(*                                                                         *)
(* lock_table is the HashMap of the code: a function whose domain is the   *)
(* set of resources that have an entry.  txn_locks is total: the code has  *)
(* no entry for a transaction exactly when its set would be empty.         *)
(***************************************************************************)
EXTENDS Naturals, Sequences

CONSTANTS Txns,        \* transaction ids
          Resources    \* lockable resources: page ids

VARIABLES lock_table,  \* resource -> [mode, holders, wait_queue]
          txn_locks    \* transaction -> the resources it has locked

lockVars == <<lock_table, txn_locks>>

LockMode == {"Shared", "Exclusive"}

LockEntry == [mode       : LockMode,
              holders    : SUBSET Txns,
              wait_queue : Seq(Txns \X LockMode)]

LockInit ==
  /\ lock_table = [r \in {} |-> {}]
  /\ txn_locks = [t \in Txns |-> {}]

-----------------------------------------------------------------------------
(* acquire                                                                 *)

\* The entry acquire works on: the one in the table, or the one it inserts.
EntryOf(r) ==
  IF r \in DOMAIN lock_table
  THEN lock_table[r]
  ELSE [mode |-> "Shared", holders |-> {}, wait_queue |-> << >>]

SetEntry(r, e) ==
  lock_table' = [s \in DOMAIN lock_table \cup {r} |->
                   IF s = r THEN e ELSE lock_table[s]]

Holds(t, r) == t \in EntryOf(r).holders

WantsUpgrade(t, r, m) ==
  Holds(t, r) /\ EntryOf(r).mode = "Shared" /\ m = "Exclusive"

\* acquire returns Err(LockConflict) and changes nothing: an upgrade while
\* others share the lock, or a request that is not shared on shared.
Conflict(t, r, m) ==
  IF Holds(t, r)
  THEN WantsUpgrade(t, r, m) /\ EntryOf(r).holders # {t}
  ELSE /\ EntryOf(r).holders # {}
       /\ ~(EntryOf(r).mode = "Shared" /\ m = "Shared")

\* acquire returns Ok(false): the lock is held in this mode or a stronger one.
AlreadyHeld(t, r, m) ==
  /\ Holds(t, r) /\ ~WantsUpgrade(t, r, m)
  /\ UNCHANGED lockVars

\* Variant of Upgrade: the other sharers are not counted.
UpgradeAny(t, r, m) ==
  /\ WantsUpgrade(t, r, m)
  /\ SetEntry(r, [EntryOf(r) EXCEPT !.mode = "Exclusive"])
  /\ UNCHANGED txn_locks

Upgrade(t, r, m) ==
  /\ WantsUpgrade(t, r, m) /\ EntryOf(r).holders = {t}
  /\ SetEntry(r, [EntryOf(r) EXCEPT !.mode = "Exclusive"])
  /\ UNCHANGED txn_locks

\* Variant of Grant: txn_locks misses the locks that join sharers.
GrantUntracked(t, r, m) ==
  /\ ~Holds(t, r) /\ ~Conflict(t, r, m)
  /\ SetEntry(r, [EntryOf(r) EXCEPT !.mode = m, !.holders = @ \cup {t}])
  /\ txn_locks' = IF EntryOf(r).holders = {}
                  THEN [txn_locks EXCEPT ![t] = @ \cup {r}]
                  ELSE txn_locks

\* Nobody holds the resource, or it is shared and this request shares it too.
Grant(t, r, m) ==
  /\ ~Holds(t, r) /\ ~Conflict(t, r, m)
  /\ SetEntry(r, [EntryOf(r) EXCEPT !.mode = m, !.holders = @ \cup {t}])
  /\ txn_locks' = [txn_locks EXCEPT ![t] = @ \cup {r}]

\* acquire returns Ok.
Acquire(t, r, m) ==
  \/ AlreadyHeld(t, r, m)
  \/ Upgrade(t, r, m)
  \/ Grant(t, r, m)

-----------------------------------------------------------------------------
(* release_all                                                             *)

\* How many waiters are popped when the last holder leaves: the first one,
\* and if it wants to share, all the sharers queued right behind it.
Popped(q) ==
  CHOOSE n \in 0 .. Len(q) :
    /\ q = << >> <=> n = 0
    /\ \A i \in 2 .. n : q[1][2] = "Shared" /\ q[i][2] = "Shared"
    /\ n \in 1 .. Len(q) - 1 => ~(q[1][2] = "Shared" /\ q[n + 1][2] = "Shared")

\* The entry e once t has left it.
Without(e, t) ==
  IF e.holders \ {t} # {} \/ e.wait_queue = << >>
  THEN [e EXCEPT !.holders = @ \ {t}]
  ELSE [mode       |-> e.wait_queue[1][2],
        holders    |-> {e.wait_queue[i][1] : i \in 1 .. Popped(e.wait_queue)},
        wait_queue |-> SubSeq(e.wait_queue, Popped(e.wait_queue) + 1, Len(e.wait_queue))]

\* The resources of txn_locks[t] that are in the table: release_all visits them.
Visited(t) == txn_locks[t] \cap DOMAIN lock_table

\* Entries with neither holders nor waiters are removed from the table.
Emptied(t) ==
  {r \in Visited(t) : /\ Without(lock_table[r], t).holders = {}
                      /\ Without(lock_table[r], t).wait_queue = << >>}

\* The resources u is granted as a waiter when t leaves them.
HandedOver(u, t) ==
  {r \in Visited(t) : /\ lock_table[r].holders \ {t} = {}
                      /\ u \in Without(lock_table[r], t).holders}

\* Variant of ReleaseAll: emptied entries stay in the table.
ReleaseNoCleanup(t) ==
  /\ lock_table' = [r \in DOMAIN lock_table |->
                      IF r \in Visited(t) THEN Without(lock_table[r], t) ELSE lock_table[r]]
  /\ txn_locks' = [txn_locks EXCEPT ![t] = {}]

\* Variant of ReleaseAll: only one of the locks is released.
ReleaseOne(t) ==
  \E r \in Visited(t) :
     /\ lock_table' = [s \in DOMAIN lock_table \ ({r} \cap Emptied(t)) |->
                         IF s = r THEN Without(lock_table[s], t) ELSE lock_table[s]]
     /\ txn_locks' = [txn_locks EXCEPT ![t] = @ \ {r}]

ReleaseAll(t) ==
  /\ lock_table' = [r \in DOMAIN lock_table \ Emptied(t) |->
                      IF r \in Visited(t) THEN Without(lock_table[r], t) ELSE lock_table[r]]
  /\ txn_locks' = [u \in Txns |->
                     (IF u = t THEN {} ELSE txn_locks[u]) \cup HandedOver(u, t)]

-----------------------------------------------------------------------------
(* The lock manager on its own, called by anyone in any order.             *)

LockNext ==
  \E t \in Txns :
     \/ \E r \in Resources, m \in LockMode : Acquire(t, r, m)
     \/ ReleaseAll(t)

LockSpec == LockInit /\ [][LockNext]_lockVars

\* Type invariant: every entry has a holder, because release_all removes the
\* entries it empties, and its wait_queue is empty, because no path of acquire
\* ever queues a request: the hand-over to waiters in release_all is dead code.
LockTypeOK ==
  /\ DOMAIN lock_table \subseteq Resources
  /\ lock_table \in [DOMAIN lock_table -> LockEntry]
  /\ \A r \in DOMAIN lock_table :
        lock_table[r].holders # {} /\ lock_table[r].wait_queue = << >>
  /\ txn_locks \in [Txns -> SUBSET Resources]

\* The two tables agree: a transaction is a holder of exactly the resources
\* txn_locks lists for it.  Otherwise release_all, which walks txn_locks, would
\* leave a lock behind that nobody can ever release.
TablesAgree ==
  \A t \in Txns, r \in Resources : r \in txn_locks[t] <=> Holds(t, r)

\* An exclusive lock has one holder, upgrades of shared locks included.
ExclusiveIsAlone ==
  \A r \in DOMAIN lock_table :
     lock_table[r].mode = "Exclusive" => \E t \in Txns : lock_table[r].holders = {t}

\* Strict two-phase locking, as an action property: in one step a transaction
\* keeps every lock it has, in at least the same mode, or gives up all of them.
KeepsOrDropsAll ==
  [][\A t \in Txns :
        \/ txn_locks'[t] = {}
        \/ \A r \in txn_locks[t] :
              /\ Holds(t, r)'
              /\ EntryOf(r).mode = "Exclusive" => EntryOf(r)'.mode = "Exclusive"]_lockVars

\* The lock tables implement strict two-phase locking as StrictLocks states it.
Abstract == INSTANCE StrictLocks
  WITH held <- [t \in Txns |-> [r \in Resources |->
                  IF Holds(t, r) THEN EntryOf(r).mode ELSE "None"]]

ImplementsStrictLocks == Abstract!Spec

=============================================================================
