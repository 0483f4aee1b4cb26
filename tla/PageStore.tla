----------------------------- MODULE PageStore -----------------------------
(***************************************************************************)
(* What the buffer pool promises to its callers, with no pool in it: a     *)
(* growing array of pages.  A page holds what was last written to it.      *)
(* What is known to survive a crash changes only when everything becomes   *)
(* durable at once.                                                        *)
(***************************************************************************)
EXTENDS Naturals

CONSTANTS Images, Zero, Blank, PageIds

VARIABLES store,    \* page id -> image a fetch returns
          stable    \* page id -> image known to survive a crash

storeVars == <<store, stable>>

Init ==
  /\ store = [p \in {} |-> Zero]
  /\ stable = [p \in {} |-> Zero]

Write(p, v) ==
  /\ store' = [store EXCEPT ![p] = v]
  /\ UNCHANGED stable

\* Pages up to p come into being.  The last one is Blank, or Zero when the
\* caller was told that the allocation failed.
Allocate(p, v) ==
  /\ p \notin DOMAIN store
  /\ store' = [q \in 0 .. p |->
                 IF q \in DOMAIN store THEN store[q] ELSE IF q = p THEN v ELSE Zero]
  /\ UNCHANGED stable

MakeStable ==
  /\ stable' = store
  /\ UNCHANGED store

Next ==
  \/ \E p \in DOMAIN store, v \in Images : Write(p, v)
  \/ \E p \in PageIds, v \in {Zero, Blank} : Allocate(p, v)
  \/ MakeStable

Spec == Init /\ [][Next]_storeVars

=============================================================================
