---------------------------- MODULE StrictLocks ----------------------------
(***************************************************************************)
(* What the lock manager promises, without its tables: every transaction   *)
(* holds each resource in no mode, in shared mode or in exclusive mode; a  *)
(* lock is granted only when it is compatible with what the others hold;   *)
(* and it is given up only with every other lock of that transaction       *)
(* (strict two-phase locking).                                             *)
(***************************************************************************)
CONSTANTS Txns, Resources

VARIABLE held       \* held[t][r]: the mode in which t holds r

Modes == {"Shared", "Exclusive"}

Compatible(t, r, m) ==
  \A u \in Txns \ {t} :
     /\ held[u][r] # "Exclusive"
     /\ m = "Exclusive" => held[u][r] = "None"

Init == held = [t \in Txns |-> [r \in Resources |-> "None"]]

Lock(t, r, m) ==
  /\ Compatible(t, r, m)
  /\ held' = [held EXCEPT ![t][r] = m]
  /\ held[t][r] # "Exclusive"

UnlockAll(t) == held' = [held EXCEPT ![t] = [r \in Resources |-> "None"]]

Next ==
  \E t \in Txns :
     \/ \E r \in Resources, m \in Modes : Lock(t, r, m)
     \/ UnlockAll(t)

Spec == Init /\ [][Next]_held

=============================================================================
