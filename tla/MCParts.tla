------------------------------ MODULE MCParts ------------------------------
(***************************************************************************)
(* Parts that share nothing, in one model: the lock manager, and the two   *)
(* byte formats, the slotted pages of the tree and the records of the log. *)
(* One moves while the others are at rest in their initial states: their   *)
(* state spaces add up instead of multiplying.                             *)
(***************************************************************************)
EXTENDS LockManager, NodeLayout, LogRecord

MCImages == {<<Byte(200)>>, <<Byte(0), Byte(255)>>}

partVars == <<lockVars, layoutVars, recordVars>>

PartsInit == LockInit /\ LayoutInit /\ RecordInit

LocksAtRest == \A t \in Txns : txn_locks[t] = {}

NodeAtRest == node = EmptyNode(TRUE)

LogAtRest == phase = "writing" /\ written = << >>

LocksMove ==
  /\ NodeAtRest /\ LogAtRest
  /\ LockNext
  /\ UNCHANGED <<layoutVars, recordVars>>

NodeMoves ==
  /\ LocksAtRest /\ LogAtRest
  /\ LayoutNext
  /\ UNCHANGED <<lockVars, recordVars>>

LogMoves ==
  /\ LocksAtRest /\ NodeAtRest
  /\ RecordNext
  /\ UNCHANGED <<lockVars, layoutVars>>

PartsSpec == PartsInit /\ [][LocksMove \/ NodeMoves \/ LogMoves]_partVars

=============================================================================
