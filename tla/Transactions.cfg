CONSTANTS
  Txns = {1, 2}
  Resources = {p}
  TornWrites = FALSE
  MaxLsn = 6
  MaxTxn = 2
  MaxSessions = 2
  MaxFaults = 1
SPECIFICATION Spec
INVARIANTS TxnTypeOK NoLockOutlivesTxn CommitIsDurable FlushedIsDurable UndoChain AbortedStaysOut
