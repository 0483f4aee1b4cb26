CONSTANTS
  Txns = {1, 2}
  Resources = {p}
  TornWrites = TRUE
  MaxLsn = 6
  MaxTxn = 2
  MaxSessions = 2
  MaxFaults = 1
SPECIFICATION Spec
INVARIANT CommitIsDurable
