CONSTANTS
  Txns = {1}
  Resources = {}
  TornWrites = FALSE
  MaxLsn = 0
  MaxTxn = 1
  MaxSessions = 2
  Keys = {1, 2, 3}
  Values = {x}
  Rewritten = {}
  LeafCap = 2
  InternalCap = 2
  LeftSplits = TRUE
  MaxPages = 6
  MaxHeight = 3
  ImageLens = {4}
SPECIFICATION EngineSpec
INVARIANT SyncedIsFound
