CONSTANTS
  Txns = {1}
  Resources = {}
  TornWrites = FALSE
  MaxLsn = 3
  MaxTxn = 1
  MaxSessions = 2
  Keys = {1}
  Values = {x}
  Rewritten = {}
  LeafCap = 2
  InternalCap = 2
  LeftSplits = TRUE
  MaxPages = 6
  MaxHeight = 3
  ImageLens = {5}
SPECIFICATION EngineSpec
INVARIANT SyncedIsFound
