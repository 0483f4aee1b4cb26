CONSTANTS
  Keys = {1, 2, 3, 4, 5, 6, 7, 8}
  Values = {x}
  Rewritten = {}
  LeafCap = 2
  InternalCap = 2
  LeftSplits = TRUE
  MaxPages = 15
  MaxHeight = 6
SPECIFICATION Spec
INVARIANT SearchFindsAll
