CONSTANTS
  Keys = {1, 2, 3, 4, 5, 6, 7}
  Values = {x, y}
  Rewritten = {2, 5}
  LeafCap = 2
  InternalCap = 2
  LeftSplits = FALSE
  MaxPages = 13
  MaxHeight = 4
SPECIFICATION Spec
INVARIANTS BTreeTypeOK ParentsAgree SearchFindsAll ScanIsComplete RangeMatchesScan 
PROPERTIES ImplementsKVMap InsertEnds
