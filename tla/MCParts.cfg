SPECIFICATION PartsSpec
CONSTANTS
  Txns = {t1, t2, t3}
  Resources = {p1, p2, p3}
  Keys = {1, 2, 3, 4, 5, 6}
  Lengths = {4, 9, 14}
  PAGE_SIZE = 90
  LongerValues = FALSE
  Images <- MCImages
  MaxRecords = 2
INVARIANTS
  LockTypeOK
  TablesAgree
  ExclusiveIsAlone
  MustNotOverlap
  DataApart
  SearchIsRight
  KeepsEntries
  ReadsWholeRecords
  CutFileIsRead
  SlicedIsBitwise
PROPERTIES
  KeepsOrDropsAll
  ImplementsStrictLocks
  ReaderAdvances
CHECK_DEADLOCK FALSE
