SPECIFICATION RecordSpec
CONSTANTS
  Images = {}
  MaxRecords = 2
INVARIANT StopsAtDamage
