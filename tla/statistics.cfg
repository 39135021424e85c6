SPECIFICATION Spec
CONSTANTS
  NaN = NaN
  Rejected = Rejected
  Unlimited = Unlimited
  NoSlot = NoSlot
  Parts = 12
  Readings <- MCReadings
  Days = {0, 1}
  MaxRecords = 3
  MaxAppends = 2
  MaxCrashes = 1
INVARIANT TypeOK
INVARIANT EveryRecordOnce
INVARIANT LinesAreRight
INVARIANT WellFormed
CHECK_DEADLOCK FALSE
PROPERTY RecordsGetOut
