CONSTANTS
  Ids <- MCIds
  Values <- MCValues
  DefaultLimit = 1
  MaxLimit = 2
  MaxChanges = 2
  None = None
SPECIFICATION Spec
INVARIANTS TypeOK KeysetOrdered KeysetComplete OffsetComplete FullPages
CHECK_DEADLOCK FALSE
