CONSTANTS
  NoRecord = NoRecord
  Values <- OneValue
  Allowed = {"vacuum", "crash", "io"}
  MaxRows = 1
  MaxTxns = 2
  MaxPages = 2
  MaxUndo = 1
  MaxRowId = 3
  MaxCrashes = 1
SPECIFICATION Spec
INVARIANT TypeOK
PROPERTIES VacuumKeepsVisible DeletedStaysDeleted
CHECK_DEADLOCK FALSE
