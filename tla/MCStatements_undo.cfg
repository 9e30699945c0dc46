CONSTANTS
  NoRecord = NoRecord
  Values <- TwoSizes
  Allowed = {}
  MaxRows = 2
  MaxTxns = 3
  MaxPages = 2
  MaxUndo = 2
  MaxRowId = 4
  MaxCrashes = 0
SPECIFICATION Spec
PROPERTY RollbackRestores
CHECK_DEADLOCK FALSE
