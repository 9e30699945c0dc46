CONSTANTS
  NoRecord = NoRecord
  Values <- EqualSizes
  Allowed = {}
  MaxRows = 2
  MaxTxns = 3
  MaxPages = 2
  MaxUndo = 2
  MaxRowId = 4
  MaxCrashes = 0
SPECIFICATION Spec
INVARIANT SeesWhatIsPromised
CHECK_DEADLOCK FALSE
