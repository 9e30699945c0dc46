SPECIFICATION PageSpec
CONSTANTS
  Values <- AllValues
  NoRecord = NoRecord
  TxnIds = {1, 2}
  MaxSlots = 4
INVARIANT RecordsFit
PROPERTY SlotsKeepTheirRow
CHECK_DEADLOCK FALSE
