CONSTANTS
  TableNames = {"t", "T", "u"}
  maxEntries = 3
  maxMemory = 6
  ttl = 1
  maxTotalMemory = 3
  TableSize = 2
  RowSize = 1
  Databases = {"d1", "d2"}
  Selects <- MCSelects
  RowValues <- MCRowValues
  Lower <- MCLower
  Writes <- MCWrites
  FirstDatabase = "d1"
  Rewrite <- rewrite
  Text <- TextOf
  Scan <- ScanRows
  Join <- JoinRows
  MaxRecords = 2
  MaxTxns = 3
  MaxTime = 2
  MaxOps = 4

SPECIFICATION Spec
CHECK_DEADLOCK FALSE

INVARIANTS QueryEntriesAreFresh TableEntriesAreFresh QueryMemoryIsBounded RewriteKeepsAnswers
