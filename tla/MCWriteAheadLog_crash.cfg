SPECIFICATION LogSpec
CONSTANTS
  MaxTxns = 2
  MaxLSN = 4
  MaxSessions = 2
  Operations = {"UPDATE"}
  IoFailures = TRUE
INVARIANTS LSNsIncrease CommitCoversRecords SecuredCommitsStay SecuredIsReplayed
CHECK_DEADLOCK FALSE
