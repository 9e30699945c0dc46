SPECIFICATION Spec
CONSTANTS
  t1 = t1
  t2 = t2
  p1 = p1
  p2 = p2
  Threads = {t1, t2}
  Pages = {p1, p2}
  Timeouts = {0, 1}
  MaxTxnId = 2
INVARIANTS LockExclusion LockTablesAgree WalMatchesOutcome
PROPERTIES NoLockStolen LockPageReturns
CHECK_DEADLOCK FALSE
