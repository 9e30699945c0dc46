SPECIFICATION Spec
CONSTANTS
  c1 = c1
  c2 = c2
  a = a
  Clients = {c1, c2}
  Data = {a}
  Zero = Zero
  Reset = Reset
  Torn = Torn
  Closed = Closed
  PoolSize = 2
  MaxPages = 3
  Probing = FALSE
SYMMETRY Symmetry
INVARIANTS FramesPartition PinsProtect CleanMeansSaved
CHECK_DEADLOCK FALSE
