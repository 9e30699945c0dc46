SPECIFICATION Spec
CONSTANTS
  c1 = c1
  c2 = c2
  a = a
  b = b
  Clients = {c1, c2}
  Data = {a, b}
  Zero = Zero
  Reset = Reset
  Torn = Torn
  Closed = Closed
  PoolSize = 1
  MaxPages = 3
  Probing = FALSE
SYMMETRY Symmetry
PROPERTY ImplementsPageStore
CHECK_DEADLOCK FALSE
