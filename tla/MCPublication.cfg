SPECIFICATION Safety
CONSTANTS
  a = a
  b = b
  n1 = n1
  n2 = n2
  Nodes = {n1, n2}
  Readers = {n1, n2}
  Lots = {a}
  Others = {b}
  Private <- ProxyLimitOfA
  Batch = 2
  MaxRows = 3
  MaxFaults = 2
SYMMETRY EitherNode
INVARIANTS TypeOK KeptUntilPublished
PROPERTIES IsOneFeed
CHECK_DEADLOCK FALSE
