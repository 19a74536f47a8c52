SPECIFICATION Spec
CONSTANTS
  t1 = t1
  t2 = t2
  p1 = p1
  None = None
  Keys = {k1, k2}
  Versions = {1, 2, 3}
  Sparse = {2}
  Threads = {t1, t2}
  Processes = {p1}
  ProcessOf <- OneProcess
  Requests <- SmallRequests
  MaxFaults = 2
INVARIANTS Whole
PROPERTIES ImplementsNewestWins HookSeesRequest
SYMMETRY KeyThreadSymmetry
