CONSTANTS
  Threads = {t1, t2}
  Keys = {k1, k2, k3}
  MaxRequests = 2
  Window = 2
  SweepInterval = 1
  MaxKeys = 1
  MaxDelay = 1
  MaxTime = 3
SPECIFICATION Spec
INVARIANTS Quota KeysBounded
CHECK_DEADLOCK FALSE
SYMMETRY Symmetry
