CONSTANTS
  Requests = {r1, r2, r3}
  MaxAttempts = 2
  Lockout = 3
  MaxDelay = 1
  MaxTrials = 5
  MaxTime = 12
SPECIFICATION Spec
INVARIANT TrialsAreSpaced
SYMMETRY RequestSymmetry
CHECK_DEADLOCK FALSE
