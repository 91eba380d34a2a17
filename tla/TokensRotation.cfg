CONSTANTS
  Requests = {r1, r2}
  Expiry = 2
  Leeway = 1
  Grace = 1
  MaxTokens = 3
  MaxTime = 4
SPECIFICATION Spec
INVARIANTS PruneKeepsDetection NewestTokenKept
PROPERTY NoSecondRotation
SYMMETRY HandlerSymmetry
CHECK_DEADLOCK FALSE
