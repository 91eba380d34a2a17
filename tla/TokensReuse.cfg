CONSTANTS
  Requests = {r1, r2}
  Expiry = 3
  Leeway = 1
  Grace = 1
  MaxTokens = 4
  MaxTime = 0
SPECIFICATION Spec
INVARIANT FamilyInvalidated
SYMMETRY HandlerSymmetry
CHECK_DEADLOCK FALSE
