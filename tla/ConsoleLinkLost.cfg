\* The relay link is lost under a viewer.
SPECIFICATION Spec
CONSTANTS
  a = a
  b = b
  c = c
  shot = shot
  None = None
  Viewers = {a, b, c}
  Controllers = {a, b}
  Relayed = {a}
  Captures = {}
  MaxClaims = 3
  MaxStreams = 3
  MaxQueue = 1
  MaxEnds = 0
CHECK_DEADLOCK FALSE
INVARIANT ReleasedWhenQuiet
