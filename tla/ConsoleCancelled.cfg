\* A console capture that times out between request and response.
SPECIFICATION Spec
CONSTANTS
  a = a
  b = b
  c = c
  shot = shot
  None = None
  Viewers = {a, b, c}
  Controllers = {a, b}
  Relayed = {}
  Captures = {shot}
  MaxClaims = 2
  MaxStreams = 2
  MaxQueue = 2
  MaxEnds = 0
SYMMETRY Symmetry
CHECK_DEADLOCK FALSE
INVARIANT AnswersMatch
