\* Takeovers and display switches while a capture of the desktop may end.
SPECIFICATION Spec
CONSTANTS
  a = a
  b = b
  c = c
  shot = shot
  None = None
  Viewers = {a, b, c}
  Controllers = {a, b}
  Relayed = {}
  Captures = {}
  MaxClaims = 4
  MaxStreams = 4
  MaxQueue = 1
  MaxEnds = 1
SYMMETRY Symmetry
CHECK_DEADLOCK FALSE
INVARIANTS AnswersMatch 
PROPERTY StopHitsOwnStream
