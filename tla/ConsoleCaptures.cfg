\* A capture of the desktop fails, console captures time out, the relay link is lost.
SPECIFICATION FairSpec
CONSTANTS
  a = a
  b = b
  c = c
  shot = shot
  None = None
  Viewers = {a, b}
  Controllers = {a, b}
  Relayed = {a}
  Captures = {shot}
  MaxClaims = 2
  MaxStreams = 2
  MaxQueue = 1
  MaxEnds = 1
CHECK_DEADLOCK FALSE
INVARIANTS TypeOK 
PROPERTIES SwitchKeepsClaim ClaimReleased
