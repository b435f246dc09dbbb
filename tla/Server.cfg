SPECIFICATION FairSpec
CONSTANTS
  c1 = c1
  c2 = c2
  Conn = {c1, c2}
  Loads <- MCLoads
CHECK_DEADLOCK FALSE
INVARIANTS
  TypeOK
  AsSent
PROPERTIES
  CloseWaits
  Refused
  Reaped
  ShutdownEnds
