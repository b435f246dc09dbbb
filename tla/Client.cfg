\* A user and the heartbeat, channels of one, three requests, the first of which
\* may be misread, two connections.
CONSTANTS
  u = u  Heart = heart
  User = {u}
  ChanSize = 1
  Awkward = {1}
  MaxReq = 3
  MaxConn = 2
SPECIFICATION FairSpec
INVARIANTS TypeOK InOnePlace PairedUntilBroken
PROPERTIES CloseEnds Answered
CHECK_DEADLOCK FALSE
