\* Two connections, two databases, a channel of two; a write fails, the process
\* ends twice.
CONSTANTS
  c1 = c1  c2 = c2
  Conn = {c1, c2}
  DB = {0, 1}
  QueueSize = 2
  MaxCmd = 4
  MaxFail = 1
  MaxStop = 2
SPECIFICATION FairSpec
INVARIANTS TypeOK RoutedRight ExactlyOnceInOrder LossBounded
PROPERTIES Written SenderReturns
CHECK_DEADLOCK FALSE
