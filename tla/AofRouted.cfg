\* A process that starts over a file another one left in database 1.
CONSTANTS
  c1 = c1  c2 = c2
  Conn = {c1, c2}
  DB = {0, 1}
  QueueSize = 2
  MaxCmd = 4
  MaxFail = 1
  MaxStop = 2
SPECIFICATION Spec
INVARIANTS RoutedAlways
CHECK_DEADLOCK FALSE
