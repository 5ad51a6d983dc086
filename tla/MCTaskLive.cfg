CONSTANTS
  w1 = w1
  w2 = w2
  read = read
  write = write
  Owner = {w1, w2}
  None = None
  NoSession = NoSession
  Direct = direct
  Task <- TwoTasks
  SessionOf <- NoSessions
  Node = {read}
  SideEffect = {}
  Operation = {direct}
  MaxRestarts = 0
  MaxToken = 4
  MaxAttempts = 2
  Settings <- LiveSettings
SPECIFICATION FairSpec
CHECK_DEADLOCK FALSE
PROPERTIES
  QueuedIsServed
  CancelIsHonoured
