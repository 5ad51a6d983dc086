CONSTANTS
  s1 = s1
  w1 = w1
  w2 = w2
  read = read
  write = write
  Task <- MCTask
  Node = {write}
  SideEffect = {write}
  Owner = {w1, w2}
  None = None
  Operation = {write}
  SessionOf <- MCSession
  NoSession = NoSession
  MaxRestarts = 1
  MaxToken = 2
  MaxAttempts = 2
SYMMETRY MCSymmetry
CONSTRAINT JournalBeforeAttempts
SPECIFICATION MCSpec
CHECK_DEADLOCK FALSE
INVARIANTS
  StoreTypeOK
  RunningNodeHasAttempt
  AttemptFencing
PROPERTIES
  LiveLeaseIsKept
  ImplementsLease
