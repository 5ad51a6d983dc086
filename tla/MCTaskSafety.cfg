CONSTANTS
  w1 = w1
  w2 = w2
  read = read
  write = write
  Owner = {w1, w2}
  None = None
  NoSession = NoSession
  Direct = direct
  Task <- OneTask
  SessionOf <- OneSession
  Node = {read, write}
  SideEffect = {write}
  Operation = {write, direct}
  MaxRestarts = 1
  MaxToken = 5
  MaxAttempts = 2
  Settings <- SafetySettings
SYMMETRY MCSymmetry
SPECIFICATION Spec
CHECK_DEADLOCK FALSE
INVARIANTS
  TypeOK
  NoCallInFlightWhenQueued
  AppliedAtMostOnce
  CancelWins
