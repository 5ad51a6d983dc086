CONSTANTS
  s1 = s1
  r1 = r1
  r2 = r2
  p1 = p1
  p2 = p2
  d1 = d1
  d2 = d2
  read = read
  commit = commit
  Task <- OneTask
  Node = {commit}
  SideEffect = {commit}
  Owner = {r1, r2, p1, p2}
  None = None
  Operation = {commit}
  SessionOf <- OneSession
  NoSession = NoSession
  MaxRestarts = 1
  MaxToken = 6
  MaxAttempts = 3
  Action <- Actions2
  Runner = {r1, r2}
  Executor = {p1, p2}
  Desk = {d1}
  Planned = {}
  PlanAttempts = 2
  ToolOutcome = {"succeeded", "unknown"}
  MayCrash = {}
  UserAction = {"cancel"}
  MayDrift = FALSE
  MayExpire = FALSE
  MayBeLate = FALSE
SPECIFICATION Spec
SYMMETRY MCSymmetry
CHECK_DEADLOCK FALSE
INVARIANTS
  TypeOK
  WaitingIsDecidable
  ExecutedOnce
