CONSTANTS
  s1 = s1
  r1 = r1
  r2 = r2
  p1 = p1
  p2 = p2
  d1 = d1
  d2 = d2
  read = read
  commit = commit
  Task <- OneTask
  Node = {read, commit}
  SideEffect = {commit}
  Owner = {r1, p1}
  None = None
  Operation = {commit}
  SessionOf <- OneSession
  NoSession = NoSession
  MaxRestarts = 1
  MaxToken = 9
  MaxAttempts = 3
  Action <- Actions1
  Runner = {r1}
  Executor = {p1}
  Desk = {d1, d2}
  Planned = {1}
  PlanAttempts = 2
  ToolOutcome = {"succeeded"}
  MayCrash = {r1, p1, d1}
  UserAction = {}
  MayDrift = TRUE
  MayExpire = TRUE
  MayBeLate = TRUE
SPECIFICATION FairSpec
CHECK_DEADLOCK FALSE
PROPERTIES
  ExecutionEnds
