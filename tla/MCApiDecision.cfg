CONSTANTS
  p1 = p1
  p2 = p2
  s1 = s1
  s2 = s2
  c1 = c1
  c2 = c2
  x1 = x1
  x2 = x2
  x3 = x3
  d1 = d1
  go = go
  stop = stop
  None = None
  Principal = {p1, p2}
  Slot = {x1, x2, x3, d1}
  PrincipalOf <- PrincipalOfSlot
  Parent <- ParentOfSlot
  Session = {s1, s2}
  Caller = {c1, c2}
  Body = {go, stop}
  CostOf <- CostOfBody
  MaxRuns = 2
  Settings <- DecisionSettings
SPECIFICATION FairSpec
CHECK_DEADLOCK FALSE
PROPERTY DecisionIsQueued
