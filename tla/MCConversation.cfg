SPECIFICATION Spec
CONSTANTS
  s1 = s1
  s2 = s2
  a1 = a1
  b1 = b1
  c1 = c1
  Sessions = {s1, s2}
  Contents = {a1, b1, c1}
  Topics = {"t"}
  MaxId = 8
  Threshold = 3
  Window = 4
  FallbackWindow = 2
  Settings <- MCSettings
INVARIANTS
  TypeOK
  CheckpointIsCovered
  OneVoice
CHECK_DEADLOCK FALSE
