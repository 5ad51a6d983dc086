SPECIFICATION Spec
CONSTANTS
  MaxEvidence = 2
  MaxNumber = 3
  Values <- MCValues
  Settings <- MCSettings
INVARIANTS
  TypeOK
  
  CommitIsPreparedOnce
  CommitIsAccounted
CHECK_DEADLOCK FALSE
