CONSTANTS
  k1 = k1
  k2 = k2
  m1 = m1
  Compensator = {k1, k2}
  Reconciler = {m1}
  MaxCalls = 4
  MaxEdits = 3
SPECIFICATION Spec
SYMMETRY MCSymmetry
CHECK_DEADLOCK FALSE
INVARIANTS
  TypeOK
  AppliedAtMostOnce
  JournalIsTrue
  OriginalIsKept
PROPERTIES
  EditIsCompared
