SPECIFICATION Spec
CONSTANTS
  a = a
  b = b
  Images = {a, b}
  MaxPages = 3
  Settings <- MCSettings
INVARIANTS
  TypeOK
  StoresAgree
  ReportIsTrue
PROPERTIES
  SensitiveIsGuarded
CHECK_DEADLOCK FALSE
