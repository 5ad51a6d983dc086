SPECIFICATION IndexSpec
CONSTANTS
  Paths = {"a", "b", "w"}
  Pages = {"w"}
  Versions <- MCVersions
  Procs = {"p1", "p2"}
  IndexThreads = {"t1", "t2", "t3"}
  ProcOf <- MCProcOf
  Scenes <- MCScenes
  NoDoc = "none"
INVARIANTS IndexTypeOK IndexedIsFound VectorsMatchTheirLabel NoTwoVersionsCited
CHECK_DEADLOCK FALSE
