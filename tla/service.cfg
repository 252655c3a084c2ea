SPECIFICATION Spec
CONSTANTS
  Cmd = {c1, c2, c3}
  Pid = {p1, p2, p3}
  NULL = NULL
  Lines <- ShortLines
  Scenes <- AnyUse
INVARIANTS
  OneServer
  FileNamesLiving
  Named
  StopStops
  LeavesRunning
SYMMETRY Alike
PROPERTIES ObeysCommandLine
