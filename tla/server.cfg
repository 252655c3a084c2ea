SPECIFICATION Spec
CONSTANTS
  Conn = {c1, c2, c3}
  MaxClients = 2
  NWorkers = 2
  NULL = NULL
  Scenes <- Working
INVARIANTS
  AssertionsHold
  BytesMatchQueues
  PausedForAReason
  RowsFollowConnections
PROPERTIES
  TableSpec
