SPECIFICATION Spec
CONSTANTS
  Conn = {c1, c2}
  MaxClients = 2
  NWorkers = 1
  NULL = NULL
  Scenes <- Interrupted
INVARIANTS
  ConnNumCounts
