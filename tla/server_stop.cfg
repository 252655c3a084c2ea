SPECIFICATION FairSpec
CONSTANTS
  Conn = {c1, c2}
  MaxClients = 2
  NWorkers = 2
  NULL = NULL
  Scenes <- LookingUpOrStopping
INVARIANTS
  ReferencesLive
  ExitLeavesNothing
PROPERTIES
  ModuleSpec
  RemoveReturns
  SignalEnds
