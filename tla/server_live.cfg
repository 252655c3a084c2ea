SPECIFICATION FairSpec
CONSTANTS
  Conn = {c1, c2, c3}
  MaxClients = 2
  NWorkers = 1
  NULL = NULL
  Scenes <- WorkingAlone
INVARIANTS
  ClosedOnce
PROPERTIES
  EofIsServed
  AcceptResumes
  AcceptedIsWatched
