SPECIFICATION FairSpec
CONSTANTS
  NWorkers = 2
  NConns = 2
  NRequests = 2
  NSteps = 2
  AVG_SECONDS = 2
  Scenes <- AllScenes
INVARIANTS AnswersMatch AverageOfRecent
PROPERTIES StepCompletes ReportsCount Ends
CHECK_DEADLOCK FALSE
