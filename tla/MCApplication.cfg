SPECIFICATION FairSpec
CONSTANTS
  None = None
  MaxRuns = 2
  Numbers = {1, 2}
CHECK_DEADLOCK FALSE
INVARIANTS
  TypeOK
  UsesLiveObjects
  QuietAtRest
  FramesOfThisRun
  PilotIsTold
PROPERTIES
  AnswersGoForward
  HealthAnswered
  StopReturns
