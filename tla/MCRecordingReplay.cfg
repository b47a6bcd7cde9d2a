SPECIFICATION FairSpec
CONSTANTS
  None = None
  RecordingIds = {"r1", "r2"}
  StartRequests <- ThreeStarts
  StopRequests <- TwoStops
  Generations = {1}
  Numbers = {1}
  QueueCapacity = 1
  Faults <- CleanFaults
  MaxBoots = 2
  MaxCaptures = 1
INVARIANTS StopReplayAnswered StopEvidenceMatches ProviderNeverJoins
PROPERTIES ImplementsLifecycle FaultedStaysStaged RecordingEnds ShutdownReturns
CHECK_DEADLOCK FALSE
