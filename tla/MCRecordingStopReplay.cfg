SPECIFICATION Spec
CONSTANTS
  None = None
  RecordingIds = {"r1", "r2"}
  StartRequests <- TwoStarts
  StopRequests <- TwoStops
  Generations = {1}
  Numbers = {1}
  QueueCapacity = 1
  Faults <- StartFault
  MaxBoots = 1
  MaxCaptures = 1
INVARIANT StopReplayAnswered
CHECK_DEADLOCK FALSE
