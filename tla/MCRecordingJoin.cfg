SPECIFICATION FairSpec
CONSTANTS
  None = None
  RecordingIds = {"r1", "r2"}
  StartRequests <- TwoStarts
  StopRequests <- TwoStops
  Generations = {1}
  Numbers = {1}
  QueueCapacity = 1
  Faults <- StopWriteFault
  MaxBoots = 1
  MaxCaptures = 1
PROPERTY StartReturns
CHECK_DEADLOCK FALSE
