SPECIFICATION Spec
CONSTANTS
  None = None
  RecordingIds = {"r1", "r2"}
  StartRequests <- TwoStarts
  StopRequests <- OneStop
  Generations = {1, 2}
  Numbers = {1, 2}
  QueueCapacity = 1
  Faults <- AllFaults
  MaxBoots = 2
  MaxCaptures = 2
INVARIANTS TypeOK OneDirectory FinalizedComplete LedgerMatchesDisk ActiveHasWorker FramesConserved FinalizedOrdered
CONSTRAINT ThreeFrames
CHECK_DEADLOCK FALSE
