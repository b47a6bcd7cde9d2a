SPECIFICATION FairSpec
CONSTANTS
  None = None
  ProviderStates <- States
  MaxSessions = 2
  MaxSequence = 3
  MaxRestarts = 1
  MaxLate = 1
  MaxStarts = 1
CHECK_DEADLOCK FALSE
INVARIANTS
  TypeOK
  StateConverges
  SequenceFresh
  OnlineIsPublished
PROPERTIES
  LossNoticed
  ClientStops
