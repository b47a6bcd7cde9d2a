SPECIFICATION Spec
CONSTANTS
  None = None
  ProviderStates <- States
  MaxSessions = 1
  MaxSequence = 2
  MaxRestarts = 0
  MaxLate = 0
  MaxStarts = 1
CHECK_DEADLOCK FALSE
INVARIANT CancelSparesDisconnect
