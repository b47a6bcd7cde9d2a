SPECIFICATION Spec
CONSTANTS
  None = None
  MaxRuns = 1
  Numbers = {1, 2}
CHECK_DEADLOCK FALSE
PROPERTY NoStateAfterStopping
