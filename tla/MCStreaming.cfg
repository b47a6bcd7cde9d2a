SPECIFICATION Spec
CONSTANTS
  s1 = s1
  s2 = s2
  None = None
  Sessions <- MCSessions
  Kinds = {"DEPTH"}
  Generations = {1, 2}
  Numbers = {1, 2}
  MaxConnections = 2
  MaxStreamClients = 1
SYMMETRY MCSymmetry
CHECK_DEADLOCK FALSE
INVARIANTS
  TypeOK
  CountsMatch
  SessionHasHandler
  NoLostWakeupLater
  PartsGetNewer
