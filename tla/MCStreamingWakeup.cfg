SPECIFICATION Spec
CONSTANTS
  s1 = s1
  s2 = s2
  None = None
  Sessions <- OneSession
  Kinds = {"DEPTH"}
  Generations = {1}
  Numbers = {1, 2}
  MaxConnections = 1
  MaxStreamClients = 1
CHECK_DEADLOCK FALSE
INVARIANT NoLostWakeup
