SPECIFICATION FairSpec
CONSTANTS
  s1 = s1
  s2 = s2
  None = None
  Sessions <- OneSession
  Kinds = {"COLOR", "DEPTH"}
  Generations = {1, 2}
  Numbers = {1}
  MaxConnections = 1
  MaxStreamClients = 1
CHECK_DEADLOCK FALSE
PROPERTIES
  StopReturns
  SessionsEnd
