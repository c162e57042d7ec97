SPECIFICATION FairSpec
CONSTANTS
  NoPort = NoPort
  NoSession = NoSession
  NoId = NoId
  containerName <- MCShortName
  Sessions = {s1, s2}
  Ports = {30001, 30002}
  Ids = {i1, i2}
  Callers = {c1, c2}
  MaxFaults = 1
  MaxCrashes = 1
INVARIANTS
  NoLeakedLease
PROPERTIES
  CallsReturn
CHECK_DEADLOCK FALSE
