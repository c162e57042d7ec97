SPECIFICATION Spec
CONSTANTS
  NoPort = NoPort
  NoSession = NoSession
  NoId = NoId
  containerName <- MCName
  Sessions = {s1, s2, s3}
  Ports = {30001, 30002}
  Ids = {i1, i2, i3}
  Callers = {c1, c2}
  MaxFaults = 1
  MaxCrashes = 1
SYMMETRY Symmetry
INVARIANTS
  PoolPartition
  NoOrphan
  LeaseBacksInstance
PROPERTIES
  RecoveryComplete
  ImplementsEnvironment
CHECK_DEADLOCK FALSE
