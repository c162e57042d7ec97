SPECIFICATION Spec
CONSTANTS
  Sessions = {a, b}
  Stored = {a}
  NoSession = NoSession
  MAX_RECONNECT_ATTEMPTS = 1
  MaxOps = 3
  MaxChunks = 1
INVARIANTS
  Settled
  InSync
  OneSession
PROPERTIES
  StreamingEnds
CHECK_DEADLOCK FALSE
