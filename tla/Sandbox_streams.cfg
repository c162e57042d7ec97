SPECIFICATION Spec
CONSTANTS
  NoSession = NoSession
  NoQuery = NoQuery
  Sessions = {s1}
  Queries = {q1, q2}
  Replies = {r1, r2}
  MaxBuffer = 2
  MaxSent = 4
SYMMETRY Symmetry
INVARIANTS
  OthersAborted
  NothingLost
  InOrder
  CompleteIsLast
  MemoryFreed
CONSTRAINT Bounded
CHECK_DEADLOCK FALSE
