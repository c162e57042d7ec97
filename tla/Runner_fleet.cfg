SPECIFICATION Spec
CONSTANTS
  NoInst = NoInst
  NoWorker = NoWorker
  NoSession = NoSession
  Loop = Loop
  Sessions = {s1}
  Workers = {w1, w2}
  Ids = {i1, i2}
  Callers = {c1, c2}
  MaxSends = 2
  MaxFaults = 0
  MaxCrashes = 0
  MaxLosses = 1
  MaxDeaths = 1
CONSTRAINT Bounded
SYMMETRY Symmetry
INVARIANTS
  EventsKept
  AgentRemembers
CHECK_DEADLOCK FALSE
