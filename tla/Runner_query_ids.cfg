SPECIFICATION Spec
CONSTANTS
  NoInst = NoInst
  NoWorker = NoWorker
  NoSession = NoSession
  Loop = Loop
  Sessions = {s1}
  Workers = {w1}
  Ids = {i1, i2}
  Callers = {c1, c2}
  MaxSends = 2
  MaxFaults = 0
  MaxCrashes = 1
  MaxLosses = 0
  MaxDeaths = 0
CONSTRAINT Bounded
SYMMETRY Symmetry
INVARIANTS
  EventsKept
CHECK_DEADLOCK FALSE
