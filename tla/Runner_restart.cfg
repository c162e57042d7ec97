SPECIFICATION Spec
CONSTANTS
  NoInst = NoInst
  NoWorker = NoWorker
  NoSession = NoSession
  Loop = Loop
  Sessions = {s1}
  Workers = {w1}
  Ids = {i1, i2, i3}
  Callers = {c1, c2}
  MaxSends = 2
  MaxFaults = 1
  MaxCrashes = 1
  MaxLosses = 0
  MaxDeaths = 0
CONSTRAINT Bounded
SYMMETRY Symmetry
INVARIANTS
  WorkKept
  Recoverable
  NoSpuriousRestore
  NoStray
CHECK_DEADLOCK FALSE
VIEW WorkView
