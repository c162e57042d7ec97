SPECIFICATION PanelSpec
CONSTANTS
  s1 = s1
  s2 = s2
  Sessions = {s1, s2}
  NoSession = NoSession
  Old <- MCOld
  SESSION_PAGE_SIZE = 1
  MaxHostOps = 1
  MaxUserOps = 3
  MaxInFlight = 2
  MaxTyped = 2
CONSTRAINT Bounded
INVARIANTS
  CreateFollowed
  RowSettles
PROPERTIES
  ListOnce
  SearchesWanted
CHECK_DEADLOCK FALSE
