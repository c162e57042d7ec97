SPECIFICATION FairSpec
CONSTANTS
  NoRow = NoRow
  Wide = {}
  MaxText = 2
  MaxFrames <- MCMaxFrames
  MaxFaults = 1
INVARIANTS
  RowIsBeginning
  ReadIsStored
PROPERTIES
  RunReturns
CHECK_DEADLOCK FALSE
