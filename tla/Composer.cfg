SPECIFICATION ComposerSpec
CONSTANTS
  MaxPieces = 3
  MaxFiles = 2
  MaxSubmits = 2
  MaxStarts = 2
INVARIANTS
  UploadedOnce
  TextKept
  MicShown
CHECK_DEADLOCK FALSE
