SPECIFICATION ViewsSpec
CONSTANTS
  a1 = a1
  a2 = a2
  Artifacts = {a1, a2}
  Kinds <- MCKinds
  NoArtifact = NoArtifact
  MaxSelects = 4
INVARIANTS
  ShownAlive
  NeverBlank
  TextPreviewSettles
CHECK_DEADLOCK FALSE
