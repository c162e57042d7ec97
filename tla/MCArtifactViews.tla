---------------------------- MODULE MCArtifactViews ----------------------------
(* The kinds of artifact the three views tell apart; with the two pure modules *)
(* of the artifact lists, whose assumptions TLC evaluates first.               *)
EXTENDS ArtifactViews, ArtifactTree, CsvPreview

CONSTANTS a1, a2

K(type, ext, data) == [type |-> type, ext |-> ext, data |-> data]

MCKinds ==
  {K("image", "image", FALSE), K("image", "image", TRUE), K("report", "pdf", FALSE),
   K("report", "md", FALSE), K("report", "html", FALSE), K("code", "other", FALSE),
   K("csv", "csv", FALSE), K("data", "table", FALSE), K("data", "other", FALSE),
   K("file", "office", FALSE), K("file", "image", FALSE), K("webapp", "html", FALSE),
   K("image", "office", FALSE), K("report", "pdf", TRUE), K("file", "other", TRUE),
   K("diagram", "other", FALSE)}
=============================================================================
