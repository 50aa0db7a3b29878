SPECIFICATION VariantSpec
CONSTANTS
  None = None
  Uids = {"u1", "u2"}
  Revs = {1, 2, 3}
  ETags = {1, 2, 3, 4, 5, 6}
  SrcHrefs = {"s1", "s2"}
  DstHrefs = {"d1", "d2", "d3"}
  DestHref <- Apart
  SrcMode = "stable"
  DstMode = "stable"
  PutMode = "stable"
  Rewrites = TRUE
  UniqueUids = TRUE
  SrcBodies <- SrcPlain
  DstBodies <- DstPlain
  DstEditPcs <- NotInReadBack
  FaultKinds = {"call", "lost", "empty", "crash"}
  Threshold = 2
  Resets = TRUE
  Legacy = FALSE
  MaxEdits = 3
  MaxFaults = 1
INVARIANTS
  TypeOK
  OneCopyPerItem
  DeletesOnlyGone
  VanishGuard
  NothingToDoWritesNothing
  SettledMirrors
  RecordedTagsTruthful
  NoOrphans
