SPECIFICATION FairSpec
CONSTANTS
  None = None
  Uids = {"u1"}
  Revs = {1, 2, 3}
  ETags = {1, 2, 3, 4, 5, 6}
  SrcHrefs = {"s1", "s2"}
  DstHrefs = {"d1", "d2", "d3"}
  DestHref <- Spread
  SrcMode = "stable"
  DstMode = "stable"
  PutMode = "stable"
  Rewrites = TRUE
  UniqueUids = TRUE
  SrcBodies <- SrcNoUid
  DstBodies <- DstPlain
  DstEditPcs = {"idle", "readback", "next"}
  FaultKinds = {"call", "lost", "empty", "crash"}
  Threshold = 2
  Resets = TRUE
  Legacy = FALSE
  MaxEdits = 2
  MaxFaults = 1
PROPERTIES
  Converges
