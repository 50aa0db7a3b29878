SPECIFICATION Spec
CONSTANTS
  None = None
  Uids = {"u1", "u2"}
  Revs = {1, 2, 3}
  ETags = {1, 2, 3, 4, 5, 6}
  SrcHrefs = {"s1", "s2"}
  DstHrefs = {"d1", "d2"}
  DestHref <- Apart
  SrcMode = "none"
  DstMode = "stable"
  PutMode = "stable"
  Rewrites = TRUE
  UniqueUids = TRUE
  SrcBodies <- SrcPlain
  DstBodies <- DstPlain
  DstEditPcs <- NotInReadBack
  FaultKinds = {}
  Threshold = 2
  Resets = FALSE
  Legacy = FALSE
  MaxEdits = 3
  MaxFaults = 1
INVARIANTS
  SettledMirrors
