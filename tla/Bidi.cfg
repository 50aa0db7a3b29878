SPECIFICATION SettingSpec
CONSTANTS
  None = None
  Uids = {"u1", "u2"}
  Revs = {1, 2, 3}
  ETags = {1, 2, 3, 4, 5, 6, 7, 8}
  Hrefs = {"n1", "n2", "x1"}
  DestHref <- Named
  UserHomes <- Homes
  UserBodies <- AllBodies
  Policies = {TRUE, FALSE}
  Modified <- Times
  ListModes <- AllLists
  PutMode <- PutTags
  EditPcs = {"idle", "listA", "listB", "resolveA", "resolveB", "merge", "finish"}
  FaultKinds = {"call", "lost", "empty", "crash"}
  Threshold = 2
  Resets = TRUE
  MaxEdits = 2
  MaxFaults = 1
INVARIANTS
  TypeOK
  CopiesOnlyChanges
  DeletesOnlyUnchanged
  NewestSurvives
  VanishGuard
  SettledInSync
PROPERTIES
  PreviewHolds
  Converges
