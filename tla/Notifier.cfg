SPECIFICATION FairSpec
CONSTANTS
  Keys = {"k1"}
  Fetchers = {"notifier", "client"}
  Watcher = "notifier"
  Ttls = {1}
  Ttl = 1
  Retention = 2
  LedgerRetention = 2
  Oldest = 3
  Threshold = 1
  HasTags = TRUE
  FaultKinds = {"down", "call", "put", "db", "send", "stop"}
  MaxChanges = 1
  MaxFaults = 2
  Feeds = {"f1"}
  SourcesOf <- OneSource
  UrlOf <- OwnUrl
  EventsOf <- Lasting
INVARIANTS
  TypeOK
  FreshEnough
  MessagesAlternate
  LedgerHonest
PROPERTIES
  CatchesUp
  OutagesReported
