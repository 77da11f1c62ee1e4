SPECIFICATION MCSpec
CONSTANTS
    Clients = {"a"}
    Publishers = {"http"}
    Capacity = 2
    MaxPublished = 4
    MaxBoots = 2
    MaxDrops = 2
    Runs = {1, 2}
    ChannelLimit = 2
    StageLimit = 1
    MaxLines = 1
    Loggers = {"hotkeys", "daemon"}
    RecentLimit = 2
    MaxLogged = 4
CHECK_DEADLOCK FALSE
INVARIANTS
  BufferIsLatest
  DeliveredOnceInOrder
  FeedsAreTruthful
PROPERTIES
  StreamsEnd
