SPECIFICATION HandleSpec
CONSTANTS
  Thread = {t1, t2}
  Channel = {"demo", "tg"}
  Demo = {"demo"}
  Room = {"in", "out"}
  Rooms = {"in"}
  Window = 2
  MaxEntries = 2
  MaxTime = 2
  MaxPasses = 6
  MaxSubscribers = 3
  QueueMax = 2
  Feed <- AllFeed
  Filters <- FiltersDef
  Lobby = "in"
  Plugins <- PluginsDef
SYMMETRY Symmetry
CONSTRAINT Studied
INVARIANTS
  HandleTypeOK
  DedupExact
  CallsMatchSubscriptions
  OldestLost
CHECK_DEADLOCK FALSE
