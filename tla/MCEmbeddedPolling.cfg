SPECIFICATION FairHandleSpec
CONSTANTS
  Thread = {t1}
  Channel = {"demo", "tg"}
  Demo = {"demo"}
  Room = {"in", "out"}
  Rooms = {"in"}
  Window = 2
  MaxEntries = 1
  MaxTime = 0
  MaxPasses = 2
  MaxSubscribers = 1
  QueueMax = 2
  Feed <- Polled
  Filters <- FiltersDef
  Lobby = "in"
  Plugins <- PluginsDef
PROPERTY InboundArrives
CHECK_DEADLOCK FALSE
