SPECIFICATION HandleSpec
CONSTANTS
  Thread = {t1}
  Channel = {"demo"}
  Demo = {"demo"}
  Room = {"in"}
  Rooms = {}
  Window = 2
  MaxEntries = 2
  MaxTime = 2
  MaxPasses = 4
  MaxSubscribers = 1
  QueueMax = 5
  Feed <- Series
  Filters = {}
  Lobby = "in"
  Plugins <- DedupOnly
INVARIANT
  SeenIsDropped
CHECK_DEADLOCK FALSE
