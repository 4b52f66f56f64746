SPECIFICATION FairSpec
CONSTANTS
  Rids = {"r0", "r1"}
  Channels <- TwoChannels
  MaxHandles = 7
  MaxShares = 2
  Objects <- TheObjects
  Types <- TheTypes
  TypeOf <- TheTypeOf
  Addrs <- SixAddrs
  Threads = {"main"}
  NoAddr = 0
  NoObject = "no object"
CHECK_DEADLOCK FALSE
INVARIANTS
  HandlesAreOwned
  
  MediaFindTheirWay
PROPERTIES
  OpenedTracksGetDevices
