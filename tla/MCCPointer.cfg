SPECIFICATION Spec
CONSTANTS
  track1 = track1
  track2 = track2
  buffer = buffer
  Track = Track
  Buffer = Buffer
  a1 = a1
  a2 = a2
  Objects <- MCObjects
  Types <- MCTypes
  TypeOf <- MCTypeOf
  Addrs <- MCAddrs
  Threads = {t1}
  NoAddr = NoAddr
  NoObject = NoObject
  MaxHandles = 4
  MaxShares = 2
SYMMETRY Interchangeable
CHECK_DEADLOCK FALSE
INVARIANTS
  TypeOK
  LivingHandleResolves
  CountIsOwed
  OwnedIsAlive
  AliveIsHeld
  TableConsistent
PROPERTIES
  LiveEntryStays
  ImplementsRegistry
