SPECIFICATION Spec
CONSTANTS
  PacketSize = 2
  Delay = 4
  MaxFrame = 5
  MaxSamples = 8
  MaxTime = 13
CHECK_DEADLOCK FALSE
INVARIANTS
  PacketsAreRight
  StallIsFailure
PROPERTIES
  SentOfAge
  WaitIsBounded
