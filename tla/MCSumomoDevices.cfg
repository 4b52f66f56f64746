SPECIFICATION FairSpec
CONSTANTS
  Duration = 2
  Rate = 3
  Unit = 2
  MaxTime = 8
  BufferCount = 3
  Chunk = 2
  FrameSize = 3
  MaxHeard = 10
  MaxFragments = 4
  Unused = Unused
CHECK_DEADLOCK FALSE
INVARIANTS
  FramesHaveTheirSource
  AudioIsFramed
  StopGivesBack
  ThreadsMeet
PROPERTIES
  StopReturns
  ImplementsFrameSource
