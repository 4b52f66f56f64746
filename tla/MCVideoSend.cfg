SPECIFICATION Spec
CONSTANTS
  N = 2
  Sizes = {small, large}
  None = None
  Backends = {"OpenH264", "VideoToolbox"}
INVARIANTS
  EncodersAreReady
  NotReadyOnlyOnReturn
PROPERTIES
  KeyFrameAfterPli
  PictureKeepsItsPlace
CHECK_DEADLOCK FALSE
