SPECIFICATION Spec
CONSTANTS
  N = 2
  Sizes = {small, large}
  None = None
  Backends = {"VideoToolbox"}
PROPERTY StreamOfRid
CHECK_DEADLOCK FALSE
