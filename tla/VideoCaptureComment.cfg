SPECIFICATION Spec
CONSTANTS
  BufCount = 4
  FrameNumbers = 7
  FaultSets = {{"select", "soft"}}
PROPERTIES
  LockReturnsNextFrame
CHECK_DEADLOCK FALSE
