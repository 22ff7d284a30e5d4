SPECIFICATION Spec
CONSTANTS
  Byte = {0, 1, 2, 255}
  Frames <- MCFrames
  Beyond <- MCBeyond
  MaxFrames = 3
INVARIANTS
  TypeOK
  FrameBoundariesKept
  NothingHeldBack
PROPERTIES
  FrameReleased
  ViewerEnds
CHECK_DEADLOCK FALSE
