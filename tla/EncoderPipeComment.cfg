SPECIFICATION Spec
CONSTANTS
  Byte = {0, 1, 2, 255}
  Frames <- MCFrames
  Beyond <- MCBeyond
  MaxFrames = 3
INVARIANT BodiesAreFrames
CHECK_DEADLOCK FALSE
