SPECIFICATION Spec
CONSTANTS
  Byte = {0, 1, 2, 3, 255}
  Frames <- MCFrames
  CameraFrames <- MCCameraFrames
  SizeImage = 10
  Memory <- MCMemory
  MAXRECVSTRING = 8
  MaxDatagram = 10
  MaxFrames = 3
  MaxInFlight = 3
INVARIANTS
  TypeOK
  LossNeverSplices
  LastNalHeldBack
PROPERTY NextFrameReleases
CHECK_DEADLOCK FALSE
