SPECIFICATION Spec
CONSTANTS
  Byte = {0, 1}
  MaxInput = 15
INVARIANTS
  ViewerTypeOK
  PacketsTileStream
  SplitExactlyAtStartCodes
  SplittersAgree
CHECK_DEADLOCK FALSE
