SPECIFICATION Spec
CONSTANTS
  MaxFd = 5
  MaxUnread = 1
  OldPackets = 4
INVARIANTS
  TypeOK
  DeliveredInOrder
  OwnDescriptorsOnly
PROPERTY BroadcastEnds
CHECK_DEADLOCK FALSE
