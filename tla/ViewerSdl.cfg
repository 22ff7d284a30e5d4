SPECIFICATION Spec
CONSTANTS
  MaxPackets = 5
  MaxUserEvents = 3
  MaxEvents = 3
INVARIANTS
  TypeOK
  NoRace
  NoEmptyPop
  FrameAccounting
PROPERTIES
  ShownInOrder
  EveryFrameShown
  QuitEnds
CHECK_DEADLOCK FALSE
