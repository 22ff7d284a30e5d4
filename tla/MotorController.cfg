SPECIFICATION Spec
CONSTANTS
  Timeout = 2
  Levels <- MCLevels
  MaxSocket = 1
INVARIANTS
  TypeOK
  NoRunaway
  CommandsWhole
  HandlerBetweenTurns
PROPERTY InterruptServed
CHECK_DEADLOCK FALSE
