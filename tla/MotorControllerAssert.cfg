SPECIFICATION Spec
CONSTANTS
  Timeout = 2
  Levels <- MCLevels
  MaxSocket = 1
INVARIANT AssertedLevels
CHECK_DEADLOCK FALSE
