SPECIFICATION Spec
CONSTANTS
  BufCount = 4
  FrameNumbers = 7
  FaultSets = {{}, {"select"}, {"soft"}, {"select", "soft", "hard"}}
INVARIANTS
  TypeOK
  BuffersAccounted
  MemoryOutlivesUse
  LeaseIsStable
PROPERTIES
  LockReturns
  StrandedLockIsFatal
  ImplementsLease
CHECK_DEADLOCK FALSE
