SPECIFICATION FairSpec
CONSTANTS
  PageLen = 2
  Base = 2
  LbaBytes = 2
  Buffers = {1, 4, 6}
  InitialImage <- Image
  InitialMemory <- Memory
  MaxCalls = 3
INVARIANTS
  TypeOK
PROPERTIES
  CallsComplete
  ImplementsBlockDevice
CHECK_DEADLOCK FALSE
