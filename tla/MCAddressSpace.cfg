SPECIFICATION Spec
CONSTANTS
  Offsets = {0, 1, 2, 254, 255, 256, 510, 511, 512, 513, 767, 1022, 1023}
  StackPointers = {0, 1, 127, 128, 248, 251, 252, 253, 254, 255}
  DumpLengths = {1, 15, 16, 17, 32, 33}
INVARIANTS
  SpawnIsRotation
  KernelFindsArguments
  KernelFindsNumber
  KernelFindsFrame
  SectorsLandWhereLinked
  TransferStaysInBuffer
  DumpShowsMemory
