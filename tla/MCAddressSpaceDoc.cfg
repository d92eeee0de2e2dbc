SPECIFICATION Spec
CONSTANTS
  Offsets = {0, 255, 511, 512, 513, 1023}
  StackPointers = {252}
  DumpLengths = {16}
INVARIANT CrossingIsNotContiguous
