SPECIFICATION Spec
CONSTANTS
  ByteBits = 2
  PermBytes = 2
  PpnWidth = 1
  Writes <- SomeWrites
  Values <- AllValues
INVARIANTS
  TypeOK
  OneNmiPerFault
  ReadBack
PROPERTIES
  StoresLand
