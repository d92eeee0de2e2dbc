SPECIFICATION FairSpec
CONSTANTS
  BpAddrs = {2, 3}
  Blocks = {b1, b2}
  NoSymbol = NoSymbol
  FirstSize = 1
  MaxBps = 2
  SymFiles <- MCSymFiles
  FirstSymCap = 2
  AddrSpace = 8
  Follow <- MCFollow
  Length <- MCLength
  Halts = {5}
  Vector = 7
  ResetPc = 0
  ResetCycles = 2
  PollInterval = 2
  StepCounts = {1, 2}
  Keys <- MCKeys
  Enter = "enter"
  CtrlC = "ctrl-c"
  ContKey = "c"
  MemKey = "m"
  RestartKey = "r"
  MaxKeys = 2
  None = None
INVARIANTS
  TypeOK
  BpListSound
  SymbolTableSound
PROPERTIES
  RemovalIsComplete
  ImplementsRunControl
  InterruptStops
  ResetStops
