SPECIFICATION FairSpec
CONSTANTS
  Rows = 2
  Cols = 2
  Printable = {"a", "b"}
  Blank = " "
  NL = "nl"
  CR = "cr"
  BS = "bs"
  FF = "ff"
  TxCycles = 6
  PollCycles = 1
  PipeSize = 1
  ByteSize = 4
  Rom <- MCRom
  Null = "null"
  BootStart = 1
  Strings <- MCStrings
  MaxOut = 8
  MaxKeys = 3
  MaxResets = 1
INVARIANTS
  TypeOK
  TxPaced
  OutputsAgree
  KeysArrive
  ScreenShowsPaper
PROPERTIES
  Served
