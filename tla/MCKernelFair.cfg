SPECIFICATION FairSpec
CONSTANTS
  NProcs = 3
  Table <- ThreeProcs
  StackTop = 15
  RegFiles <- OneRegFile
  Calls <- YieldAndGetc
  Args = {5, 6, 7}
  Lbas = {7}
  Keys = {65}
  NoKey = 300
  Junk = 301
  MaxPush = 0
  KernelDepth = 4
  MayEnd = FALSE
PROPERTIES
  RoundRobin
  EveryoneRuns
  CallsReturn
