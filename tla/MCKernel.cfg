SPECIFICATION Spec
CONSTANTS
  NProcs = 2
  Table <- TwoProcs
  StackTop = 15
  RegFiles <- OneRegFile
  Calls <- YieldAndGetc
  Args = {5, 6, 7}
  Lbas = {7}
  Keys = {65}
  NoKey = 300
  Junk = 301
  MaxPush = 1
  KernelDepth = 4
  MayEnd = FALSE
INVARIANTS
  TypeOK
  OneRunning
  RightProcessRuns
PROPERTIES
  ContextsUntouched
  ImplementsCoroutines
