SPECIFICATION Spec
CONSTANTS
  NProcs = 2
  Table <- TwoProcs
  StackTop = 15
  RegFiles <- OneRegFile
  Calls <- Services
  Args = {5, 6, 7}
  Lbas = {7}
  Keys = {65}
  NoKey = 300
  Junk = 301
  MaxPush = 0
  KernelDepth = 4
  MayEnd = TRUE
PROPERTIES
  ImplementsCoroutines
