SPECIFICATION FairSpec
CONSTANTS
  KernelLba = 253
  KernelNsec = 7
  KernelUsed = 6
  Programs <- Demo
  Flaky = {0, 214, 220}
  MaxResets = 2
INVARIANTS
  TypeOK
  KernelIntact
  ProgramsIntact
PROPERTIES
  Boots
