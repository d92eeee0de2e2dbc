SPECIFICATION Spec
CONSTANTS
  KernelLba = 101
  KernelNsec = 7
  KernelUsed = 6
  Programs <- MainCalls
  Flaky = {}
  MaxResets = 0
INVARIANTS
  StartsAtEntry
