SPECIFICATION Spec
CONSTANTS
  a1 = a1
  a2 = a2
  a3 = a3
  a4 = a4
  TaskAddrs = {a1, a2, a3, a4}
  Null = Null
  MaxProcesses = 4
  MaxLoads = 4
SYMMETRY AddressSymmetry
INVARIANT PrevIsPrevious
CHECK_DEADLOCK FALSE
