SPECIFICATION Spec
CONSTANTS
  p1 = p1
  p2 = p2
  Procs = {p1, p2}
  NFrames = 5
  MaxAllocations = 2
  Sizes = {1, 2}
  ImagePages = 1
  SegmentPages = 1
  StackPages = 1
SYMMETRY ProcSymmetry
INVARIANTS
  RunsAccounted
  WriteIsolation
  AllocationsMapped
  NoWildFree
CHECK_DEADLOCK FALSE
