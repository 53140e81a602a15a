SPECIFICATION Spec
CONSTANTS
  Procs = {1, 2}
  BufferSize = 2
  CounterRange = 4
  ScanSetSize = 3
  ScanSet <- MCLetterSet
  ReleasedBit = 5
  Capslock = 2
INVARIANTS
  RingIntact
PROPERTIES
  RefinesKeyQueue
