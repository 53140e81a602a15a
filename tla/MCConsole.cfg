SPECIFICATION ConsoleSpec
CONSTANTS
  a1 = a1
  a2 = a2
  a3 = a3
  TaskAddrs = {a1, a2, a3}
  Null = Null
  MaxProcesses = 3
  MaxLoads = 3
  BufferSize = 1
  CounterRange = 2
  ScanSetSize = 2
  ScanSet <- MCScanSet
  ReleasedBit = 4
  Capslock = 0
PROPERTIES
  RefinesKeyboard
CHECK_DEADLOCK FALSE
