SPECIFICATION Spec
CHECK_DEADLOCK FALSE
CONSTANTS
  Tasks = {a, b}
  Kernel = k
  TotalInterrupts = 6
  Exceptions = 2
  ISR_KEYBOARD = 3
  ISR80H = 4
  MaxCommands = 11
INVARIANTS
  BasePointerKept
