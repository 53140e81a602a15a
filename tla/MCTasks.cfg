SPECIFICATION FairSpec
CONSTANTS
  a1 = a1
  a2 = a2
  a3 = a3
  a4 = a4
  TaskAddrs = {a1, a2, a3, a4}
  Null = Null
  MaxProcesses = 4
  MaxLoads = 5
INVARIANTS
  TypeOK
  TasksOfTable
  FocusLoaded
  ListIntact
PROPERTIES
  RefinesRoundRobin
  EveryProcessRuns
CHECK_DEADLOCK FALSE
