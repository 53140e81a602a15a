SPECIFICATION FairSpec
CONSTANTS
  TotalEntries = 5
  BlockSize = 4
  SizeRange = 64
  Saddr = 3
  Requests = {1, 4, 7, 12}
  c1 = c1
  c2 = c2
  c3 = c3
  Clients = {c1, c2, c3}
INVARIANTS
  TypeOK
  NoOverlap
  TableMatchesHeld
  FirstFit
  ScanInv
PROPERTIES
  RefinesAllocator
  KmallocReturns
