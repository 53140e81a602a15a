SPECIFICATION FairSpec
CONSTANTS
  Width = 3
  Height = 3
  Letters = {"x", " "}
  Banner <- MCBanner
  MaxLine = 5
  MaxAllocations = 3
  Capacity = 2
  MaxKeys = 5
  MaxOutput = 1
INVARIANTS
  TypeOK
  EchoMatchesLine
  BackspaceUndoes
PROPERTIES
  
  KeysRead
