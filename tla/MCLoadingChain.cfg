SPECIFICATION Spec
CHECK_DEADLOCK FALSE
CONSTANTS
  SectorSize = 4
  DiskSectors = 19
  ReservedSectors = 2
  FatCopies = 1
  SectorsPerFat = 4
  RootDirEntries = 4
  SectorsPerCluster = 2
  ItemSize = 2
  FatEntrySize = 2
  MaxFileDescriptors = 3
  MaxPath = 9
  Volumes <- MCChainVolumes
  Paths <- MCChainPaths
  Modes = {"r", "w", "x"}
  Sizes = {0, 3}
  Counts = {1, 2}
  Offsets = {5}
  MaxPos = 10
  PageSize = 4
INVARIANTS
  ReadsAnyCluster
