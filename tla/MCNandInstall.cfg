SPECIFICATION Spec
CONSTANTS
  Blocks = 6
  BlockPages = 3
  BootBlocks = 3
  FsEnd = 4
  SplBlocks = 1
  Voters = 3
  Quorum = 2
  Images = 1
  MaxWorn = 2
  MaxFaults = 3
  MaxUses = 0
INVARIANTS BootNeverStale DriverKnowsChip
