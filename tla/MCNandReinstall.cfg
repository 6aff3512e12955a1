SPECIFICATION Spec
CONSTANTS
  Blocks = 6
  BlockPages = 3
  BootBlocks = 3
  FsEnd = 4
  SplBlocks = 1
  Voters = 3
  Quorum = 2
  Images = 2
  MaxWorn = 1
  MaxFaults = 1
  MaxUses = 2
INVARIANTS PackedBoots QuarantineKept
PROPERTIES MarkersSurvive
