SPECIFICATION FairSpec
CONSTANTS
  PageCount = 3
  BlockPages = 1
  FsFirstBlock = 1
  FsEndBlock = 2
  ByteBase = 2
  DataBytes = 4
  HalfPage = 2
  TagBytes = 2
  Word = 3
  Physical = TRUE
  Patterns <- MCPatterns
INVARIANTS BusNeverHangs LatchAgrees ReportsAreTrue CaptureAgrees
PROPERTIES ArenaProtected IsArray OperationsReturn
