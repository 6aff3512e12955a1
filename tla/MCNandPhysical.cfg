SPECIFICATION Spec
CONSTANTS
  Blocks = 4
  BlockPages = 2
  FsFirst = 1
  FsEnd = 3
  Manifest <- MCManifest
  Values = {"a", "b"}
  Markers = {"clean"}
  Kernels = {"linux42"}
  StatusLies = TRUE
INVARIANTS ReadsAreTrue NeverTwice
PROPERTIES QuarantineKept FailureSticks
