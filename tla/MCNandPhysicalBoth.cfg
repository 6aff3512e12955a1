SPECIFICATION Spec
CONSTANTS
  Blocks = 3
  BlockPages = 2
  FsFirst = 1
  FsEnd = 3
  Manifest <- MCManifest
  Values = {"a"}
  Markers = {"bad"}
  Kernels = {"linux42", "legacy"}
  StatusLies = FALSE
INVARIANTS MarkersKnown
VIEW MCView
