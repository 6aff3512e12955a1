SPECIFICATION Spec
CONSTANTS
  Ring = 4
  Dma = 2
  Chunk = 2
  Width = 8
  WriteSizes = {6}
INVARIANTS TypeOK DrainedIsHeard IrqBalanced
PROPERTIES KeepsOrder CallsReturn
