SPECIFICATION Spec
CONSTANTS
  Byte <- MCByte
  Values <- RingValues
  Sizes <- RingSizes
  Fill = 0
VIEW LiveView
INVARIANTS TypeOK LVerify LayoutInv CopyOffsets
PROPERTY ImplementsList
