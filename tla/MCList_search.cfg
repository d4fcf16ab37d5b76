SPECIFICATION Spec
CONSTANTS
  Byte <- MCByte
  Values <- RingValues
  Sizes <- RingSizes
  Fill = 0
VIEW LiveView
INVARIANT SearchExact
