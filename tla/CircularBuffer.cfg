\* A buffer of three elements, any calls its documentation allows.
SPECIFICATION Spec
CONSTANTS
  a = a  b = b  Empty = Empty
  Values <- TwoValues
  Size = 3
INVARIANTS
  BufferInv
PROPERTIES
  IsFifo
