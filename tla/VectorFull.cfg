SPECIFICATION Spec
CONSTANTS
  VectorEnd = 6
  Header = {1, 2, 3, 4}
  Lengths = {5}
  Data <- MCData
  WithinSpace = FALSE
  NIL = NIL
INVARIANTS
  FreeAtEnd
CHECK_DEADLOCK FALSE
