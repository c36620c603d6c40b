SPECIFICATION Spec
CONSTANTS
  VectorEnd = 8
  Header = {1, 2, 3}
  Lengths = {5}
  Data <- MCData
  WithinSpace = TRUE
  NIL = NIL
INVARIANTS
  BlocksTile
  FreeAtEnd
  RoomIsFound

  
CHECK_DEADLOCK FALSE
