SPECIFICATION SpecConts
CONSTANTS
  HeapEnd = 8
  Reserved = 1
  NIL = NIL
  Entries <- MCThunk
  OneShot = TRUE
  MaxSlots = 2
  MaxArgs = 0
  MaxIndex = 0
VIEW View
INVARIANTS
  FramesApart
PROPERTIES
  ImplementsMachine
CHECK_DEADLOCK FALSE
