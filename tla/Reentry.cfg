SPECIFICATION SpecConts
CONSTANTS
  HeapEnd = 6
  Reserved = 0
  NIL = NIL
  Entries <- MCThunk
  OneShot = FALSE
  MaxSlots = 2
  MaxArgs = 0
  MaxIndex = 0
INVARIANTS
  StackIsPairs
CHECK_DEADLOCK FALSE
