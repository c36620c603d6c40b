SPECIFICATION Spec
CONSTANTS
  HeapEnd = 5
  Reserved = 0
  NIL = NIL
  Entries <- MCEntries
  OneShot = TRUE
  MaxSlots = 2
  MaxArgs = 1
  MaxIndex = 1
VIEW View
INVARIANTS
  StackIsPairs
  FreeListSound
PROPERTIES
  ImplementsMachine
CHECK_DEADLOCK FALSE
