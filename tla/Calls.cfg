SPECIFICATION SpecCalls
CONSTANTS
  HeapEnd = 7
  Reserved = 0
  NIL = NIL
  Entries <- MCEntries
  OneShot = TRUE
  MaxSlots = 3
  MaxArgs = 2
  MaxIndex = 1
VIEW View
INVARIANTS
  TypeOK
PROPERTIES
  ImplementsMachine
CHECK_DEADLOCK FALSE
