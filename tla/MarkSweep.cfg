SPECIFICATION Spec
CONSTANTS
  HeapEnd = 3
  Reserved = 1
  NIL = NIL
  NRegs = 1
  TypesAt <- MCTypesAt
  Data <- MCData
INVARIANTS
  TypeOK
  LinksRecoverable
  MarksReachable
  NoUnmarkedChild
  SweepsGarbage
PROPERTIES
  Implements
  Terminates
CHECK_DEADLOCK FALSE
