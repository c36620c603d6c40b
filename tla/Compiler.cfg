SPECIFICATION Spec
CONSTANTS
  Primitive <- MCPrimitive
  primitive_nargs <- MCprimitive_nargs
  Unspecified <- MCUnspecified
  Global <- MCGlobal
  Programs <- MCPrograms
INVARIANTS
  NoNodeShared
  SlotsCounted
  EmittedOnce
  ListKeepsItsEnd
PROPERTIES
  
  ComesToNext
CHECK_DEADLOCK FALSE
