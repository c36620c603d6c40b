SPECIFICATION Spec
CONSTANTS
  Programs <- MCPrograms
  BufferSize = 1790
  DamageTo = {0, 1, 2, 3, 4, 5, 6, 7, 8, 9, 10, 11, 12, 13, 14, 15}
  Exposed <- MCExposed
INVARIANTS
  RunsAsMeant
  DigitsGuarded
  OrderIrrelevant
  EndIsSeen
PROPERTY
  HexSpec
CHECK_DEADLOCK FALSE
