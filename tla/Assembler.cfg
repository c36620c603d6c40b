SPECIFICATION Spec
CONSTANTS
  p = p
  q = q
  Label = {p, q}
  Branches <- MCBranches
  Operands <- MCOperands
  Fill = {1, 16, 126}
  asm_start_pos = 4
  MaxItems = 5
INVARIANTS
  BranchesReach
  NoneShorter
  OperandsDecode
PROPERTIES
  Terminates
CHECK_DEADLOCK FALSE
