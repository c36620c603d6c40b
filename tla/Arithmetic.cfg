SPECIFICATION Spec
CONSTANTS
  Global = {g, h}
  Operands <- MCArithmetic
  Ops = {"add", "sub", "mul_non_neg", "div_non_neg", "rem_non_neg", "equal", "lt", "gt", "bitwise_ior", "bitwise_xor", "bitwise_and", "bitwise_not", "vector_length"}
  HeapEnd = 24
  digit_width = 2
  MAX_SMALL_INT_VALUE = 1
INVARIANTS
  AllNormal
  NothingHeld
PROPERTIES
  ImplementsNumbers
VIEW Shape
CHECK_DEADLOCK FALSE
