SPECIFICATION RingSpec
CONSTANTS
  Address = {a, b, c}
  MaxToken = 4
SYMMETRY AddressSymmetry
INVARIANTS
  PlanMovesExactly
  RangesMaximal
CHECK_DEADLOCK FALSE
