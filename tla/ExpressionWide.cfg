SPECIFICATION Spec
CONSTANTS
  Byte = 2
  Widest = 16
  Inputs <- Wide
  Literals <- None
  Careful = FALSE
INVARIANTS
  RejectsOrExact
CHECK_DEADLOCK FALSE
