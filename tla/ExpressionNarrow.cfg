SPECIFICATION Spec
CONSTANTS
  Byte = 2
  Widest = 16
  Inputs <- Narrow
  Literals <- None
  Careful = FALSE
INVARIANTS
  RejectsOrExact
CHECK_DEADLOCK FALSE
