SPECIFICATION Spec
CONSTANTS
  Byte = 2
  Widest = 16
  Inputs <- AllWidths
  Literals <- IntsAndLong
  Careful = TRUE
INVARIANTS
  TypeOK
  CleanExact
  Congruent
CHECK_DEADLOCK FALSE
