SPECIFICATION Spec
CONSTANTS
  Programs <- SomePrograms
  MaxRuns = 2
INVARIANTS
  TypeOK
  NeverMixed
  CompleteButRejected
  SuccessIsComplete
  Diagnosed
CHECK_DEADLOCK FALSE
