SPECIFICATION FairSpec
CONSTANTS
  Headers <- MCHeaders
  Listed <- MCListed
  Width <- MCWidth
  Vars <- MCVars
  States <- MCStates
  Start = "start"
  Body <- MCBody
  Targets <- MCTargets
  SelectReads <- MCSelectReads
  Lens = {0, 1, 2, 3, 4, 5, 6, 7, 8, 9}
  Blocks = {b1, b2, b3, b4, b5, b6}
  Malloc <- AnyFree
  NULL = NULL
INVARIANTS
  TypeOK
  VerdictSound
  ListShape
  Ownership
  Complete
  Geometry
PROPERTIES
  CallReturns
  ImplementsHeaderChain
