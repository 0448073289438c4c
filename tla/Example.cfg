SPECIFICATION Spec
CONSTANTS
  Headers <- ProgramHeaders
  Listed <- ProgramListed
  Width <- ProgramWidth
  Vars <- ProgramVars
  States <- ProgramStates
  Start = "start"
  Body <- ProgramBody
  Targets <- ProgramTargets
  SelectReads <- ProgramReads
  Lens = {33, 82}
  Blocks = {1, 2, 3, 4, 5, 6, 7, 8, 9, 10}
  Malloc <- FirstFree
  NULL = NULL
  Words = {4, 5, 6}
  SreLengths = {0, 4, 8}
  OffsetSizes = {1}
  IdLengths = {0}
  Wrap = 4096
  Before <- ExampleBefore
  Above <- ExampleAbove
  Under <- ExampleUnder
  Final <- ExampleFinal
  Odd <- ExampleOdd
INVARIANTS
  ReadsDefined
  Inside
  Layered
  AcceptedDeepEnough
  OnlyOddMisaligns
