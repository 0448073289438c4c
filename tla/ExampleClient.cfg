SPECIFICATION ClientSpec
CONSTANTS
  Headers <- MCHeaders
  Listed <- MCListed
  Width <- MCWidth
  Vars = {}
  States <- MCStates
  Start = "start"
  Body <- MCBody
  Targets <- MCTargets
  SelectReads <- MCSelectReads
  Lens = {1, 3}
  Blocks = {b1, b2, b3, b4, b5, b6}
  Malloc <- AnyFree
  NULL = NULL
  MaxPackets = 3
INVARIANTS
  ClientTypeOK
  NoUseAfterFree
  NoLeak
  PrintsTheChain
  ExitStatus
PROPERTIES
  Terminates
