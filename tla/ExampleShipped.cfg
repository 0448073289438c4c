SPECIFICATION ShippedSpec
CONSTANTS
  Layouts <- StraightHeaders
  Lookaheads <- ExampleLookaheads
  Hosts = {"little"}
  Words = {5}
  SreLengths = {0}
  OffsetSizes = {0}
  IdLengths = {0}
  Wrap = 4096
INVARIANTS
  AllExact
CHECK_DEADLOCK FALSE
