SPECIFICATION Spec
CONSTANTS
  Layouts <- LayoutsAndHeaders
  Lookaheads <- EveryLookahead
  Hosts = {"little", "big"}
  Words = {5}
  SreLengths = {0}
  OffsetSizes = {0}
  IdLengths = {0}
  Wrap = 4096
INVARIANTS
  StraightFieldsExact
  LookaheadsExact
  ReadsItsBytes
  OnlyTrafficClassIsLost
  
  MembersHold
CHECK_DEADLOCK FALSE
