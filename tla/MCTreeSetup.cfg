SPECIFICATION SetupFairSpec
CONSTANTS
  s = s
  a = a
  b = b
  c = c
  d = d
  Node <- MCNode
  Sink = s
  rimeaddr_null = null
  Link <- MCLink
  UINT_MAX = 5
CHECK_DEADLOCK FALSE
INVARIANTS
  SetupTypeOK
  NoCycle
  HopCountsDistance
  NonLeafHasChild
PROPERTIES
  ImplementsTree
  AllJoin
  SetupTerminates
