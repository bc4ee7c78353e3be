SPECIFICATION MCSpec
CONSTANTS
  s = s
  a = a
  b = b
  c = c
  Node <- MCNode
  Sink = s
  rimeaddr_null = null
  Idle = Idle
  Link <- MCLink
  UINT_MAX = 4
  MAX_RUNICAST_RETX = 2
  MaxReadings = 1
INVARIANT
  MembersHaveHeads
