SPECIFICATION MCSpec
CONSTANTS
  s = s
  a = a
  b = b
  c = c
  Node <- MCNode
  Sink = s
  rimeaddr_null = null
  Link <- MCLink
  UINT_MAX = 4
  MaxReadings = 1
PROPERTY
  OnlyLeavesSend
