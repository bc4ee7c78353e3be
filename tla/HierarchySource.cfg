SPECIFICATION MCSpec
CONSTANTS
  s = s
  a = a
  b = b
  c = c
  d = d
  e = e
  Node <- MCNode
  Sink = s
  rimeaddr_null = null
  Idle = Idle
  Link <- MCLink
  UINT_MAX = 6
  cluster_depth = 2
  MAX_RUNICAST_RETX = 2
  MaxReadings = 1
INVARIANT
  SourceIsOriginator
