SPECIFICATION MCSpec
CONSTANTS
  Node <- MCNode
  Originator = 2
  Link <- MCLink
  INT_RANGE = 2
  UINT8_RANGE = 256
  None = None
  MaxRequests = 3
INVARIANTS
  TypeOK
  WithinHopLimit
  TakenOnce
PROPERTIES
  RequestReachesAll
