SPECIFICATION Spec
CONSTANTS
  Mote <- MCMote
  Checker <- MCMote
  Link <- MCLink
  Temperature <- MCTemperature
  Humidity <- MCHumidity
  MAXDUPS = 1
  RETRANSMISSIONS = 1
  Idle = Idle
  None = None
  MaxCollections = 1
  MaxChecks = 2
INVARIANT FlagTellsViolation
