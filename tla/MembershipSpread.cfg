CONSTANTS
  a = a
  b = b
  c = c
  Nodes <- Three
  Seeds <- NoSeeds
  InitialMembers <- Three
  MaxSends = 3
  MaxInFlight = 1
  MaxCopies = 1
  MaxSpurious = 1
  MaxLosses = 0
  MaxFaults = 0
  MaxStops = 0
  MaxStarts = 0
SPECIFICATION FairSpec
PROPERTY RefutationOverrides
CHECK_DEADLOCK FALSE
