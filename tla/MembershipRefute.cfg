CONSTANTS
  a = a
  b = b
  c = c
  Nodes <- Two
  Seeds <- TwoSeeds
  InitialMembers <- Two
  MaxSends = 3
  MaxInFlight = 2
  MaxCopies = 2
  MaxSpurious = 1
  MaxLosses = 2
  MaxFaults = 0
  MaxStops = 0
  MaxStarts = 0
SPECIFICATION FairSpec
PROPERTY FalseReportsOverridden
CHECK_DEADLOCK FALSE
