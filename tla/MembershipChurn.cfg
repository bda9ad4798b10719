CONSTANTS
  a = a
  b = b
  c = c
  Nodes <- Two
  Seeds <- EachOther
  InitialMembers <- Two
  MaxSends = 1
  MaxInFlight = 2
  MaxCopies = 2
  MaxSpurious = 0
  MaxLosses = 0
  MaxFaults = 1
  MaxStops = 1
  MaxStarts = 1
SPECIFICATION Spec
INVARIANTS
  NoInventedIncarnation
  NeverDoubtsItself
PROPERTIES
  
  OnlyDepartureBarsJoin
CHECK_DEADLOCK FALSE
