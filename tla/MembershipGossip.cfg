CONSTANTS
  a = a
  b = b
  c = c
  Nodes <- Three
  Seeds <- NoSeeds
  InitialMembers <- Three
  MaxSends = 1
  MaxInFlight = 2
  MaxCopies = 1
  MaxSpurious = 2
  MaxLosses = 0
  MaxFaults = 0
  MaxStops = 0
  MaxStarts = 0
SPECIFICATION Spec
SYMMETRY ThreeSymmetry
INVARIANTS
  NoInventedIncarnation
  NeverDoubtsItself
  
CHECK_DEADLOCK FALSE
