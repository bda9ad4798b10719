SPECIFICATION Spec
CONSTANTS
  a = a
  b = b
  c = c
  d = d
  k1 = k1
  client1 = client1
  Nodes <- ThreeNodes
  Keys <- OneKey
  Pos <- OnePlacement
  Clients <- OneClient
  ReplicaCount = 2
  Founders <- LastTwo
  Ops <- AllOps
  MaxCalls = 1
  MaxCrashes = 0
  MaxStarts = 1
  MaxLosses = 1
  MaxFalseDeaths = 1
CHECK_DEADLOCK FALSE
INVARIANT NoForwardingLoop
