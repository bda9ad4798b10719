SPECIFICATION Spec
CONSTANTS
  a = a
  b = b
  c = c
  d = d
  k1 = k1
  client1 = client1
  Nodes <- TwoNodes
  Keys <- OneKey
  Pos <- OnePlacement
  Clients <- OneClient
  ReplicaCount = 2
  Founders <- TwoNodes
  Ops <- SetOnly
  MaxCalls = 2
  MaxCrashes = 0
  MaxStarts = 0
  MaxLosses = 0
  MaxFalseDeaths = 0
CHECK_DEADLOCK FALSE
INVARIANT ReplicatedInOrder
