SPECIFICATION Spec
CONSTANTS
  a = a
  b = b
  c = c
  d = d
  k1 = k1
  client1 = client1
  Nodes <- FourNodes
  Keys <- OneKey
  Pos <- OnePlacement
  Clients <- OneClient
  ReplicaCount = 2
  Founders <- FourNodes
  Ops <- SetOnly
  MaxCalls = 1
  MaxCrashes = 2
  MaxStarts = 0
  MaxLosses = 0
  MaxFalseDeaths = 0
CHECK_DEADLOCK FALSE
INVARIANT FailoverRestoresReplicas
