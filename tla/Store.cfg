CONSTANTS
  k1 = k1
  k2 = k2
  p1 = p1
  p2 = p2
  NoEntry = NoEntry
  Keys <- MCKeys
  Procs <- MCProcs
  ShardOf <- MCShardOf
  ShardCount = 2
  Values = {v1}
  TTLs = {0, 1}
  SamplesPerSweep = 1
  MaxTime = 3
  MaxCalls = 3
  Scans = {"ForEach"}
SPECIFICATION FairSpec
INVARIANTS
  TypeOK
  RemovedOnce
  ForEachComplete
PROPERTIES
  ImplementsTTLCache
  ExpiredReclaimed
CHECK_DEADLOCK FALSE
