CONSTANTS
  n1 = n1
  n2 = n2
  n3 = n3
  n4 = n4
  u1 = u1
  u2 = u2
  u3 = u3
  Nodes <- FourNodes
  hashVNode <- FourHashes
  Callers <- ThreeCallers
  KeyHashes <- KeyPositions
  VNodeCount = 2
  HashSpace = 20
  EpsNum = 1
  EpsDen = 4
  ReplicaCount = 3
  MaxChanges = 5
SPECIFICATION Spec
SYMMETRY CallerSymmetry
INVARIANTS
  VNodesMatchNodes
  LookupsIgnoreHistory
  
PROPERTY ReassignmentIsMinimal
CHECK_DEADLOCK FALSE
