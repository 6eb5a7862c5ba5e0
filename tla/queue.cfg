SPECIFICATION Spec
CONSTANTS
  p1 = p1
  p2 = p2
  n1 = n1
  n2 = n2
  n3 = n3
  Producers <- TwoConnections
  Nodes <- ThreeNodes
  MaxRequests = 2
  Null = Null
  ReuseInWindow = FALSE
INVARIANTS
  TypeOK
  EveryNodeHasOneOwner
PROPERTIES
  ImplementsRequestStack
  EveryRequestIsHandled
