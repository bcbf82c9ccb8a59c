\* Two daemons, one block, a client at one of them; packets are lost and sends fail.
SPECIFICATION Spec
CONSTANTS
  n1 = n1
  n2 = n2
  n3 = n3
  k1 = k1
  k2 = k2
  x1 = x1
  x2 = x2
  Nodes = {n1, n2}
  NodeId <- NodeIds
  Clients = {k1}
  Xids = {x1}
  ClientXids <- OneXidEach
  NoNode = NoNode
  NoClient = NoClient
  NoXid = NoXid
  NumberOfBlocks = 1
  BlockSize = 1
  SpareLeasesNeeded = 1
  BlockTimeout = 2
  RefreshFactor = 4
  NeedlessTimeout = 1
  TentativeTimeout = 2
  UpdateClaimMaxBlocks = 32
  OfferTimeout = 0
  LeaseTime = 0
  LeaseServerDelta = 0
  CacheTimeout = 0
  MaxAge = 0
  LearningPhase = FALSE
  OtherEvents = FALSE
  Access <- AtFirst
  Faults = {"loss", "sendfail"}
  QueueCapacity = 1
  MaxStops = 0
INVARIANT AllocationDiscipline
INVARIANT ClaimListConsistent
PROPERTY OwnershipEarned
