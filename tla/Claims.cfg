\* Two daemons, two blocks, one restart, no clients.
SPECIFICATION Spec
CONSTANTS
  n1 = n1
  n2 = n2
  n3 = n3
  k1 = k1
  k2 = k2
  x1 = x1
  x2 = x2
  Nodes = {n1, n2}
  NodeId <- NodeIds
  Clients = {}
  Xids = {}
  ClientXids <- OneXidEach
  NoNode = NoNode
  NoClient = NoClient
  NoXid = NoXid
  NumberOfBlocks = 2
  BlockSize = 1
  SpareLeasesNeeded = 1
  BlockTimeout = 4
  RefreshFactor = 4
  NeedlessTimeout = 1
  TentativeTimeout = 3
  UpdateClaimMaxBlocks = 32
  OfferTimeout = 1
  LeaseTime = 2
  LeaseServerDelta = 1
  CacheTimeout = 2
  MaxAge = 0
  LearningPhase = TRUE
  OtherEvents = TRUE
  Access <- Everywhere
  Faults = {}
  QueueCapacity = 6
  MaxStops = 1
INVARIANT TypeOK
INVARIANT SingleOwner
INVARIANT ClaimListConsistent
INVARIANT OwnedStaysFresh
INVARIANT OwnersKnown
INVARIANT Roomy
PROPERTY OwnershipEarned
