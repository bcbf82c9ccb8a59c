\* One daemon, two blocks, two clients that may pick the same transaction id.
SPECIFICATION Spec
CONSTANTS
  n1 = n1
  n2 = n2
  n3 = n3
  k1 = k1
  k2 = k2
  x1 = x1
  x2 = x2
  Nodes = {n1}
  NodeId <- NodeIds
  Clients = {k1, k2}
  Xids = {x1, x2}
  ClientXids <- SharedXid
  NoNode = NoNode
  NoClient = NoClient
  NoXid = NoXid
  NumberOfBlocks = 2
  BlockSize = 1
  SpareLeasesNeeded = 1
  BlockTimeout = 4
  RefreshFactor = 4
  NeedlessTimeout = 1
  TentativeTimeout = 2
  UpdateClaimMaxBlocks = 32
  OfferTimeout = 1
  LeaseTime = 2
  LeaseServerDelta = 1
  CacheTimeout = 2
  MaxAge = 0
  LearningPhase = FALSE
  OtherEvents = FALSE
  Access <- Everywhere
  Faults = {}
  QueueCapacity = 4
  MaxStops = 0
INVARIANT AddressExclusive
INVARIANT LeaseRecorded
