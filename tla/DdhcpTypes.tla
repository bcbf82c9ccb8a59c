----------------------------- MODULE DdhcpTypes -----------------------------
(***************************************************************************)
(* The data of one ddhcpd daemon (types.h): leases, blocks and the         *)
(* configuration record, the parameters they depend on, and the way the    *)
(* model keeps time.                                                       *)
(*                                                                         *)
(* Time.  The code stores absolute times and compares them with time().    *)
(* The model stores what is left of a deadline and lets every second of    *)
(* the clock subtract one; Expired stands for every deadline in the past,  *)
(* so that "deadline < now" reads "left < 0".  Ages count up and saturate. *)
(***************************************************************************)
EXTENDS Integers, FiniteSets, Sequences

CONSTANTS
  Nodes,              \* the ddhcpd daemons of one swarm
  Clients,            \* DHCP clients, i.e. hardware addresses (chaddr)
  Xids,               \* transaction ids the clients may use
  NoNode, NoClient, NoXid,
  NodeId,             \* config.node_id of each daemon
  NumberOfBlocks,     \* config.number_of_blocks
  BlockSize,          \* config.block_size
  SpareLeasesNeeded,  \* config.spare_leases_needed (-s)
  BlockTimeout,       \* config.block_timeout (-B)
  RefreshFactor,      \* config.block_refresh_factor
  NeedlessTimeout,    \* config.block_needless_timeout (-n)
  TentativeTimeout,   \* config.tentative_timeout (-t)
  UpdateClaimMaxBlocks,
  OfferTimeout,       \* DHCP_OFFER_TIMEOUT
  LeaseTime,          \* option 51 of the option store
  LeaseServerDelta,   \* DHCP_LEASE_SERVER_DELTA
  CacheTimeout,       \* life time of a cached DHCP request
  MaxAge              \* bound: ages of blocks are told apart up to here

ASSUME NodesAssumption ==
  /\ NodeId \in [Nodes -> Nat]
  /\ NoNode \notin Nodes
  /\ NoClient \notin Clients
  /\ NoXid \notin Xids

ASSUME SizesAssumption ==
  /\ NumberOfBlocks \in Nat \ {0}
  /\ BlockSize \in Nat \ {0}
  /\ UpdateClaimMaxBlocks \in Nat \ {0}
  /\ SpareLeasesNeeded \in Nat

ASSUME TimesAssumption ==
  /\ BlockTimeout \in Nat
  /\ RefreshFactor \in Nat \ {0}
  /\ NeedlessTimeout \in Nat
  /\ TentativeTimeout \in Nat
  /\ OfferTimeout \in Nat
  /\ LeaseTime \in Nat
  /\ LeaseServerDelta \in Nat
  /\ CacheTimeout \in Nat
  /\ MaxAge \in Nat

Blocks == 0 .. NumberOfBlocks - 1
LeaseIndices == 0 .. BlockSize - 1

-----------------------------------------------------------------------------
(* Deadlines and ages *)

Expired == -1

Time == Nat \cup {Expired}

\* What is left of a deadline after one more second.
Elapse(left) == IF left > 0 THEN left - 1 ELSE Expired

\* An age one second later, saturating at max.
Older(age, max) == IF age < max THEN age + 1 ELSE max

-----------------------------------------------------------------------------
(* Leases and blocks *)

LeaseStates == {"FREE", "OFFERED", "LEASED"}

Lease == [state : LeaseStates,
          chaddr : Clients \cup {NoClient},
          xid : Xids \cup {NoXid},
          lease_end : Time]

\* DDHCP_BLOCKED exists in the enumeration; no code assigns it.
BlockStates == {"FREE", "TENTATIVE", "CLAIMED", "CLAIMING", "OURS"}

\* needless_since = 0 in the code: the block carries no mark.
NotMarked == -1

\* alloc says whether block->addresses is non-NULL; leases is the array it
\* points to.  owner is owner_address, the node requests are forwarded to.
Block == [state : BlockStates,
          owner : Nodes \cup {NoNode},
          timeout : Time,
          claiming_counts : 0 .. 3,
          first_claimed : 0 .. MaxAge,
          needless_since : NotMarked .. NeedlessTimeout,
          alloc : BOOLEAN,
          leases : [LeaseIndices -> Lease]]

\* An IPv4 address of the managed range is a block and an index in it (see
\* find_lease_from_address); Outside stands for any other address and
\* NoAddress for a packet that names none.
Addresses == Blocks \X LeaseIndices
Outside == <<>>
NoAddress == <<0>>

\* A DHCP packet from a client, reduced to what the handlers look at.  For
\* a DHCPREQUEST, address is the requested address option or else ciaddr.
DhcpPacket == [type : {"DISCOVER", "REQUEST", "RELEASE", "INFORM"},
               chaddr : Clients,
               xid : Xids,
               address : Addresses \cup {Outside, NoAddress}]

\* A request kept for the answer of the owning node, with its deadline.
CachedPacket == [packet : DhcpPacket, timeout : Time]

\* The mutable part of ddhcp_config.  The cache is a list in the code; two
\* copies of one request cached within the same second are one element.
Config == [blocks : [Blocks -> Block],
           claiming_blocks : SUBSET Blocks,
           claiming_blocks_amount : Int,
           needless_marks : BOOLEAN,
           dhcp_packet_cache : SUBSET CachedPacket]
=============================================================================
