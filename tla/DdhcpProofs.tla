---------------------------- MODULE DdhcpProofs -----------------------------
(***************************************************************************)
(* What the handlers of dhcp.c and ddhcp.c do to the configuration of one  *)
(* daemon: they are all quiet, so that only house keeping starts claims    *)
(* and takes blocks, and those for packets of clients never write through  *)
(* a NULL address array.                                                   *)
(***************************************************************************)
EXTENDS Ddhcp, BlockProofs

\* A handler's step: quiet, and no block changes its state or its deadline.
Same(old, new) ==
  /\ Tamer(old, new)
  /\ new.state = old.state
  /\ new.timeout = old.timeout

Steady(c, d) ==
  /\ Quiet(c, d)
  /\ \A b \in Blocks : Same(c.blocks[b], d.blocks[b])

Envelope == [to : Nodes \cup {NoNode}, packet : DirectPacket]

ReplyOK(reply) ==
  \/ reply = NoReply
  \/ reply.chaddr \in Clients /\ reply.address \in Addresses \cup {NoAddress}

HandledOK(c, o) ==
  /\ Steady(c, o.config)
  /\ ReplyOK(o.reply)
  /\ o.direct \in Seq(Envelope)

-----------------------------------------------------------------------------
(* Steady steps *)

\* Doing nothing is steady.
LEMMA SteadyNoChange ==
  ASSUME NEW c \in Config, TableOK(c.blocks) PROVE Steady(c, c)
  BY NoChange DEF Steady, Same, Quiet

\* Steady steps compose.
LEMMA SteadyTransitive ==
  ASSUME NEW c, NEW d, NEW e, Steady(c, d), Steady(d, e)
  PROVE  Steady(c, e)
  BY QuietTransitive DEF Steady, Same, Quiet

\* The result of a steady step is a table in order.
LEMMA SteadyTable ==
  ASSUME NEW c, NEW d, Steady(c, d)
  PROVE  d \in Config /\ TableOK(d.blocks)
  BY QuietTable DEF Steady

\* One entry changed, but not in its state or its deadline.
LEMMA SteadyBlock ==
  ASSUME NEW c \in Config, TableOK(c.blocks), NEW b \in Blocks, NEW blk,
         Same(c.blocks[b], blk)
  PROVE  Steady(c, [c EXCEPT !.blocks[b] = blk])
<1> DEFINE d == [c EXCEPT !.blocks[b] = blk]
<1>1. Tamer(c.blocks[b], blk)
  BY DEF Same
<1>2. Quiet(c, d)
  BY <1>1, TameBlock
<1>3. \A x \in Blocks : d.blocks[x] = IF x = b THEN blk ELSE c.blocks[x]
  BY DEF Config
<1> HIDE DEF d
<1>4. Steady(c, d)
  BY <1>2, <1>3 DEF Steady, Same, Quiet
<1> QED
  BY <1>4 DEF d

-----------------------------------------------------------------------------
(* Leases *)

\* An address of the range names a block and a lease in it.
LEMMA AddressParts ==
  ASSUME NEW a \in Addresses
  PROVE  a[1] \in Blocks /\ a[2] \in LeaseIndices
  BY DEF Addresses

\* A packet that names no address names none of the range.
LEMMA NoAddressOutside == NoAddress \notin Addresses
  BY DEF NoAddress, Addresses

\* The deadlines that the handlers set are deadlines.
LEMMA LeaseEndType == LeaseEnd \in Time /\ OfferTimeout \in Time /\ CacheTimeout \in Time
  BY TimesAssumption DEF LeaseEnd, Time

\* Writing one lease of a block keeps its state and deadline.
LEMMA SameLease ==
  ASSUME NEW blk \in Block, Allocated(blk), NEW i \in LeaseIndices, NEW l \in Lease
  PROVE  Same(blk, [blk EXCEPT !.leases[i] = l])
<1> DEFINE ls == [blk.leases EXCEPT ![i] = l]
           new == [blk EXCEPT !.leases = ls]
<1>1. ls \in [LeaseIndices -> Lease]
  BY DEF Block
<1>2. [blk EXCEPT !.leases[i] = l] = new
  BY DEF Block
<1> HIDE DEF ls
<1>3. /\ new \in Block /\ new.state = blk.state /\ new.alloc = blk.alloc
      /\ new.timeout = blk.timeout /\ new.claiming_counts = blk.claiming_counts
  BY <1>1 DEF Block
<1>4. Same(blk, new)
  BY <1>3 DEF Same, Tamer, Allocated
<1> QED
  BY <1>2, <1>4, Zenon

\* Writing one lease is steady.
LEMMA LeaseSteady ==
  ASSUME NEW c \in Config, TableOK(c.blocks), NEW b \in Blocks,
         NEW i \in LeaseIndices, NEW l \in Lease
  PROVE  Steady(c, [c EXCEPT !.blocks[b].leases[i] = l])
<1> DEFINE blk == [c.blocks[b] EXCEPT !.leases[i] = l]
<1>1. c.blocks[b] \in Block /\ Allocated(c.blocks[b])
  BY DEF TableOK
<1>2. Same(c.blocks[b], blk)
  BY <1>1, SameLease
<1>3. [c EXCEPT !.blocks[b].leases[i] = l] = [c EXCEPT !.blocks[b] = blk]
  BY DEF Config
<1> HIDE DEF blk
<1>4. Steady(c, [c EXCEPT !.blocks[b] = blk])
  BY <1>2, SteadyBlock
<1> QED
  BY <1>3, <1>4, Zenon

\* So is recording a client in a lease.
LEMMA SetLeaseSteady ==
  ASSUME NEW c \in Config, TableOK(c.blocks), NEW a \in Addresses,
         NEW state \in LeaseStates, NEW p \in DhcpPacket, NEW end \in Time
  PROVE  Steady(c, SetLease(c, a, state, p, end))
<1> DEFINE l == [state |-> state, chaddr |-> p.chaddr, xid |-> p.xid, lease_end |-> end]
<1>1. l \in Lease
  BY DEF Lease, DhcpPacket
<1>2. SetLease(c, a, state, p, end) = [c EXCEPT !.blocks[a[1]].leases[a[2]] = l]
  BY DEF SetLease
<1> HIDE DEF l
<1>3. Steady(c, [c EXCEPT !.blocks[a[1]].leases[a[2]] = l])
  BY <1>1, AddressParts, LeaseSteady
<1> QED
  BY <1>2, <1>3, Zenon

\* The cache is no part of the table.
LEMMA CacheSteady ==
  ASSUME NEW c \in Config, TableOK(c.blocks), NEW cache \in SUBSET CachedPacket
  PROVE  Steady(c, [c EXCEPT !.dhcp_packet_cache = cache])
<1> DEFINE d == [c EXCEPT !.dhcp_packet_cache = cache]
<1>1. /\ d \in Config
      /\ d.blocks = c.blocks
      /\ d.claiming_blocks = c.claiming_blocks
      /\ d.claiming_blocks_amount = c.claiming_blocks_amount
  BY DEF Config
<1> HIDE DEF d
<1>2. Steady(c, d)
  BY <1>1 DEF Steady, Same, Quiet, Tamer, TableOK
<1> QED
  BY <1>2 DEF d

-----------------------------------------------------------------------------
(* Replies *)

\* What a handler that makes a steady step and says nothing
\* has done.
LEMMA SilentOK ==
  ASSUME NEW c, NEW d, Steady(c, d)
  PROVE  HandledOK(c, Silent(d)) /\ ~ Silent(d).segv
  BY DEF HandledOK, Silent, Handled, ReplyOK

\* A steady handler that answers a client.
LEMMA AnswerOK ==
  ASSUME NEW c, NEW d, Steady(c, d), NEW p \in DhcpPacket, NEW type,
         NEW a \in Addresses \cup {NoAddress}, NEW o
  PROVE  LET h == Handled(d, ReplyIf(o, ReplyTo(p, type, a)), << >>)
         IN HandledOK(c, h) /\ ~ h.segv
<1>1. ReplyOK(ReplyTo(p, type, a))
  BY DEF ReplyOK, ReplyTo, DhcpPacket
<1>2. ReplyOK(ReplyIf(o, ReplyTo(p, type, a)))
  BY <1>1 DEF ReplyIf, ReplyOK
<1> QED
  BY <1>2 DEF HandledOK, Handled

\* dhcp_nack changes nothing.
LEMMA NackOK ==
  ASSUME NEW c \in Config, TableOK(c.blocks), NEW p \in DhcpPacket, NEW ok,
         NEW o \in dhcp_nack(p, c, ok)
  PROVE  HandledOK(c, o) /\ ~ o.segv
<1>1. Steady(c, c)
  BY SteadyNoChange
<1>2. PICK r \in ok : o = Handled(c, ReplyIf(r, ReplyTo(p, "NAK", NoAddress)), << >>)
  BY DEF dhcp_nack
<1> QED
  BY <1>1, <1>2, AnswerOK

\* A block of ours has its lease array, so that a handler that keeps to blocks
\* of ours does what it is meant to.
LEMMA OursAllocated ==
  ASSUME NEW c \in Config, TableOK(c.blocks), NEW used \in SUBSET Owned(c), NEW outcomes
  PROVE  UsingLeases(c, used, outcomes) = outcomes
<1>1. \A b \in used : b \in Blocks /\ c.blocks[b].state = "OURS"
  BY DEF Owned, InState
<1>2. \A b \in used : c.blocks[b].alloc
  BY <1>1 DEF TableOK, Allocated
<1> QED
  BY <1>2 DEF UsingLeases

\* The block of an address, when it is ours.
LEMMA OursOwned ==
  ASSUME NEW c \in Config, NEW a \in Addresses, BlockOf(c, a).state = "OURS"
  PROVE  {a[1]} \in SUBSET Owned(c)
  BY AddressParts DEF Owned, InState, BlockOf

\* dhcp_ack writes a lease, if there is an array to write to.
LEMMA AckOK ==
  ASSUME NEW c \in Config, TableOK(c.blocks), NEW p \in DhcpPacket,
         NEW a \in Addresses, NEW ok, NEW o \in dhcp_ack(p, a, c, ok)
  PROVE  HandledOK(c, o) /\ (BlockOf(c, a).alloc => ~ o.segv)
<1>1. CASE ~ BlockOf(c, a).alloc
  <2>1. o = Segfault(c)
    BY <1>1 DEF dhcp_ack, UsingLeases, BlockOf
  <2>2. Steady(c, c)
    BY SteadyNoChange
  <2> QED
    BY <1>1, <2>1, <2>2 DEF HandledOK, Segfault, ReplyOK
<1>2. CASE BlockOf(c, a).alloc
  <2> DEFINE d == SetLease(c, a, "LEASED", p, LeaseEnd)
  <2>1. PICK r \in ok : o = Handled(d, ReplyIf(r, ReplyTo(p, "ACK", a)), << >>)
    BY <1>2 DEF dhcp_ack, UsingLeases, BlockOf
  <2>2. Steady(c, d)
    BY LeaseEndType, SetLeaseSteady DEF LeaseStates
  <2> HIDE DEF d
  <2> QED
    BY <2>1, <2>2, AnswerOK
<1> QED
  BY <1>1, <1>2

-----------------------------------------------------------------------------
(* Packets from clients *)

\* An offer is steady and safe.
LEMMA OfferOK ==
  ASSUME NEW c \in Config, TableOK(c.blocks), NEW p \in DhcpPacket,
         NEW a \in Addresses, NEW sent
  PROVE  HandledOK(c, Offer(p, a, c, sent)) /\ ~ Offer(p, a, c, sent).segv
<1> DEFINE b == a[1]
           d == SetLease(c, a, "OFFERED", p, OfferTimeout)
           blk == [d.blocks[b] EXCEPT !.needless_since = NotMarked]
           e == [d EXCEPT !.blocks[b].needless_since = NotMarked]
<1>1. b \in Blocks
  BY AddressParts
<1>2. Steady(c, d)
  BY LeaseEndType, SetLeaseSteady DEF LeaseStates
<1>3. d \in Config /\ TableOK(d.blocks)
  BY <1>2, SteadyTable
<1>4. Offer(p, a, c, sent) = IF sent THEN Handled(e, ReplyTo(p, "OFFER", a), << >>)
                                     ELSE Silent(d)
  BY DEF Offer
<1> HIDE DEF b, d
<1>5. e = [d EXCEPT !.blocks[b] = blk]
  BY <1>3 DEF Config
<1>6. Same(d.blocks[b], blk)
  <2>1. NotMarked \in NotMarked .. NeedlessTimeout
    BY TimesAssumption DEF NotMarked
  <2>2. d.blocks[b] \in Block /\ Allocated(d.blocks[b])
    BY <1>1, <1>3 DEF TableOK
  <2>3. Tamer(d.blocks[b], blk)
    BY <2>1, <2>2, TameMark
  <2>4. blk.state = d.blocks[b].state /\ blk.timeout = d.blocks[b].timeout
    BY <2>2 DEF Block
  <2> QED
    BY <2>3, <2>4 DEF Same
<1> HIDE DEF e, blk
<1>7. Steady(d, [d EXCEPT !.blocks[b] = blk])
  BY <1>1, <1>3, <1>6, SteadyBlock
<1>8. Steady(d, e)
  BY <1>5, <1>7, Zenon
<1>9. Steady(c, e)
  BY <1>2, <1>8, SteadyTransitive
<1>10. CASE sent
  BY <1>4, <1>9, <1>10 DEF HandledOK, Handled, ReplyOK, ReplyTo, DhcpPacket
<1>11. CASE ~ sent
  BY <1>2, <1>4, <1>11, SilentOK
<1> QED
  BY <1>10, <1>11

\* dhcp_hdl_discover is steady and safe.
LEMMA DiscoverOK ==
  ASSUME NEW c \in Config, TableOK(c.blocks), NEW p \in DhcpPacket, NEW ok,
         NEW o \in dhcp_hdl_discover(p, c, ok)
  PROVE  HandledOK(c, o) /\ ~ o.segv
<1>1. CASE o = Silent(c)
  BY <1>1, SteadyNoChange, SilentOK
<1>2. CASE o \in UNION {{Offer(p, a, c, r) : r \in ok} : a \in OfferCandidates(c)}
  <2>1. PICK a \in OfferCandidates(c) : o \in {Offer(p, a, c, r) : r \in ok}
    BY <1>2
  <2>2. a \in Addresses
    BY DEF OfferCandidates
  <2> QED
    BY <2>1, <2>2, OfferOK
<1>3. o \in IF block_find_free_leases(c) = {} THEN {Silent(c)}
            ELSE UNION {{Offer(p, a, c, r) : r \in ok} : a \in OfferCandidates(c)}
  BY OursAllocated DEF dhcp_hdl_discover
<1> QED
  BY <1>1, <1>2, <1>3

\* Forwarding a request gives the block of the other node a lease array.
LEMMA ForwardOK ==
  ASSUME NEW c \in Config, TableOK(c.blocks), NEW n \in Nodes, NEW p \in DhcpPacket,
         p.address \in Addresses, BlockOf(c, p.address).state = "CLAIMED"
  PROVE  \A o \in ForwardRequest(n, p, c) : HandledOK(c, o) /\ ~ o.segv
<1> DEFINE b == p.address[1]
           old == c.blocks[b]
           allocated == [c EXCEPT !.blocks[b] = block_alloc(old)]
           noted == SetLease(allocated, p.address, "OFFERED", p, LeaseEnd)
           cache == noted.dhcp_packet_cache \cup {[packet |-> p, timeout |-> CacheTimeout]}
           m == [to |-> old.owner,
                 packet |-> [command |-> "RENEWLEASE", sender |-> n,
                             chaddr |-> p.chaddr, xid |-> p.xid,
                             address |-> p.address]]
<1>1. b \in Blocks /\ old \in Block /\ old.state = "CLAIMED"
  BY AddressParts DEF TableOK, BlockOf
<1>2. Same(old, block_alloc(old))
  <2>1. /\ block_alloc(old) \in Block
        /\ block_alloc(old).state = "CLAIMED"
        /\ block_alloc(old).timeout = old.timeout
        /\ block_alloc(old).claiming_counts = old.claiming_counts
    BY <1>1, AllocBlock
  <2> QED
    BY <1>1, <2>1 DEF Same, Tamer, Allocated
<1> HIDE DEF b, old
<1>3. Steady(c, allocated)
  BY <1>1, <1>2, SteadyBlock DEF old
<1>4. allocated \in Config /\ TableOK(allocated.blocks)
  BY <1>3, SteadyTable
<1> HIDE DEF allocated
<1>5. Steady(allocated, noted)
  BY <1>4, LeaseEndType, SetLeaseSteady DEF LeaseStates
<1>6. noted \in Config /\ TableOK(noted.blocks)
  BY <1>5, SteadyTable
<1> HIDE DEF noted
<1>7. cache \in SUBSET CachedPacket
  BY <1>6, LeaseEndType DEF Config, CachedPacket
<1>8. CacheRequest(noted, p) = [noted EXCEPT !.dhcp_packet_cache = cache]
  BY DEF CacheRequest
<1> HIDE DEF cache
<1>9. Steady(noted, CacheRequest(noted, p))
  <2>1. Steady(noted, [noted EXCEPT !.dhcp_packet_cache = cache])
    BY <1>6, <1>7, CacheSteady
  <2> QED
    BY <1>8, <2>1, Zenon
<1>10. Steady(c, CacheRequest(noted, p))
  BY <1>3, <1>5, <1>9, SteadyTransitive
<1>11. m \in Envelope
  BY <1>1 DEF Envelope, DirectPacket, DhcpPacket, Block
<1>12. ForwardRequest(n, p, c) = {Handled(CacheRequest(noted, p), NoReply, <<m>>)}
  <2>1. block_alloc(old) \in Block /\ block_alloc(old).alloc
    BY <1>1, AllocBlock
  <2>2. allocated.blocks[b] = block_alloc(old)
    BY <1>1 DEF allocated, Config
  <2>3. block_alloc(old).owner = old.owner
    BY <1>1 DEF block_alloc, Block
  <2>4. Forwarded(n, p, allocated) = Handled(CacheRequest(noted, p), NoReply, <<m>>)
    BY <2>2, <2>3 DEF Forwarded, BlockOf, noted, b
  <2>5. ForwardRequest(n, p, c) = UsingLeases(allocated, {b}, {Forwarded(n, p, allocated)})
    BY DEF ForwardRequest, allocated, b, old
  <2>6. UsingLeases(allocated, {b}, {Forwarded(n, p, allocated)}) = {Forwarded(n, p, allocated)}
    BY <2>1, <2>2 DEF UsingLeases
  <2> QED
    BY <2>4, <2>5, <2>6
<1> HIDE DEF m
<1>13. <<m>> \in Seq(Envelope)
  BY <1>11
<1> DEFINE h == Handled(CacheRequest(noted, p), NoReply, <<m>>)
<1>14. HandledOK(c, h) /\ ~ h.segv
  BY <1>10, <1>13 DEF HandledOK, Handled, ReplyOK
<1> HIDE DEF h
<1>15. ForwardRequest(n, p, c) = {h}
  BY <1>12 DEF h
<1> QED
  BY <1>14, <1>15

\* dhcp_hdl_request is steady, and safe because a block of ours has its leases.
LEMMA RequestOK ==
  ASSUME NEW c \in Config, TableOK(c.blocks), NEW n \in Nodes, NEW p \in DhcpPacket,
         NEW ok, NEW o \in dhcp_hdl_request(n, p, c, ok)
  PROVE  HandledOK(c, o) /\ ~ o.segv
<1>1. ASSUME NEW a \in Addresses, BlockOf(c, a).state = "OURS", o \in dhcp_ack(p, a, c, ok)
      PROVE  HandledOK(c, o) /\ ~ o.segv
  <2>1. BlockOf(c, a).alloc
    BY <1>1, AddressParts DEF BlockOf, TableOK, Allocated
  <2> QED
    BY <1>1, <2>1, AckOK
<1>2. CASE o \in dhcp_nack(p, c, ok)
  BY <1>2, NackOK
<1>6. RequestByXid(p, c, ok) =
        IF OfferedLeases(p, c) = {} THEN dhcp_nack(p, c, ok)
        ELSE UNION {dhcp_ack(p, a, c, ok) : a \in FirstOf(OfferedLeases(p, c))}
  <2>1. Searched(p, c) \in SUBSET Owned(c)
    BY DEF Searched
  <2> QED
    BY <2>1, OursAllocated DEF RequestByXid
<1>3. CASE p.address = NoAddress
  <2>1. CASE OfferedLeases(p, c) = {}
    BY <1>2, <1>3, <1>6, <2>1, NoAddressOutside DEF dhcp_hdl_request
  <2>2. CASE OfferedLeases(p, c) # {}
    <3>1. o \in UNION {dhcp_ack(p, a, c, ok) : a \in FirstOf(OfferedLeases(p, c))}
      BY <1>3, <1>6, <2>2, NoAddressOutside DEF dhcp_hdl_request
    <3>2. PICK a \in FirstOf(OfferedLeases(p, c)) : o \in dhcp_ack(p, a, c, ok)
      BY <3>1
    <3>3. a \in Addresses /\ BlockOf(c, a).state = "OURS"
      BY DEF FirstOf, OfferedLeases
    <3> QED
      BY <1>1, <3>2, <3>3
  <2> QED
    BY <2>1, <2>2
<1>4. CASE p.address \in Addresses /\ p.address # NoAddress
  <2>1. o \in RequestInRange(n, p, c, ok)
    BY <1>4 DEF dhcp_hdl_request
  <2>2. CASE BlockOf(c, p.address).state = "CLAIMED"
    <3>1. o \in ForwardRequest(n, p, c)
      BY <2>1, <2>2 DEF RequestInRange
    <3> QED
      BY <1>4, <2>2, <3>1, ForwardOK
  <2>3. CASE BlockOf(c, p.address).state = "OURS"
    <3>1. o \in dhcp_nack(p, c, ok) \/ o \in dhcp_ack(p, p.address, c, ok)
      BY <1>4, <2>1, <2>3, OursOwned, OursAllocated DEF RequestInRange
    <3> QED
      BY <1>1, <1>2, <1>4, <2>3, <3>1
  <2>4. CASE BlockOf(c, p.address).state \notin {"CLAIMED", "OURS"}
    <3>1. o \in dhcp_nack(p, c, ok) \/ o = Silent(c)
      BY <2>1, <2>4 DEF RequestInRange
    <3> QED
      BY <1>2, <3>1, SteadyNoChange, SilentOK
  <2> QED
    BY <2>2, <2>3, <2>4
<1>5. CASE p.address \notin Addresses /\ p.address # NoAddress
  BY <1>2, <1>5 DEF dhcp_hdl_request
<1> QED
  BY <1>3, <1>4, <1>5

\* dhcp_hdl_release is steady and safe.
LEMMA ReleaseOK ==
  ASSUME NEW c \in Config, TableOK(c.blocks), NEW p \in DhcpPacket,
         NEW o \in dhcp_hdl_release(p, c)
  PROVE  HandledOK(c, o) /\ ~ o.segv
<1> DEFINE a == p.address
           l == ReleaseLease(c.blocks[a[1]].leases[a[2]])
           d == [c EXCEPT !.blocks[a[1]].leases[a[2]] = l]
<1>1. CASE o = Silent(c)
  BY <1>1, SteadyNoChange, SilentOK
<1>2. CASE a \in Addresses /\ o = Silent(d)
  <2>1. a[1] \in Blocks /\ a[2] \in LeaseIndices
    BY <1>2, AddressParts
  <2>2. l \in Lease
    BY <2>1, LeaseTypes DEF TableOK, Block
  <2> HIDE DEF l
  <2>3. Steady(c, d)
    BY <2>1, <2>2, LeaseSteady
  <2> QED
    BY <1>2, <2>3, SilentOK
<1>3. o = Silent(c) \/ (a \in Addresses /\ o = Silent(d))
  <2>1. CASE find_lease_from_address(a, c) = 0
    <3>1. a \in Addresses /\ BlockOf(c, a).state = "OURS"
      BY <2>1 DEF find_lease_from_address
    <3>2. o = Silent(IF LeaseAt(c, a).chaddr = p.chaddr THEN ReleaseAt(c, a) ELSE c)
      BY <2>1, <3>1, OursOwned, OursAllocated DEF dhcp_hdl_release
    <3> QED
      BY <3>1, <3>2 DEF ReleaseAt
  <2>2. CASE find_lease_from_address(a, c) # 0
    BY <2>2 DEF dhcp_hdl_release
  <2> QED
    BY <2>1, <2>2
<1> QED
  BY <1>1, <1>2, <1>3

\* dhcp_hdl_inform changes nothing.
LEMMA InformOK ==
  ASSUME NEW c \in Config, TableOK(c.blocks), NEW p \in DhcpPacket, NEW ok,
         NEW o \in dhcp_hdl_inform(p, c, ok)
  PROVE  HandledOK(c, o) /\ ~ o.segv
<1>1. Steady(c, c)
  BY SteadyNoChange
<1>2. PICK r \in ok : o = Handled(c, ReplyIf(r, ReplyTo(p, "INFORMED", NoAddress)), << >>)
  BY DEF dhcp_hdl_inform
<1> QED
  BY <1>1, <1>2, AnswerOK

\* Whatever a client sends, dhcp_process is steady and never writes through a
\* NULL address array.
LEMMA ProcessOK ==
  ASSUME NEW c \in Config, TableOK(c.blocks), NEW n \in Nodes, NEW p \in DhcpPacket,
         NEW ok, NEW o \in dhcp_process(n, p, c, ok)
  PROVE  HandledOK(c, o) /\ ~ o.segv
<1>1. p.type \in {"DISCOVER", "REQUEST", "RELEASE", "INFORM"}
  BY DEF DhcpPacket
<1> QED
  BY <1>1, DiscoverOK, RequestOK, ReleaseOK, InformOK DEF dhcp_process

-----------------------------------------------------------------------------
(* Direct packets of other nodes *)

\* Prolonging a lease for another node is steady.
LEMMA RemoteRequestSteady ==
  ASSUME NEW c \in Config, TableOK(c.blocks), NEW a \in Addresses
  PROVE  Steady(c, dhcp_rhdl_request(a, c))
<1> DEFINE old == c.blocks[a[1]].leases[a[2]]
           l == [old EXCEPT !.lease_end = LeaseEnd]
           d == [c EXCEPT !.blocks[a[1]].leases[a[2]] = l]
<1>1. a[1] \in Blocks /\ a[2] \in LeaseIndices
  BY AddressParts
<1>2. old \in Lease
  BY <1>1 DEF TableOK, Block
<1>3. l \in Lease
  BY <1>2, LeaseEndType DEF Lease
<1>4. d = [c EXCEPT !.blocks[a[1]].leases[a[2]].lease_end = LeaseEnd]
  BY DEF Config
<1> HIDE DEF l
<1>5. Steady(c, d)
  BY <1>1, <1>3, LeaseSteady
<1> HIDE DEF d
<1>6. dhcp_rhdl_request(a, c) = d \/ dhcp_rhdl_request(a, c) = c
  BY <1>4, Zenon DEF dhcp_rhdl_request
<1> QED
  BY <1>5, <1>6, SteadyNoChange

\* ddhcp_dhcp_renewlease is steady and answers with a packet of its own.
LEMMA RenewOK ==
  ASSUME NEW c \in Config, TableOK(c.blocks), NEW n \in Nodes, NEW m \in DirectPacket,
         NEW o \in ddhcp_dhcp_renewlease(n, m, c)
  PROVE  HandledOK(c, o) /\ ~ o.segv
<1> DEFINE d == dhcp_rhdl_request(m.address, c)
           answer == IF find_lease_from_address(m.address, c) = 0
                     THEN "LEASEACK" ELSE "LEASENAK"
           env == [to |-> m.sender, packet |-> [m EXCEPT !.command = answer, !.sender = n]]
<1>1. m.address \in Addresses /\ m.sender \in Nodes
  BY DEF DirectPacket
<1>2. Steady(c, d)
  BY <1>1, RemoteRequestSteady
<1>3. o = Handled(d, NoReply, <<env>>)
  <2>1. {m.address[1]} \cap Owned(c) \in SUBSET Owned(c)
    OBVIOUS
  <2> QED
    BY <2>1, OursAllocated DEF ddhcp_dhcp_renewlease
<1>4. answer \in {"RENEWLEASE", "LEASEACK", "LEASENAK"}
  OBVIOUS
<1> HIDE DEF answer, d
<1>5. [m EXCEPT !.command = answer, !.sender = n] \in DirectPacket
  BY <1>4 DEF DirectPacket
<1>6. env \in Envelope
  BY <1>1, <1>5 DEF Envelope
<1> HIDE DEF env
<1>7. <<env>> \in Seq(Envelope)
  BY <1>6
<1> QED
  BY <1>2, <1>3, <1>7 DEF HandledOK, Handled, ReplyOK

\* Taking a request out of the cache is steady, and the request is a packet.
LEMMA UncacheSteady ==
  ASSUME NEW c \in Config, TableOK(c.blocks), NEW xid, NEW chaddr,
         NEW e \in dhcp_packet_list_find(c, xid, chaddr)
  PROVE  e.packet \in DhcpPacket /\ Steady(c, Uncache(c, e))
<1>1. e \in c.dhcp_packet_cache
  BY DEF dhcp_packet_list_find
<1>2. c.dhcp_packet_cache \in SUBSET CachedPacket
  BY DEF Config
<1>3. e.packet \in DhcpPacket
  BY <1>1, <1>2 DEF CachedPacket
<1> DEFINE cache == c.dhcp_packet_cache \ {e}
<1>4. cache \in SUBSET CachedPacket
  BY <1>2
<1>5. Uncache(c, e) = [c EXCEPT !.dhcp_packet_cache = cache]
  BY DEF Uncache
<1> HIDE DEF cache
<1>6. Steady(c, [c EXCEPT !.dhcp_packet_cache = cache])
  BY <1>4, CacheSteady
<1> QED
  BY <1>3, <1>5, <1>6, Zenon

\* A handler that continues after a steady step.
LEMMA HandledAfter ==
  ASSUME NEW c, NEW d, NEW o, Steady(c, d), HandledOK(d, o)
  PROVE  HandledOK(c, o)
  BY SteadyTransitive DEF HandledOK

\* ddhcp_dhcp_leaseack is steady.
LEMMA LeaseAckOK ==
  ASSUME NEW c \in Config, TableOK(c.blocks), NEW m, NEW ok,
         NEW o \in ddhcp_dhcp_leaseack(m, c, ok)
  PROVE  HandledOK(c, o)
<1> DEFINE found == dhcp_packet_list_find(c, m.xid, m.chaddr)
<1>1. CASE found = {}
  <2>1. o = Silent(c)
    BY <1>1 DEF ddhcp_dhcp_leaseack
  <2> QED
    BY <2>1, SteadyNoChange, SilentOK
<1>2. CASE found # {}
  <2>1. o \in UNION {dhcp_rhdl_ack(e.packet, Uncache(c, e), ok) : e \in found}
    BY <1>2 DEF ddhcp_dhcp_leaseack
  <2>2. PICK e \in found : o \in dhcp_rhdl_ack(e.packet, Uncache(c, e), ok)
    BY <2>1
  <2> DEFINE p == e.packet
             d == Uncache(c, e)
  <2>3. p \in DhcpPacket /\ Steady(c, d)
    BY UncacheSteady
  <2>4. d \in Config /\ TableOK(d.blocks)
    BY <2>3, SteadyTable
  <2>5. o \in dhcp_rhdl_ack(p, d, ok)
    BY <2>2
  <2> HIDE DEF p, d
  <2>6. HandledOK(d, o)
    <3>1. CASE o = Silent(d)
      BY <2>4, <3>1, SteadyNoChange, SilentOK
    <3>2. CASE p.address \in Addresses /\ o \in dhcp_ack(p, p.address, d, ok)
      BY <2>3, <2>4, <3>2, AckOK
    <3>3. o = Silent(d) \/ (p.address \in Addresses /\ o \in dhcp_ack(p, p.address, d, ok))
      BY <2>5 DEF dhcp_rhdl_ack, find_lease_from_address
    <3> QED
      BY <3>1, <3>2, <3>3
  <2> QED
    BY <2>3, <2>6, HandledAfter
<1> QED
  BY <1>1, <1>2

\* ddhcp_dhcp_leasenak is steady.
LEMMA LeaseNakOK ==
  ASSUME NEW c \in Config, TableOK(c.blocks), NEW m, NEW ok,
         NEW o \in ddhcp_dhcp_leasenak(m, c, ok)
  PROVE  HandledOK(c, o)
<1> DEFINE found == dhcp_packet_list_find(c, m.xid, m.chaddr)
<1>1. CASE found = {}
  <2>1. o = Silent(c)
    BY <1>1 DEF ddhcp_dhcp_leasenak
  <2> QED
    BY <2>1, SteadyNoChange, SilentOK
<1>2. CASE found # {}
  <2>1. o \in UNION {dhcp_nack(e.packet, Uncache(c, e), ok) : e \in found}
    BY <1>2 DEF ddhcp_dhcp_leasenak
  <2>2. PICK e \in found : o \in dhcp_nack(e.packet, Uncache(c, e), ok)
    BY <2>1
  <2>3. e.packet \in DhcpPacket /\ Steady(c, Uncache(c, e))
    BY UncacheSteady
  <2>4. Uncache(c, e) \in Config /\ TableOK(Uncache(c, e).blocks)
    BY <2>3, SteadyTable
  <2>5. HandledOK(Uncache(c, e), o)
    BY <2>2, <2>3, <2>4, NackOK
  <2> QED
    BY <2>3, <2>5, HandledAfter
<1> QED
  BY <1>1, <1>2

\* Whatever another node sends directly, ddhcp_dhcp_process is steady.
LEMMA DirectOK ==
  ASSUME NEW c \in Config, TableOK(c.blocks), NEW n \in Nodes, NEW m \in DirectPacket,
         NEW ok, NEW o \in ddhcp_dhcp_process(n, m, c, ok)
  PROVE  HandledOK(c, o)
<1>1. m.command \in {"RENEWLEASE", "LEASEACK", "LEASENAK"}
  BY DEF DirectPacket
<1> QED
  BY <1>1, RenewOK, LeaseAckOK, LeaseNakOK DEF ddhcp_dhcp_process

-----------------------------------------------------------------------------
(* Multicast packets of other nodes *)

\* Renewing a claim on demand is quiet.
LEMMA ReclaimOK ==
  ASSUME NEW c \in Config, TableOK(c.blocks), NEW n \in Nodes, NEW b \in Blocks,
         NEW ok, NEW o \in Reclaim(n, b, c, ok)
  PROVE  Quiet(c, o.config) /\ o.sent \in Seq(McastPacket)
<1> DEFINE blk == [c.blocks[b] EXCEPT !.timeout = Expired]
           d == [c EXCEPT !.blocks[b] = blk]
<1>1. Expired \in Time
  BY DEF Time
<1>2. c.blocks[b] \in Block /\ Allocated(c.blocks[b])
  BY DEF TableOK
<1>3. Tamer(c.blocks[b], blk)
  BY <1>1, <1>2, TameTimeout
<1>4. d = [c EXCEPT !.blocks[b].timeout = Expired]
  BY DEF Config
<1> HIDE DEF blk
<1>5. Quiet(c, d)
  BY <1>3, TameBlock
<1> HIDE DEF d
<1>6. o \in block_update_claims(n, d, ok)
  BY <1>4, Zenon DEF Reclaim
<1>7. d \in Config /\ TableOK(d.blocks)
  BY <1>5, QuietTable
<1>8. Quiet(d, o.config) /\ o.sent \in Seq(McastPacket)
  BY <1>6, <1>7, UpdateClaimsQuiet
<1> QED
  BY <1>5, <1>8, QuietTransitive

\* Noticing another node's claim or interest is a tame change.
LEMMA NoticeTame ==
  ASSUME NEW blk \in Block, NEW sender \in Nodes
  PROVE  Tamer(blk, NoticeClaim(blk, sender)) /\ Tamer(blk, NoticeInterest(blk))
<1>1. BlockTimeout \in Time /\ TentativeTimeout \in Time
  BY TimesAssumption DEF Time
<1>2. /\ NoticeClaim(blk, sender) \in Block /\ NoticeClaim(blk, sender).state = "CLAIMED"
      /\ NoticeClaim(blk, sender).claiming_counts = blk.claiming_counts
  BY <1>1 DEF NoticeClaim, Block, BlockStates
<1>3. /\ NoticeInterest(blk) \in Block /\ NoticeInterest(blk).state = "TENTATIVE"
      /\ NoticeInterest(blk).claiming_counts = blk.claiming_counts
  BY <1>1 DEF NoticeInterest, Block, BlockStates
<1> QED
  BY <1>2, <1>3 DEF Tamer, Allocated

\* Whatever another node multicasts, ddhcp_block_process is quiet.
LEMMA EntryOK ==
  ASSUME NEW c \in Config, TableOK(c.blocks), NEW n \in Nodes, NEW m \in McastPacket,
         NEW b \in Blocks, NEW ok, NEW o \in ddhcp_block_process(n, m, b, c, ok)
  PROVE  Quiet(c, o.config) /\ o.sent \in Seq(McastPacket)
<1> DEFINE claimed == [c EXCEPT !.blocks[b] = NoticeClaim(c.blocks[b], m.sender)]
           tentative == [c EXCEPT !.blocks[b] = NoticeInterest(c.blocks[b])]
<1>1. c.blocks[b] \in Block /\ m.sender \in Nodes
  BY DEF TableOK, McastPacket
<1>2. /\ Tamer(c.blocks[b], NoticeClaim(c.blocks[b], m.sender))
      /\ Tamer(c.blocks[b], NoticeInterest(c.blocks[b]))
  BY <1>1, NoticeTame
<1>3. Quiet(c, claimed) /\ Quiet(c, tentative) /\ Quiet(c, c)
  BY <1>2, TameBlock, NoChange
<1>4. \/ o \in Reclaim(n, b, c, ok)
      \/ o = Outcome(claimed, << >>)
      \/ o = Outcome(tentative, << >>)
      \/ o = Outcome(c, << >>)
  BY DEF ddhcp_block_process, ddhcp_block_process_claims, ddhcp_block_process_inquire
<1> HIDE DEF claimed, tentative
<1>5. CASE o \in Reclaim(n, b, c, ok)
  BY <1>5, ReclaimOK
<1>6. ASSUME NEW d, Quiet(c, d), o = Outcome(d, << >>)
      PROVE  Quiet(c, o.config) /\ o.sent \in Seq(McastPacket)
  BY <1>6 DEF Outcome
<1> QED
  BY <1>3, <1>4, <1>5, <1>6

-----------------------------------------------------------------------------
(* Time *)

\* Dropping old requests from the cache is steady.
LEMMA CacheTimeoutSteady ==
  ASSUME NEW c \in Config, TableOK(c.blocks)
  PROVE  Steady(c, dhcp_packet_list_timeout(c))
<1> DEFINE cache == {e \in c.dhcp_packet_cache : ~ (e.timeout < 0)}
<1>1. cache \in SUBSET CachedPacket
  BY DEF Config
<1>2. dhcp_packet_list_timeout(c) = [c EXCEPT !.dhcp_packet_cache = cache]
  BY DEF dhcp_packet_list_timeout
<1> HIDE DEF cache
<1>3. Steady(c, [c EXCEPT !.dhcp_packet_cache = cache])
  BY <1>1, CacheSteady
<1> QED
  BY <1>2, <1>3, Zenon

\* The clock is quiet.
LEMMA AgeQuiet ==
  ASSUME NEW c \in Config, TableOK(c.blocks)
  PROVE  Quiet(c, AgeConfig(c))
<1> DEFINE bs == [b \in Blocks |-> AgeBlock(c.blocks[b])]
           cache == {AgeCached(e) : e \in c.dhcp_packet_cache}
           marks == c.needless_marks
<1>1. \A b \in Blocks : Tamer(c.blocks[b], bs[b])
  BY OlderBlock DEF TableOK
<1>2. bs \in [Blocks -> Block]
  BY <1>1 DEF Tamer
<1>3. cache \in SUBSET CachedPacket
  BY ElapseType DEF Config, CachedPacket, AgeCached
<1>4. marks \in BOOLEAN
  BY DEF Config
<1>5. AgeConfig(c) = [c EXCEPT !.blocks = bs, !.needless_marks = marks,
                               !.dhcp_packet_cache = cache]
  BY DEF AgeConfig, Config
<1> HIDE DEF bs, cache, marks
<1>6. Quiet(c, [c EXCEPT !.blocks = bs, !.needless_marks = marks,
                         !.dhcp_packet_cache = cache])
  BY <1>1, <1>2, <1>3, <1>4, TameTable
<1> QED
  BY <1>5, <1>6, Zenon
=============================================================================
