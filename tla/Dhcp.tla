-------------------------------- MODULE Dhcp --------------------------------
(***************************************************************************)
(* The DHCP handlers of one daemon (dhcp.c) and the cache of requests that *)
(* wait for another node's answer (dhcp_packet.c).                         *)
(*                                                                         *)
(* A handler gives the set of its outcomes: the configuration left behind, *)
(* the reply to the client (at most one), the packet for another node (at  *)
(* most one), and whether the handler used a NULL address array, which     *)
(* ends the process.                                                       *)
(***************************************************************************)
EXTENDS Block

\* The packets daemons send each other, with the fields of renew_payload.
DirectPacket == [command : {"RENEWLEASE", "LEASEACK", "LEASENAK"},
                 sender : Nodes,
                 chaddr : Clients,
                 xid : Xids,
                 address : Addresses]

Reply == [type : {"OFFER", "ACK", "NAK", "INFORMED", "NONE"},
          chaddr : Clients \cup {NoClient},
          address : Addresses \cup {NoAddress}]

NoReply == [type |-> "NONE", chaddr |-> NoClient, address |-> NoAddress]

Handled(c, reply, direct) ==
  [config |-> c, reply |-> reply, direct |-> direct, segv |-> FALSE]

Silent(c) == Handled(c, NoReply, << >>)

Segfault(c) ==
  [config |-> c, reply |-> NoReply, direct |-> << >>, segv |-> TRUE]

\* What a handler that reads or writes the leases of the blocks in used comes
\* to.  It never looks whether their address arrays exist.
UsingLeases(c, used, outcomes) ==
  IF \A b \in used : c.blocks[b].alloc THEN outcomes ELSE {Segfault(c)}

ReplyTo(p, type, address) ==
  [type |-> type, chaddr |-> p.chaddr, address |-> address]

\* A reply that is lost when sendto fails (o is its result).
ReplyIf(o, reply) == IF o THEN reply ELSE NoReply

\* lease_end of a lease given out now.
LeaseEnd == LeaseTime + LeaseServerDelta

BlockOf(c, a) == c.blocks[a[1]]
LeaseAt(c, a) == c.blocks[a[1]].leases[a[2]]

\* The status code: 0 in one of our blocks, 1 in the range, 2 outside.
find_lease_from_address(a, c) ==
  IF a \notin Addresses THEN 2
  ELSE IF BlockOf(c, a).state = "OURS" THEN 0 ELSE 1

SetLease(c, a, state, p, end) ==
  [c EXCEPT !.blocks[a[1]].leases[a[2]] =
     [state |-> state, chaddr |-> p.chaddr, xid |-> p.xid, lease_end |-> end]]

-----------------------------------------------------------------------------
(* Replies *)

dhcp_nack(p, c, ok) ==
  {Handled(c, ReplyIf(o, ReplyTo(p, "NAK", NoAddress)), << >>) : o \in ok}

\* The lease is recorded whether or not the reply leaves the machine.
dhcp_ack(p, a, c, ok) ==
  UsingLeases(c, {a[1]},
    {Handled(SetLease(c, a, "LEASED", p, LeaseEnd),
             ReplyIf(o, ReplyTo(p, "ACK", a)), << >>) : o \in ok})

-----------------------------------------------------------------------------
(* Packets from clients *)

\* The first free lease of the eldest block of ours that has one.
OfferCandidates(c) ==
  {a \in Addresses : /\ a[1] \in block_find_free_leases(c)
                     /\ a[2] \in dhcp_get_free_lease(BlockOf(c, a))}

\* The lease is taken whether or not the offer leaves the machine; the
\* needless mark is only taken back when it does.
Offer(p, a, c, sent) ==
  LET offered == SetLease(c, a, "OFFERED", p, OfferTimeout)
      unmarked == [offered EXCEPT !.blocks[a[1]].needless_since = NotMarked]
  IN IF sent THEN Handled(unmarked, ReplyTo(p, "OFFER", a), << >>)
             ELSE Silent(offered)

\* The search for a free lease goes through the leases of all blocks of ours.
dhcp_hdl_discover(p, c, ok) ==
  UsingLeases(c, Owned(c),
    IF block_find_free_leases(c) = {} THEN {Silent(c)}
    ELSE UNION {{Offer(p, a, c, o) : o \in ok} : a \in OfferCandidates(c)})

\* dhcp_packet_list_add
CacheRequest(c, p) ==
  [c EXCEPT !.dhcp_packet_cache = @ \cup {[packet |-> p, timeout |-> CacheTimeout]}]

\* What is left when the request has been forwarded; c has the lease array.
Forwarded(n, p, c) ==
  Handled(CacheRequest(SetLease(c, p.address, "OFFERED", p, LeaseEnd), p), NoReply,
          <<[to |-> BlockOf(c, p.address).owner,
             packet |-> [command |-> "RENEWLEASE", sender |-> n,
                         chaddr |-> p.chaddr, xid |-> p.xid,
                         address |-> p.address]]>>)

\* Mutant: the address array of the foreign block is not allocated.
ForwardRequest_NoAlloc(n, p, c) ==
  UsingLeases(c, {p.address[1]}, {Forwarded(n, p, c)})

\* The address is in a block another node claims: note the client in a local
\* copy of the lease, keep the packet and ask the owner.
ForwardRequest(n, p, c) ==
  LET allocated == [c EXCEPT !.blocks[p.address[1]] = block_alloc(@)]
  IN UsingLeases(allocated, {p.address[1]}, {Forwarded(n, p, allocated)})

\* Mutant: only an offer counts as somebody else's.
LeaseTaken_OfferOnly(lease, p) ==
  /\ lease.state = "OFFERED"
  /\ lease.xid # p.xid
  /\ lease.chaddr # p.chaddr

\* The lease is somebody else's: neither offered under this transaction, nor
\* recorded for this client, nor free.
LeaseTaken(lease, p) ==
  /\ lease.state # "OFFERED" \/ lease.xid # p.xid
  /\ lease.chaddr # p.chaddr
  /\ lease.state # "FREE"

\* A request without an address is matched with the offers of its xid, in
\* the order of the table.
OfferedLeases(p, c) ==
  {a \in Addresses : /\ BlockOf(c, a).state = "OURS"
                     /\ LeaseAt(c, a).state = "OFFERED"
                     /\ LeaseAt(c, a).xid = p.xid
                     /\ LeaseAt(c, a).chaddr = p.chaddr}

FirstOf(S) ==
  {a \in S : \A d \in S : a[1] < d[1] \/ (a[1] = d[1] /\ a[2] <= d[2])}

\* The search ends at the first match.
Searched(p, c) == {b \in Owned(c) : \A a \in OfferedLeases(p, c) : b <= a[1]}

RequestByXid(p, c, ok) ==
  UsingLeases(c, Searched(p, c),
    IF OfferedLeases(p, c) = {} THEN dhcp_nack(p, c, ok)
    ELSE UNION {dhcp_ack(p, a, c, ok) : a \in FirstOf(OfferedLeases(p, c))})

RequestInRange(n, p, c, ok) ==
  CASE BlockOf(c, p.address).state = "CLAIMED" -> ForwardRequest(n, p, c)
    [] BlockOf(c, p.address).state = "OURS" ->
         UsingLeases(c, {p.address[1]},
           IF LeaseTaken(LeaseAt(c, p.address), p)
           THEN dhcp_nack(p, c, ok)
           ELSE dhcp_ack(p, p.address, c, ok))
    [] OTHER ->
         IF block_num_owned(c) > 0 THEN dhcp_nack(p, c, ok)
                                   ELSE {Silent(c)}

dhcp_hdl_request(n, p, c, ok) ==
  CASE p.address = NoAddress -> RequestByXid(p, c, ok)
    [] p.address \in Addresses -> RequestInRange(n, p, c, ok)
    [] OTHER -> dhcp_nack(p, c, ok)

ReleaseAt(c, a) == [c EXCEPT !.blocks[a[1]].leases[a[2]] = ReleaseLease(@)]

\* Mutant: anybody may release a lease.
dhcp_hdl_release_Any(p, c) ==
  IF find_lease_from_address(p.address, c) = 0
  THEN UsingLeases(c, {p.address[1]}, {Silent(ReleaseAt(c, p.address))})
  ELSE {Silent(c)}

\* Only a lease of ours that is recorded for this client is released.
dhcp_hdl_release(p, c) ==
  IF find_lease_from_address(p.address, c) = 0
  THEN UsingLeases(c, {p.address[1]},
         {Silent(IF LeaseAt(c, p.address).chaddr = p.chaddr
                 THEN ReleaseAt(c, p.address) ELSE c)})
  ELSE {Silent(c)}

dhcp_hdl_inform(p, c, ok) ==
  {Handled(c, ReplyIf(o, ReplyTo(p, "INFORMED", NoAddress)), << >>) : o \in ok}

\* The return value asks for house keeping only if memory runs out, which
\* is not modelled.
dhcp_process(n, p, c, ok) ==
  CASE p.type = "DISCOVER" -> dhcp_hdl_discover(p, c, ok)
    [] p.type = "REQUEST" -> dhcp_hdl_request(n, p, c, ok)
    [] p.type = "RELEASE" -> dhcp_hdl_release(p, c)
    [] p.type = "INFORM" -> dhcp_hdl_inform(p, c, ok)

-----------------------------------------------------------------------------
(* Requests and answers of other nodes *)

\* Only the end of the lease is set: not its state, not its client.
dhcp_rhdl_request(a, c) ==
  IF find_lease_from_address(a, c) = 0
  THEN [c EXCEPT !.blocks[a[1]].leases[a[2]].lease_end = LeaseEnd]
  ELSE c

\* An answer finds the packet it belongs to, the one cached first, and takes
\* it out of the cache.
dhcp_packet_list_find(c, xid, chaddr) ==
  LET matching == {e \in c.dhcp_packet_cache :
                     e.packet.xid = xid /\ e.packet.chaddr = chaddr}
  IN {e \in matching : \A f \in matching : e.timeout <= f.timeout}

Uncache(c, e) == [c EXCEPT !.dhcp_packet_cache = @ \ {e}]

dhcp_rhdl_ack(p, c, ok) ==
  IF find_lease_from_address(p.address, c) # 1 THEN {Silent(c)}
  ELSE dhcp_ack(p, p.address, c, ok)

dhcp_packet_list_timeout(c) ==
  [c EXCEPT !.dhcp_packet_cache = {e \in @ : ~ (e.timeout < 0)}]

AgeCached(e) == [e EXCEPT !.timeout = Elapse(@)]

\* One second passes for a daemon.
AgeConfig(c) ==
  [c EXCEPT !.blocks = [b \in Blocks |-> AgeBlock(@[b])],
            !.dhcp_packet_cache = {AgeCached(e) : e \in @}]
=============================================================================
