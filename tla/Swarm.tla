-------------------------------- MODULE Swarm -------------------------------
(***************************************************************************)
(* A swarm of ddhcpd daemons on one link: the event loop and the house     *)
(* keeping of every daemon (main.c), the multicast and the direct sockets  *)
(* between them, the DHCP clients they serve, and the clock.               *)
(*                                                                         *)
(* A daemon is single threaded.  It blocks in epoll_wait, wakes up for a   *)
(* timeout or for events, drains the sockets that had an event one after   *)
(* the other, and does its house keeping at the end of the round.  A step  *)
(* of the model is one received packet (one entry of it, for a multicast   *)
(* packet), the return of a handler, or the part of the house keeping up   *)
(* to one of its two sends.                                                *)
(***************************************************************************)
EXTENDS Ddhcp

CONSTANTS
  LearningPhase,  \* daemons start with a learning phase (no -L)
  OtherEvents,    \* control or netlink events may wake a daemon
  ClientXids,     \* the transaction ids each client uses
  Access,         \* the daemons on whose client link a client appears
  Faults,         \* what the network may do while it is faulty
  QueueCapacity,  \* bound: packets a receive buffer holds, others are dropped
  MaxStops        \* bound: how often a daemon is stopped

ASSUME SwarmAssumption ==
  /\ LearningPhase \in BOOLEAN
  /\ OtherEvents \in BOOLEAN
  /\ ClientXids \in [Clients -> SUBSET Xids]
  /\ Access \in [Clients -> SUBSET Nodes]
  /\ Faults \subseteq {"loss", "sendfail", "delay"}
  /\ QueueCapacity \in Nat
  /\ MaxStops \in Nat

VARIABLES
  config,    \* the ddhcp_config of each daemon
  pc,        \* "down", "wait" (in epoll_wait), "run" (handlers), "update"
             \* (house keeping, before block_update_claims), "segv" (killed)
  ready,     \* the sockets with an event in this round of the loop
  active,    \* the one whose handler is draining it
  need,      \* need_house_keeping
  learning,  \* learning_phase
  hk,        \* seconds until timeout_time, 0 when it has come
  loop,      \* seconds until epoll_wait times out
  mcast,     \* packets on their way to, or in, the multicast socket
  server,    \* the same for the socket of direct packets
  client,    \* the address each client uses and how long it may
  faulty,    \* the network may still show Faults
  stops      \* daemons stopped so far

daemonVars == <<config, pc, ready, active, need, learning, hk, loop>>
netVars == <<mcast, server>>
vars == <<daemonVars, netVars, client, faulty, stops>>

MCAST == "mcast"
SERVER == "server"
DHCP == "dhcp"
NoSocket == "none"
Sockets == {MCAST, SERVER, DHCP}

\* The timeout of epoll_wait, half the tentative timeout in milliseconds, as
\* the number of times the clock moves on meanwhile: half a second may pass
\* with or without that.
get_loop_timeout == {TentativeTimeout \div 2, (TentativeTimeout + 1) \div 2}

\* The time between two house keepings of the timer.
HouseKeepingInterval == TentativeTimeout \div 2

Unbound == [address |-> NoAddress, left |-> 0]

ClientState == [address : Addresses \cup {NoAddress}, left : 0 .. LeaseTime]

\* The daemon is in a round of its loop; it is running.
Busy(n) == pc[n] \in {"run", "update"}

Up(n) == pc[n] = "wait" \/ Busy(n)

\* What sendto may return at the moment.
SendResults == IF faulty /\ "sendfail" \in Faults THEN BOOLEAN ELSE {TRUE}

\* Packets may take longer than the rest of the current second.
Delays == faulty /\ "delay" \in Faults

-----------------------------------------------------------------------------
(* The network *)

\* What is left of a burst of packets after some of them are lost.
Surviving(pkts) ==
  UNION {{[i \in 1 .. Cardinality(S) |-> pkts[f[i]]] : f \in Ascending(S)} :
           S \in SUBSET DOMAIN pkts}

Delivered(pkts) ==
  IF faulty /\ "loss" \in Faults THEN Surviving(pkts) ELSE {pkts}

\* A receive buffer that is full drops what comes in.
Enqueue(queue, pkts) ==
  SubSeq(queue \o pkts, 1, IF Len(queue \o pkts) <= QueueCapacity
                           THEN Len(queue \o pkts) ELSE QueueCapacity)

\* send_packet_mcast: every other daemon of the link that is up receives
\* what the network delivers to it, in the order it was sent.  queues are
\* the receive buffers before, without the packet the sender has just read.
Multicast(n, pkts, queues) ==
  \E heard \in [Nodes -> Delivered(pkts)] :
    mcast' = [r \in Nodes |-> IF r # n /\ Up(r)
                              THEN Enqueue(queues[r], heard[r])
                              ELSE queues[r]]

\* send_packet_direct, for at most one packet; nobody looks at the result.
SendDirect(direct, queues) ==
  \E got \in Delivered(direct) \cup (IF FALSE \in SendResults THEN {<< >>} ELSE {}) :
    server' = [r \in Nodes |->
                 IF Up(r) /\ got # << >> /\ got[1].to = r
                 THEN Enqueue(queues[r], <<got[1].packet>>)
                 ELSE queues[r]]

-----------------------------------------------------------------------------
(* Starting and stopping *)

\* Mutant: learning lasts no longer than the time between two refreshes.
LearningTime_Short == BlockTimeout \div RefreshFactor

\* How long a daemon only listens before its first house keeping.
LearningTime == BlockTimeout

\* main up to the loop.  The content of needless_marks is undefined.
Boot(n) ==
  /\ pc[n] = "down"
  /\ \E marks \in BOOLEAN :
       config' = [config EXCEPT ![n] = ddhcp_block_init(marks)]
  /\ pc' = [pc EXCEPT ![n] = "wait"]
  /\ learning' = [learning EXCEPT ![n] = LearningPhase]
  /\ hk' = [hk EXCEPT ![n] = IF LearningPhase THEN LearningTime ELSE 0]
  /\ \E t \in get_loop_timeout :
       loop' = [loop EXCEPT ![n] = IF LearningPhase THEN t ELSE 0]
  /\ UNCHANGED <<ready, active, need, netVars, client, faulty, stops>>

\* What a daemon that is not running looks like: its memory and the content
\* of its sockets are gone.
Vanish(n, how) ==
  /\ pc' = [pc EXCEPT ![n] = how]
  /\ config' = [config EXCEPT ![n] = ddhcp_block_init(FALSE)]
  /\ ready' = [ready EXCEPT ![n] = {}]
  /\ active' = [active EXCEPT ![n] = NoSocket]
  /\ need' = [need EXCEPT ![n] = FALSE]
  /\ learning' = [learning EXCEPT ![n] = FALSE]
  /\ hk' = [hk EXCEPT ![n] = 0]
  /\ loop' = [loop EXCEPT ![n] = 0]
  /\ mcast' = [mcast EXCEPT ![n] = << >>]
  /\ server' = [server EXCEPT ![n] = << >>]

\* A signal or a crash of the machine.  Nothing is sent on the way out.
Stop(n) ==
  /\ stops < MaxStops
  /\ Up(n)
  /\ Vanish(n, "down")
  /\ stops' = stops + 1
  /\ UNCHANGED <<client, faulty>>

-----------------------------------------------------------------------------
(* The event loop *)

Queue(n, s) == CASE s = MCAST -> mcast[n]
                 [] s = SERVER -> server[n]
                 [] OTHER -> << >>

\* The sockets epoll_wait may report.  Packets of clients are not queued in
\* the model, so the client socket may become ready at any time.
Events(n) ==
  {s \in {MCAST, SERVER} : Queue(n, s) # << >>}
    \cup {s \in {DHCP} : \E k \in Clients : n \in Access[k]}

\* epoll_wait returns: for the timeout, for events, or for the control or
\* netlink socket.  A packet that has been sent has an event, unless the
\* network still delays it.  The handler of the multicast socket
\* always asks for house keeping.
Wake(n) ==
  /\ pc[n] = "wait"
  /\ \E e \in SUBSET Events(n) :
       /\ Delays \/ Events(n) \ {DHCP} \subseteq e
       /\ loop[n] = 0 \/ e # {} \/ OtherEvents
       /\ ready' = [ready EXCEPT ![n] = e]
       /\ need' = [need EXCEPT ![n] = hk[n] = 0 \/ MCAST \in e]
  /\ hk' = [hk EXCEPT ![n] = IF @ = 0 THEN HouseKeepingInterval ELSE @]
  /\ learning' = [learning EXCEPT ![n] = @ /\ hk[n] # 0]
  /\ pc' = [pc EXCEPT ![n] = "run"]
  /\ active' = [active EXCEPT ![n] = NoSocket]
  /\ \E t \in get_loop_timeout : loop' = [loop EXCEPT ![n] = t]
  /\ UNCHANGED <<config, netVars, client, faulty, stops>>

\* The handler of socket s may read: it is the one that is running, or none
\* is and its socket has not had its turn.
MayRead(n, s) ==
  /\ pc[n] = "run"
  /\ s \in ready[n]
  /\ active[n] \in {NoSocket, s}

Turn(n, s) ==
  /\ MayRead(n, s)
  /\ active' = [active EXCEPT ![n] = s]
  /\ UNCHANGED ready

\* A handler finds its socket empty and returns.  What comes in later is left
\* for the next epoll_wait.
HandlerReturns(n) ==
  /\ \E s \in Sockets :
       /\ MayRead(n, s)
       /\ Queue(n, s) = << >>
       /\ ready' = [ready EXCEPT ![n] = @ \ {s}]
  /\ active' = [active EXCEPT ![n] = NoSocket]
  /\ UNCHANGED <<config, pc, need, learning, hk, loop, netVars, client, faulty, stops>>

\* The receive buffers once entry b of the first packet is dealt with.
AfterEntry(n, b) ==
  LET m == Head(mcast[n])
      rest == [m EXCEPT !.payload = @ \ {b}]
      left == IF rest.payload = {} THEN << >> ELSE <<rest>>
  IN [mcast EXCEPT ![n] = left \o Tail(@)]

hdl_ddhcp_block(n) ==
  /\ Turn(n, MCAST)
  /\ mcast[n] # << >>
  /\ \E b \in Head(mcast[n]).payload :
       \E o \in ddhcp_block_process(n, Head(mcast[n]), b, config[n], SendResults) :
         /\ config' = [config EXCEPT ![n] = o.config]
         /\ Multicast(n, o.sent, AfterEntry(n, b))
  /\ UNCHANGED <<pc, need, learning, hk, loop, server, client, faulty, stops>>

\* What a reply means for the client it is sent to.
ClientsAfter(reply, clients) ==
  CASE reply.type = "ACK" ->
         [clients EXCEPT ![reply.chaddr] =
            [address |-> reply.address, left |-> LeaseTime]]
    [] reply.type = "NAK" -> [clients EXCEPT ![reply.chaddr] = Unbound]
    [] OTHER -> clients

DirectOutcomes(n) ==
  ddhcp_dhcp_process(n, Head(server[n]), config[n], SendResults)

hdl_ddhcp_dhcp(n) ==
  /\ Turn(n, SERVER)
  /\ server[n] # << >>
  /\ \E o \in DirectOutcomes(n) :
       /\ ~ o.segv
       /\ config' = [config EXCEPT ![n] = o.config]
       /\ SendDirect(o.direct, [server EXCEPT ![n] = Tail(@)])
       /\ client' = ClientsAfter(o.reply, client)
  /\ UNCHANGED <<pc, need, learning, hk, loop, mcast, faulty, stops>>

\* The packets clients may send to a daemon: they may request and release
\* any address.  A client that releases its own address stops using it.
ClientPackets(n) ==
  {p \in DhcpPacket :
     /\ n \in Access[p.chaddr]
     /\ p.xid \in ClientXids[p.chaddr]
     /\ p.type \in {"DISCOVER", "INFORM"} => p.address = NoAddress
     /\ p.type = "RELEASE" => p.address \in Addresses}

Released(p) ==
  IF p.type = "RELEASE" /\ client[p.chaddr].address = p.address
  THEN [client EXCEPT ![p.chaddr] = Unbound] ELSE client

ClientOutcomes(n, p) == dhcp_process(n, p, config[n], SendResults)

hdl_dhcp(n) ==
  /\ Turn(n, DHCP)
  /\ \E p \in ClientPackets(n) : \E o \in ClientOutcomes(n, p) :
       /\ ~ o.segv
       /\ config' = [config EXCEPT ![n] = o.config]
       /\ SendDirect(o.direct, server)
       /\ client' = ClientsAfter(o.reply, Released(p))
  /\ UNCHANGED <<pc, need, learning, hk, loop, mcast, faulty, stops>>

\* The handler of socket s may come to use the address array of a block that
\* has none.
MayCrash(n, s) ==
  IF s = SERVER
  THEN server[n] # << >> /\ \E o \in DirectOutcomes(n) : o.segv
  ELSE \E p \in ClientPackets(n) : \E o \in ClientOutcomes(n, p) : o.segv

NullDereference(n) ==
  /\ \E s \in {SERVER, DHCP} : MayRead(n, s) /\ MayCrash(n, s)
  /\ Vanish(n, "segv")
  /\ UNCHANGED <<client, faulty, stops>>

-----------------------------------------------------------------------------
(* House keeping *)

\* blocks_needed: leases_needed / block_size, which C rounds towards zero,
\* and one more for a positive rest.
BlocksNeeded(c) ==
  LET leases_needed == SpareLeasesNeeded - block_num_free_leases(c)
  IN IF leases_needed > 0
     THEN (leases_needed + BlockSize - 1) \div BlockSize
     ELSE - ((- leases_needed) \div BlockSize)

\* Drop, keep or claim blocks according to the leases to spare.
AdjustBlocks(n, c, ok) ==
  LET kept == IF c.needless_marks THEN block_unmark_needless(c) ELSE c
  IN IF BlocksNeeded(c) < 0 THEN {Outcome(d, << >>) : d \in block_drop_unused(c)}
     ELSE IF BlocksNeeded(c) > 0 THEN block_claim(n, BlocksNeeded(c), kept, ok)
     ELSE {Outcome(kept, << >>)}

\* house_keeping up to block_update_claims, and from there on.
CheckAndAdjust(n, c, ok) == AdjustBlocks(n, block_check_timeouts(c), ok)

RefreshAndForget(n, c, ok) ==
  {Outcome(dhcp_packet_list_timeout(u.config), u.sent) :
     u \in block_update_claims(n, c, ok)}

\* Mutant: a handler may leave packets behind in its socket.
RoundOver_Undrained(n) == pc[n] = "run"

\* The handlers of all sockets that had an event have returned.
RoundOver(n) == pc[n] = "run" /\ ready[n] = {}

BackToEpoll(n) ==
  /\ pc' = [pc EXCEPT ![n] = "wait"]
  /\ ready' = [ready EXCEPT ![n] = {}]
  /\ active' = [active EXCEPT ![n] = NoSocket]
  /\ need' = [need EXCEPT ![n] = FALSE]

HouseKeeping(n) ==
  /\ RoundOver(n)
  /\ need[n] /\ ~ learning[n]
  /\ \E o \in CheckAndAdjust(n, config[n], SendResults) :
       /\ config' = [config EXCEPT ![n] = o.config]
       /\ Multicast(n, o.sent, mcast)
  /\ pc' = [pc EXCEPT ![n] = "update"]
  /\ UNCHANGED <<ready, active, need, learning, hk, loop, server, client, faulty, stops>>

HouseKeepingEnds(n) ==
  /\ pc[n] = "update"
  /\ \E o \in RefreshAndForget(n, config[n], SendResults) :
       /\ config' = [config EXCEPT ![n] = o.config]
       /\ Multicast(n, o.sent, mcast)
  /\ BackToEpoll(n)
  /\ UNCHANGED <<learning, hk, loop, server, client, faulty, stops>>

NoHouseKeeping(n) ==
  /\ RoundOver(n)
  /\ ~ need[n] \/ learning[n]
  /\ BackToEpoll(n)
  /\ UNCHANGED <<config, learning, hk, loop, netVars, client, faulty, stops>>

-----------------------------------------------------------------------------
(* The environment *)

\* The clock moves on by a second when every daemon has finished its round,
\* none has slept beyond its timeout, and, unless the network delays them,
\* all packets have been read.
Tick ==
  /\ \A n \in Nodes :
       /\ ~ Busy(n)
       /\ pc[n] = "wait" => loop[n] > 0
       /\ ~ Delays => mcast[n] = << >> /\ server[n] = << >>
  /\ config' = [n \in Nodes |-> IF Up(n) THEN AgeConfig(config[n]) ELSE config[n]]
  /\ hk' = [n \in Nodes |-> IF hk[n] > 0 THEN hk[n] - 1 ELSE 0]
  /\ loop' = [n \in Nodes |-> IF loop[n] > 0 THEN loop[n] - 1 ELSE 0]
  /\ client' = [k \in Clients |->
                  IF client[k].left > 0 THEN [client[k] EXCEPT !.left = @ - 1]
                                        ELSE Unbound]
  /\ UNCHANGED <<pc, ready, active, need, learning, netVars, faulty, stops>>

\* From here on the network is reliable.
Heal ==
  /\ faulty
  /\ faulty' = FALSE
  /\ UNCHANGED <<daemonVars, netVars, client, stops>>

-----------------------------------------------------------------------------
(* The specification *)

Init ==
  /\ config = [n \in Nodes |-> ddhcp_block_init(FALSE)]
  /\ pc = [n \in Nodes |-> "down"]
  /\ ready = [n \in Nodes |-> {}]
  /\ active = [n \in Nodes |-> NoSocket]
  /\ need = [n \in Nodes |-> FALSE]
  /\ learning = [n \in Nodes |-> FALSE]
  /\ hk = [n \in Nodes |-> 0]
  /\ loop = [n \in Nodes |-> 0]
  /\ mcast = [n \in Nodes |-> << >>]
  /\ server = [n \in Nodes |-> << >>]
  /\ client = [k \in Clients |-> Unbound]
  /\ faulty = (Faults # {})
  /\ stops = 0

\* The steps of a daemon that is running.
Daemon(n) ==
  \/ Wake(n)
  \/ hdl_ddhcp_block(n)
  \/ hdl_ddhcp_dhcp(n)
  \/ NullDereference(n)
  \/ hdl_dhcp(n)
  \/ HandlerReturns(n)
  \/ HouseKeeping(n)
  \/ HouseKeepingEnds(n)
  \/ NoHouseKeeping(n)

Next ==
  \/ \E n \in Nodes : Boot(n) \/ Stop(n) \/ Daemon(n)
  \/ Tick
  \/ Heal

Spec == Init /\ [][Next]_vars

\* Daemons are started, some daemon that can run does, the clock goes on
\* when nobody runs, and the network recovers at some time.
Fairness ==
  /\ WF_vars(\E n \in Nodes : Boot(n))
  /\ WF_vars(\E n \in Nodes : Daemon(n))
  /\ WF_vars(Tick)
  /\ WF_vars(Heal)

FairSpec == Spec /\ Fairness

-----------------------------------------------------------------------------
(* Properties *)

\* Every variable has its type: the tables of all daemons are well formed,
\* claiming_counts never passes 3 (block_claim), and the queues hold packets
\* of the two sockets they stand for.
TypeOK ==
  /\ config \in [Nodes -> Config]
  /\ pc \in [Nodes -> {"down", "wait", "run", "update", "segv"}]
  /\ ready \in [Nodes -> SUBSET Sockets]
  /\ active \in [Nodes -> Sockets \cup {NoSocket}]
  /\ need \in [Nodes -> BOOLEAN]
  /\ learning \in [Nodes -> BOOLEAN]
  /\ hk \in [Nodes -> Nat]
  /\ loop \in [Nodes -> Nat]
  /\ mcast \in [Nodes -> Seq(McastPacket)]
  /\ server \in [Nodes -> Seq(DirectPacket)]
  /\ client \in [Clients -> ClientState]
  /\ faulty \in BOOLEAN
  /\ stops \in 0 .. MaxStops

Owners(b) == {n \in Nodes : config[n].blocks[b].state = "OURS"}

\* How often each claim on the list has been announced.
Announced(c) ==
  [b \in Blocks |-> IF b \in c.claiming_blocks THEN c.blocks[b].claiming_counts ELSE -1]

\* The swarm seen as possession of blocks and claims to them.
Possession == INSTANCE Ownership WITH
  owned <- [n \in Nodes |-> Owned(config[n])],
  announced <- [n \in Nodes |-> Announced(config[n])],
  live <- [n \in Nodes |-> InState(config[n], "CLAIMING")]

\* No block is owned by two daemons: three announcements, the answers of an
\* owner and the order on node ids (block_claim, ddhcp_block_process_claims,
\* ddhcp_block_process_inquire) keep two claimants apart.
SingleOwner == \A b \in Blocks : Cardinality(Owners(b)) <= 1

\* The lease array of a block exists while the block is ours and is gone
\* when the block is free or being claimed (block_alloc, block_free): what
\* the handlers of DISCOVER, REQUEST and RELEASE index is there, and a block
\* that is claimed anew starts with fresh leases.  (types.h:84 has the array
\* exist "only iff" the state is CLAIMED, which is neither: a block of ours has
\* one, and a block another node claims has one only after a request for it
\* was forwarded.)
AllocationDiscipline ==
  \A n \in Nodes, b \in Blocks : Allocated(config[n].blocks[b])

\* The claim list and its counter agree, every block being claimed is on the
\* list, and no block of ours is: block_claim, timeouts and packets of other
\* nodes change list, counter and block states at different times.
ClaimListConsistent == \A n \in Nodes : ClaimsListed(config[n])

\* As long as sendto works a daemon never sees a claim of its own run out:
\* house keeping comes around often enough for block_update_claims to renew
\* it, whatever wakes the event loop in between.  (A claim completed in
\* block_claim may be overdue until the same house keeping refreshes it.)
OwnedStaysFresh ==
  \A n \in Nodes : pc[n] # "update" =>
    \A b \in Owned(config[n]) : config[n].blocks[b].timeout >= 0

\* Possession comes from claiming alone: a daemon owns a block only after
\* announcing an uncontested claim in three rounds of house keeping, whatever
\* packets, timeouts, restarts and failed sends come in between (block_claim,
\* ddhcp_block_process).  Swarm implements the specification of module
\* Ownership.
OwnershipEarned == Possession!Spec

\* A daemon that has done its learning and has read all packets knows of the
\* blocks of others: it neither takes them for free nor claims them, not even
\* after a restart, which is what docs/algorithm.md has the learning phase
\* for.  An entry may be tentative: the owner's first UPDATECLAIM waits until
\* its claim is due for a refresh, and an inquiry takes a claim back to
\* tentative (ddhcp_block_process_inquire) until the owner has answered.
OwnersKnown ==
  (\A n \in Nodes : ~ Busy(n) /\ mcast[n] = << >>) =>
    \A n, m \in Nodes, b \in Blocks :
      (n # m /\ Up(n) /\ ~ learning[n] /\ config[m].blocks[b].state = "OURS")
        => config[n].blocks[b].state \in {"CLAIMED", "TENTATIVE"}

\* A daemon takes possession only of a block that is free in its table, is
\* being claimed by it, or whose entry has run out; block.h says of
\* block_claim that a block is only claimable when it is free.
OwnsOnlyFree ==
  [][\A n \in Nodes, b \in Blocks :
       (b \in Owned(config'[n]) /\ b \notin Owned(config[n]))
         => \/ config[n].blocks[b].state \in {"FREE", "CLAIMING"}
            \/ config[n].blocks[b].timeout < 0]_vars

\* No receive buffer overflows: there is always room for the two packets one
\* house keeping may send.  Every multicast packet asks its reader for house
\* keeping (hdl_ddhcp_block), house keeping sends packets and an inquiry may be
\* answered at once, and still the daemons do not talk each other full.
Roomy == \A n \in Nodes : Len(mcast[n]) + 2 <= QueueCapacity

\* Two clients never use one address at the same time: what dhcp_hdl_request,
\* dhcp_rhdl_request and the expiry of leases have to guarantee together.
AddressExclusive ==
  \A j, k \in Clients :
    j # k /\ client[j] # Unbound => client[j].address # client[k].address

\* The address a client uses is recorded for it, as leased and for at least
\* as long as the client uses it, in a block that some daemon still owns:
\* needless blocks are not dropped and leases not expired under a client.
LeaseRecorded ==
  \A k \in Clients : client[k] # Unbound =>
    \E n \in Nodes :
      LET a == client[k].address
      IN /\ BlockOf(config[n], a).state = "OURS"
         /\ LeaseAt(config[n], a).state = "LEASED"
         /\ LeaseAt(config[n], a).chaddr = k
         /\ LeaseAt(config[n], a).lease_end >= client[k].left

\* No daemon dies of the answer to a request it has forwarded
\* (ddhcp_dhcp_leaseack, dhcp_rhdl_ack, dhcp_ack).
NoNullDereference == \A n \in Nodes : pc[n] # "segv"

\* No packet of a client makes a daemon use a NULL lease array, whatever the
\* table has gone through: dhcp_hdl_discover with its search for a free lease,
\* dhcp_hdl_request and dhcp_ack, and dhcp_hdl_release index an array they only
\* know to exist from the block's state, and a request that is forwarded one
\* that block_alloc has just provided.
ClientHandlersSafe == \A n \in Nodes : Up(n) => ~ MayCrash(n, DHCP)

\* When the network has recovered, blocks end up with one owner for good:
\* the claims of two owners meet and the smaller node id gives way.
Converges == <>[]SingleOwner

\* When the network has recovered, every daemon ends up with a block to
\* serve clients from, for good, if there are enough of them.
EveryoneServed == <>[](\A n \in Nodes : Owned(config[n]) # {})
=============================================================================
