---------------------------- MODULE SwarmProofs -----------------------------
(***************************************************************************)
(* Safety of a swarm of any size: the types, the discipline of lease       *)
(* arrays and the bookkeeping of claims hold in every state, however       *)
(* daemons, packets, losses, restarts and the clock interleave, and the    *)
(* swarm implements the specification of module Ownership: a daemon owns a *)
(* block only after announcing an uncontested claim three times.           *)
(***************************************************************************)
EXTENDS Swarm, DdhcpProofs, SequenceTheorems

\* The inductive invariant: the types, and every daemon's configuration is
\* well formed.
Inv == TypeOK /\ \A n \in Nodes : WellFormed(config[n])

-----------------------------------------------------------------------------
(* The network *)

\* What is left of a burst is a burst of the same kind of packets.
LEMMA SurvivingType ==
  ASSUME NEW S, NEW pkts \in Seq(S), NEW s \in Surviving(pkts)
  PROVE  s \in Seq(S)
<1>1. PICK T \in SUBSET DOMAIN pkts :
        s \in {[i \in 1 .. Cardinality(T) |-> pkts[f[i]]] : f \in Ascending(T)}
  BY DEF Surviving
<1>2. PICK f \in Ascending(T) : s = [i \in 1 .. Cardinality(T) |-> pkts[f[i]]]
  BY <1>1
<1>3. DOMAIN pkts = 1 .. Len(pkts) /\ Len(pkts) \in Nat
  OBVIOUS
<1>4. IsFiniteSet(DOMAIN pkts)
  BY <1>3, FS_Interval
<1>5. Cardinality(T) \in Nat
  BY <1>4, FS_Subset, FS_CardinalityType
<1>6. f \in [1 .. Cardinality(T) -> T]
  BY DEF Ascending
<1>7. \A j \in DOMAIN pkts : pkts[j] \in S
  OBVIOUS
<1>8. s \in [1 .. Cardinality(T) -> S]
  BY <1>2, <1>6, <1>7
<1> QED
  BY <1>5, <1>8, BurstType

\* So is what the network delivers of it.
LEMMA DeliveredType ==
  ASSUME NEW S, NEW pkts \in Seq(S), NEW s \in Delivered(pkts)
  PROVE  s \in Seq(S)
  BY SurvivingType DEF Delivered

\* A receive buffer holds packets of one kind.
LEMMA EnqueueType ==
  ASSUME NEW S, NEW q \in Seq(S), NEW s \in Seq(S)
  PROVE  Enqueue(q, s) \in Seq(S)
<1> DEFINE all == q \o s
           k == IF Len(all) <= QueueCapacity THEN Len(all) ELSE QueueCapacity
<1>1. all \in Seq(S) /\ Len(all) \in Nat
  OBVIOUS
<1> HIDE DEF all
<1>2. k \in 0 .. Len(all)
  BY <1>1, SwarmAssumption
<1> HIDE DEF k
<1>3. SubSeq(all, 1, k) \in Seq(S)
  BY <1>1, <1>2, SubSeqProperties
<1> QED
  BY <1>3 DEF Enqueue, all, k

\* Multicast packets stay multicast packets.
LEMMA MulticastType ==
  ASSUME NEW n, NEW pkts \in Seq(McastPacket),
         NEW queues \in [Nodes -> Seq(McastPacket)],
         Multicast(n, pkts, queues)
  PROVE  mcast' \in [Nodes -> Seq(McastPacket)]
<1>1. PICK heard \in [Nodes -> Delivered(pkts)] :
        mcast' = [r \in Nodes |-> IF r # n /\ Up(r)
                                  THEN Enqueue(queues[r], heard[r])
                                  ELSE queues[r]]
  BY DEF Multicast
<1>2. \A r \in Nodes : heard[r] \in Seq(McastPacket)
  BY DeliveredType
<1>3. \A r \in Nodes : Enqueue(queues[r], heard[r]) \in Seq(McastPacket)
  BY <1>2, EnqueueType
<1> QED
  BY <1>1, <1>3

\* Direct packets stay direct packets.
LEMMA SendDirectType ==
  ASSUME NEW direct \in Seq(Envelope), NEW queues \in [Nodes -> Seq(DirectPacket)],
         SendDirect(direct, queues)
  PROVE  server' \in [Nodes -> Seq(DirectPacket)]
<1>1. PICK got \in Delivered(direct) \cup (IF FALSE \in SendResults THEN {<< >>} ELSE {}) :
        server' = [r \in Nodes |->
                     IF Up(r) /\ got # << >> /\ got[1].to = r
                     THEN Enqueue(queues[r], <<got[1].packet>>)
                     ELSE queues[r]]
  BY DEF SendDirect
<1>2. got \in Seq(Envelope)
  <2>1. got \in Delivered(direct) \/ got = << >>
    OBVIOUS
  <2>2. CASE got \in Delivered(direct)
    BY <2>2, DeliveredType
  <2>3. CASE got = << >>
    BY <2>3
  <2> QED
    BY <2>1, <2>2, <2>3
<1>3. ASSUME NEW r \in Nodes, got # << >>
      PROVE  Enqueue(queues[r], <<got[1].packet>>) \in Seq(DirectPacket)
  <2>1. got[1] \in Envelope
    BY <1>2, <1>3
  <2>2. got[1].packet \in DirectPacket
    BY <2>1 DEF Envelope
  <2>3. <<got[1].packet>> \in Seq(DirectPacket)
    BY <2>2
  <2> QED
    BY <2>3, EnqueueType
<1> QED
  BY <1>1, <1>3

-----------------------------------------------------------------------------
(* House keeping *)

\* Claiming or dropping blocks keeps the configuration well formed.
LEMMA AdjustOK ==
  ASSUME NEW c, WellFormed(c), NEW n \in Nodes, NEW ok, NEW o \in AdjustBlocks(n, c, ok)
  PROVE  WellFormed(o.config) /\ o.sent \in Seq(McastPacket)
<1> DEFINE kept == IF c.needless_marks THEN block_unmark_needless(c) ELSE c
<1>1. c \in Config /\ TableOK(c.blocks)
  BY DEF WellFormed
<1>2. WellFormed(kept)
  BY <1>1, UnmarkQuiet, QuietWellFormed
<1> HIDE DEF kept
<1>3. \/ o \in {Outcome(d, << >>) : d \in block_drop_unused(c)}
      \/ o \in block_claim(n, BlocksNeeded(c), kept, ok)
      \/ o = Outcome(kept, << >>)
  BY DEF AdjustBlocks, kept
<1>4. CASE o \in {Outcome(d, << >>) : d \in block_drop_unused(c)}
  <2>1. PICK d \in block_drop_unused(c) : o = Outcome(d, << >>)
    BY <1>4
  <2>2. WellFormed(d)
    BY <1>1, DropQuiet, QuietWellFormed
  <2> QED
    BY <2>1, <2>2 DEF Outcome
<1>5. CASE o \in block_claim(n, BlocksNeeded(c), kept, ok)
  BY <1>2, <1>5, ClaimOK
<1>6. CASE o = Outcome(kept, << >>)
  BY <1>2, <1>6 DEF Outcome
<1> QED
  BY <1>3, <1>4, <1>5, <1>6

\* The first half of house_keeping keeps the configuration well formed.
LEMMA CheckAndAdjustOK ==
  ASSUME NEW c, WellFormed(c), NEW n \in Nodes, NEW ok, NEW o \in CheckAndAdjust(n, c, ok)
  PROVE  WellFormed(o.config) /\ o.sent \in Seq(McastPacket)
<1>1. WellFormed(block_check_timeouts(c))
  BY CheckTimeoutsQuiet, QuietWellFormed DEF WellFormed
<1> QED
  BY <1>1, AdjustOK DEF CheckAndAdjust

\* The second half is quiet, and keeps the states of all blocks.
LEMMA RefreshAndForgetOK ==
  ASSUME NEW c, WellFormed(c), NEW n \in Nodes, NEW ok, NEW o \in RefreshAndForget(n, c, ok)
  PROVE  Quiet(c, o.config) /\ WellFormed(o.config) /\ o.sent \in Seq(McastPacket)
<1>1. PICK u \in block_update_claims(n, c, ok) :
        o = Outcome(dhcp_packet_list_timeout(u.config), u.sent)
  BY DEF RefreshAndForget
<1>2. Quiet(c, u.config) /\ u.sent \in Seq(McastPacket)
  BY UpdateClaimsQuiet DEF WellFormed
<1>3. WellFormed(u.config)
  BY <1>2, QuietWellFormed
<1>4. Quiet(u.config, dhcp_packet_list_timeout(u.config))
  BY <1>3, CacheTimeoutSteady DEF WellFormed, Steady
<1>5. Quiet(c, dhcp_packet_list_timeout(u.config))
  BY <1>2, <1>4, QuietTransitive
<1>6. WellFormed(dhcp_packet_list_timeout(u.config))
  BY <1>5, QuietWellFormed
<1> QED
  BY <1>1, <1>2, <1>5, <1>6 DEF Outcome

-----------------------------------------------------------------------------
(* The steps of the swarm *)

\* A daemon's new configuration that is well formed keeps them all so.
LEMMA OneConfig ==
  ASSUME Inv, NEW n \in Nodes, NEW c, WellFormed(c),
         config' = [config EXCEPT ![n] = c]
  PROVE  config' \in [Nodes -> Config] /\ \A m \in Nodes : WellFormed(config'[m])
<1>1. config \in [Nodes -> Config] /\ c \in Config
  BY DEF Inv, TypeOK, WellFormed
<1> QED
  BY <1>1 DEF Inv

\* What epoll_wait may wait for.
LEMMA LoopTimes == get_loop_timeout \in SUBSET Nat
  BY TimesAssumption DEF get_loop_timeout

\* Starting a daemon.
LEMMA BootInv == ASSUME Inv, NEW n \in Nodes, Boot(n) PROVE Inv'
<1>1. PICK marks \in BOOLEAN : config' = [config EXCEPT ![n] = ddhcp_block_init(marks)]
  BY DEF Boot
<1>2. config' \in [Nodes -> Config] /\ \A m \in Nodes : WellFormed(config'[m])
  BY <1>1, InitOK, OneConfig
<1>3. BlockTimeout \in Nat /\ LearningPhase \in BOOLEAN
  BY TimesAssumption, SwarmAssumption
<1>4. /\ pc' \in [Nodes -> {"down", "wait", "run", "update", "segv"}]
      /\ learning' \in [Nodes -> BOOLEAN]
  BY <1>3 DEF Boot, Inv, TypeOK
<1>5. hk' \in [Nodes -> Nat] /\ loop' \in [Nodes -> Nat]
  BY <1>3, LoopTimes DEF Boot, Inv, TypeOK, LearningTime
<1>6. UNCHANGED <<ready, active, need, mcast, server, client, faulty, stops>>
  BY DEF Boot, netVars
<1> QED
  BY <1>2, <1>4, <1>5, <1>6 DEF Inv, TypeOK

\* What is left of a daemon that is gone has its types.
LEMMA VanishInv ==
  ASSUME Inv, NEW n \in Nodes, NEW how \in {"down", "segv"}, Vanish(n, how),
         UNCHANGED <<client, faulty>>, stops' \in 0 .. MaxStops
  PROVE  Inv'
<1>1. config' \in [Nodes -> Config] /\ \A m \in Nodes : WellFormed(config'[m])
  BY InitOK, OneConfig DEF Vanish
<1>2. /\ pc' \in [Nodes -> {"down", "wait", "run", "update", "segv"}]
      /\ ready' \in [Nodes -> SUBSET Sockets]
      /\ active' \in [Nodes -> Sockets \cup {NoSocket}]
  BY DEF Vanish, Inv, TypeOK
<1>3. need' \in [Nodes -> BOOLEAN] /\ learning' \in [Nodes -> BOOLEAN]
  BY DEF Vanish, Inv, TypeOK
<1>4. hk' \in [Nodes -> Nat] /\ loop' \in [Nodes -> Nat]
  BY DEF Vanish, Inv, TypeOK
<1>5. mcast' \in [Nodes -> Seq(McastPacket)] /\ server' \in [Nodes -> Seq(DirectPacket)]
  BY DEF Vanish, Inv, TypeOK
<1> QED
  BY <1>1, <1>2, <1>3, <1>4, <1>5 DEF Inv, TypeOK

\* Stopping a daemon.
LEMMA StopInv == ASSUME Inv, NEW n \in Nodes, Stop(n) PROVE Inv'
<1>1. stops' \in 0 .. MaxStops
  BY SwarmAssumption DEF Stop, Inv, TypeOK
<1>2. Vanish(n, "down") /\ UNCHANGED <<client, faulty>>
  BY DEF Stop
<1> QED
  BY <1>1, <1>2, VanishInv

\* A daemon killed by a NULL address array.
LEMMA NullDereferenceInv == ASSUME Inv, NEW n \in Nodes, NullDereference(n) PROVE Inv'
<1>1. stops' \in 0 .. MaxStops
  BY DEF NullDereference, Inv, TypeOK
<1>2. Vanish(n, "segv") /\ UNCHANGED <<client, faulty>>
  BY DEF NullDereference
<1> QED
  BY <1>1, <1>2, VanishInv

\* epoll_wait returns.
LEMMA WakeInv == ASSUME Inv, NEW n \in Nodes, Wake(n) PROVE Inv'
<1>1. PICK e \in SUBSET Events(n) :
        /\ ready' = [ready EXCEPT ![n] = e]
        /\ need' = [need EXCEPT ![n] = hk[n] = 0 \/ MCAST \in e]
  BY DEF Wake
<1>2. e \in SUBSET Sockets
  BY DEF Events, Sockets
<1>3. HouseKeepingInterval \in Nat
  BY TimesAssumption DEF HouseKeepingInterval
<1>4. ready' \in [Nodes -> SUBSET Sockets]
  BY <1>1, <1>2 DEF Inv, TypeOK
<1>5. need' \in [Nodes -> BOOLEAN]
  BY <1>1 DEF Inv, TypeOK
<1>6. hk' \in [Nodes -> Nat] /\ loop' \in [Nodes -> Nat]
  BY <1>3, LoopTimes DEF Wake, Inv, TypeOK
<1>7. learning' \in [Nodes -> BOOLEAN]
  BY DEF Wake, Inv, TypeOK
<1>8. /\ pc' \in [Nodes -> {"down", "wait", "run", "update", "segv"}]
      /\ active' \in [Nodes -> Sockets \cup {NoSocket}]
  BY DEF Wake, Inv, TypeOK
<1>9. UNCHANGED <<config, mcast, server, client, faulty, stops>>
  BY DEF Wake, netVars
<1> QED
  BY <1>4, <1>5, <1>6, <1>7, <1>8, <1>9 DEF Inv, TypeOK

\* Choosing a socket to read from.
LEMMA TurnType ==
  ASSUME Inv, NEW n \in Nodes, NEW s \in Sockets, Turn(n, s)
  PROVE  /\ ready' \in [Nodes -> SUBSET Sockets]
         /\ active' \in [Nodes -> Sockets \cup {NoSocket}]
<1>1. ready \in [Nodes -> SUBSET Sockets] /\ active \in [Nodes -> Sockets \cup {NoSocket}]
  BY DEF Inv, TypeOK
<1> QED
  BY <1>1 DEF Turn

\* A handler returns.
LEMMA HandlerReturnsInv == ASSUME Inv, NEW n \in Nodes, HandlerReturns(n) PROVE Inv'
<1>1. PICK s \in Sockets : ready' = [ready EXCEPT ![n] = @ \ {s}]
  BY DEF HandlerReturns
<1>2. ready' \in [Nodes -> SUBSET Sockets] /\ active' \in [Nodes -> Sockets \cup {NoSocket}]
  BY <1>1 DEF HandlerReturns, Inv, TypeOK
<1>3. UNCHANGED <<config, pc, need, learning, hk, loop, mcast, server, client, faulty, stops>>
  BY DEF HandlerReturns, netVars
<1> QED
  BY <1>2, <1>3 DEF Inv, TypeOK

\* The receive buffers after one entry of a multicast packet.
LEMMA AfterEntryType ==
  ASSUME Inv, NEW n \in Nodes, mcast[n] # << >>, NEW b
  PROVE  AfterEntry(n, b) \in [Nodes -> Seq(McastPacket)]
<1> DEFINE m == Head(mcast[n])
           rest == [m EXCEPT !.payload = m.payload \ {b}]
           left == IF rest.payload = {} THEN << >> ELSE <<rest>>
<1>1. mcast \in [Nodes -> Seq(McastPacket)]
  BY DEF Inv, TypeOK
<1>2. m \in McastPacket /\ Tail(mcast[n]) \in Seq(McastPacket)
  BY <1>1, HeadTailProperties
<1> HIDE DEF m
<1>3. rest \in McastPacket
  BY <1>2 DEF McastPacket
<1>4. AfterEntry(n, b) = [mcast EXCEPT ![n] = left \o Tail(mcast[n])]
  BY DEF AfterEntry, m
<1> HIDE DEF rest
<1>5. left \in Seq(McastPacket)
  BY <1>3
<1> HIDE DEF left
<1>6. left \o Tail(mcast[n]) \in Seq(McastPacket)
  BY <1>2, <1>5
<1> QED
  BY <1>1, <1>4, <1>6

\* One entry of a multicast packet.
LEMMA BlockPacketInv == ASSUME Inv, NEW n \in Nodes, hdl_ddhcp_block(n) PROVE Inv'
<1> DEFINE m == Head(mcast[n])
<1>1. mcast[n] # << >> /\ Turn(n, MCAST)
  BY DEF hdl_ddhcp_block
<1>2. PICK b \in m.payload :
        \E o \in ddhcp_block_process(n, m, b, config[n], SendResults) :
          /\ config' = [config EXCEPT ![n] = o.config]
          /\ Multicast(n, o.sent, AfterEntry(n, b))
  BY DEF hdl_ddhcp_block
<1>3. PICK o \in ddhcp_block_process(n, m, b, config[n], SendResults) :
        /\ config' = [config EXCEPT ![n] = o.config]
        /\ Multicast(n, o.sent, AfterEntry(n, b))
  BY <1>2
<1>4. m \in McastPacket
  BY <1>1, HeadTailProperties DEF Inv, TypeOK
<1> HIDE DEF m
<1>5. b \in Blocks
  BY <1>4 DEF McastPacket
<1>6. WellFormed(config[n]) /\ config[n] \in Config /\ TableOK(config[n].blocks)
  BY DEF Inv, WellFormed
<1>7. Quiet(config[n], o.config) /\ o.sent \in Seq(McastPacket)
  BY <1>4, <1>5, <1>6, EntryOK
<1>8. WellFormed(o.config)
  BY <1>6, <1>7, QuietWellFormed
<1>9. config' \in [Nodes -> Config] /\ \A x \in Nodes : WellFormed(config'[x])
  BY <1>3, <1>8, OneConfig
<1>10. mcast' \in [Nodes -> Seq(McastPacket)]
  BY <1>1, <1>3, <1>7, AfterEntryType, MulticastType
<1>11. /\ ready' \in [Nodes -> SUBSET Sockets]
       /\ active' \in [Nodes -> Sockets \cup {NoSocket}]
  BY <1>1, TurnType DEF Sockets
<1>12. UNCHANGED <<pc, need, learning, hk, loop, server, client, faulty, stops>>
  BY DEF hdl_ddhcp_block
<1> QED
  BY <1>9, <1>10, <1>11, <1>12 DEF Inv, TypeOK

\* A reply leaves clients with addresses of the range.
LEMMA ClientsAfterType ==
  ASSUME NEW clients \in [Clients -> ClientState], NEW reply, ReplyOK(reply)
  PROVE  ClientsAfter(reply, clients) \in [Clients -> ClientState]
<1>1. Unbound \in ClientState
  BY TimesAssumption DEF Unbound, ClientState
<1>2. CASE reply = NoReply
  <2>1. ClientsAfter(reply, clients) = clients
    BY <1>2 DEF ClientsAfter, NoReply
  <2> QED
    BY <2>1
<1>3. CASE reply.chaddr \in Clients /\ reply.address \in Addresses \cup {NoAddress}
  <2>1. [address |-> reply.address, left |-> LeaseTime] \in ClientState
    BY <1>3, TimesAssumption DEF ClientState
  <2> QED
    BY <1>1, <1>3, <2>1 DEF ClientsAfter
<1> QED
  BY <1>2, <1>3 DEF ReplyOK

\* A handler's outcome keeps the types of what it touches.
LEMMA HandledInv ==
  ASSUME Inv, NEW n \in Nodes, NEW o, HandledOK(config[n], o),
         config' = [config EXCEPT ![n] = o.config],
         NEW queues \in [Nodes -> Seq(DirectPacket)], SendDirect(o.direct, queues),
         NEW clients \in [Clients -> ClientState],
         client' = ClientsAfter(o.reply, clients)
  PROVE  /\ config' \in [Nodes -> Config]
         /\ \A x \in Nodes : WellFormed(config'[x])
         /\ server' \in [Nodes -> Seq(DirectPacket)]
         /\ client' \in [Clients -> ClientState]
<1>1. WellFormed(o.config)
  BY QuietWellFormed DEF HandledOK, Steady, Inv
<1>2. config' \in [Nodes -> Config] /\ \A x \in Nodes : WellFormed(config'[x])
  BY <1>1, OneConfig
<1>3. server' \in [Nodes -> Seq(DirectPacket)]
  BY SendDirectType DEF HandledOK
<1>4. client' \in [Clients -> ClientState]
  BY ClientsAfterType DEF HandledOK
<1> QED
  BY <1>2, <1>3, <1>4

\* A direct packet.
LEMMA DirectPacketInv == ASSUME Inv, NEW n \in Nodes, hdl_ddhcp_dhcp(n) PROVE Inv'
<1> DEFINE queues == [server EXCEPT ![n] = Tail(server[n])]
<1>1. server[n] # << >> /\ Turn(n, SERVER)
  BY DEF hdl_ddhcp_dhcp
<1>2. PICK o \in DirectOutcomes(n) :
        /\ config' = [config EXCEPT ![n] = o.config]
        /\ SendDirect(o.direct, queues)
        /\ client' = ClientsAfter(o.reply, client)
  BY DEF hdl_ddhcp_dhcp
<1>3. server \in [Nodes -> Seq(DirectPacket)] /\ client \in [Clients -> ClientState]
  BY DEF Inv, TypeOK
<1>4. Head(server[n]) \in DirectPacket /\ Tail(server[n]) \in Seq(DirectPacket)
  BY <1>1, <1>3, HeadTailProperties
<1>5. queues \in [Nodes -> Seq(DirectPacket)]
  BY <1>3, <1>4
<1> HIDE DEF queues
<1>6. config[n] \in Config /\ TableOK(config[n].blocks)
  BY DEF Inv, WellFormed
<1>7. HandledOK(config[n], o)
  BY <1>4, <1>6, DirectOK DEF DirectOutcomes
<1>8. /\ config' \in [Nodes -> Config]
      /\ \A x \in Nodes : WellFormed(config'[x])
      /\ server' \in [Nodes -> Seq(DirectPacket)]
      /\ client' \in [Clients -> ClientState]
  BY <1>2, <1>3, <1>5, <1>7, HandledInv
<1>9. /\ ready' \in [Nodes -> SUBSET Sockets]
      /\ active' \in [Nodes -> Sockets \cup {NoSocket}]
  BY <1>1, TurnType DEF Sockets
<1>10. UNCHANGED <<pc, need, learning, hk, loop, mcast, faulty, stops>>
  BY DEF hdl_ddhcp_dhcp
<1> QED
  BY <1>8, <1>9, <1>10 DEF Inv, TypeOK

\* A packet of a client.
LEMMA ClientPacketInv == ASSUME Inv, NEW n \in Nodes, hdl_dhcp(n) PROVE Inv'
<1>1. Turn(n, DHCP)
  BY DEF hdl_dhcp
<1>2. PICK p \in ClientPackets(n) : \E o \in ClientOutcomes(n, p) :
        /\ config' = [config EXCEPT ![n] = o.config]
        /\ SendDirect(o.direct, server)
        /\ client' = ClientsAfter(o.reply, Released(p))
  BY DEF hdl_dhcp
<1>3. PICK o \in ClientOutcomes(n, p) :
        /\ config' = [config EXCEPT ![n] = o.config]
        /\ SendDirect(o.direct, server)
        /\ client' = ClientsAfter(o.reply, Released(p))
  BY <1>2
<1>4. server \in [Nodes -> Seq(DirectPacket)] /\ client \in [Clients -> ClientState]
  BY DEF Inv, TypeOK
<1>5. p \in DhcpPacket /\ p.chaddr \in Clients
  BY DEF ClientPackets, DhcpPacket
<1>6. Released(p) \in [Clients -> ClientState]
  <2>1. Unbound \in ClientState
    BY TimesAssumption DEF Unbound, ClientState
  <2> QED
    BY <1>4, <1>5, <2>1 DEF Released
<1>7. config[n] \in Config /\ TableOK(config[n].blocks)
  BY DEF Inv, WellFormed
<1>8. HandledOK(config[n], o)
  BY <1>5, <1>7, ProcessOK DEF ClientOutcomes
<1>9. /\ config' \in [Nodes -> Config]
      /\ \A x \in Nodes : WellFormed(config'[x])
      /\ server' \in [Nodes -> Seq(DirectPacket)]
      /\ client' \in [Clients -> ClientState]
  BY <1>3, <1>4, <1>6, <1>8, HandledInv
<1>10. /\ ready' \in [Nodes -> SUBSET Sockets]
       /\ active' \in [Nodes -> Sockets \cup {NoSocket}]
  BY <1>1, TurnType DEF Sockets
<1>11. UNCHANGED <<pc, need, learning, hk, loop, mcast, faulty, stops>>
  BY DEF hdl_dhcp
<1> QED
  BY <1>9, <1>10, <1>11 DEF Inv, TypeOK

\* The end of a round.
LEMMA BackToEpollType ==
  ASSUME Inv, NEW n \in Nodes, BackToEpoll(n)
  PROVE  /\ pc' \in [Nodes -> {"down", "wait", "run", "update", "segv"}]
         /\ ready' \in [Nodes -> SUBSET Sockets]
         /\ active' \in [Nodes -> Sockets \cup {NoSocket}]
         /\ need' \in [Nodes -> BOOLEAN]
<1>1. need' \in [Nodes -> BOOLEAN]
  BY DEF BackToEpoll, Inv, TypeOK
<1> QED
  BY <1>1 DEF BackToEpoll, Inv, TypeOK

\* House keeping up to its first send.
LEMMA HouseKeepingInv == ASSUME Inv, NEW n \in Nodes, HouseKeeping(n) PROVE Inv'
<1>1. PICK o \in CheckAndAdjust(n, config[n], SendResults) :
        /\ config' = [config EXCEPT ![n] = o.config]
        /\ Multicast(n, o.sent, mcast)
  BY DEF HouseKeeping
<1>2. WellFormed(o.config) /\ o.sent \in Seq(McastPacket)
  BY CheckAndAdjustOK DEF Inv
<1>3. config' \in [Nodes -> Config] /\ \A x \in Nodes : WellFormed(config'[x])
  BY <1>1, <1>2, OneConfig
<1>4. mcast \in [Nodes -> Seq(McastPacket)]
  BY DEF Inv, TypeOK
<1>5. mcast' \in [Nodes -> Seq(McastPacket)]
  BY <1>1, <1>2, <1>4, MulticastType
<1>6. pc' \in [Nodes -> {"down", "wait", "run", "update", "segv"}]
  BY DEF HouseKeeping, Inv, TypeOK
<1>7. UNCHANGED <<ready, active, need, learning, hk, loop, server, client, faulty, stops>>
  BY DEF HouseKeeping
<1> QED
  BY <1>3, <1>5, <1>6, <1>7 DEF Inv, TypeOK

\* House keeping from there on, which ends the round.
LEMMA HouseKeepingEndsInv == ASSUME Inv, NEW n \in Nodes, HouseKeepingEnds(n) PROVE Inv'
<1>1. PICK o \in RefreshAndForget(n, config[n], SendResults) :
        /\ config' = [config EXCEPT ![n] = o.config]
        /\ Multicast(n, o.sent, mcast)
  BY DEF HouseKeepingEnds
<1>2. WellFormed(o.config) /\ o.sent \in Seq(McastPacket)
  BY RefreshAndForgetOK DEF Inv
<1>3. config' \in [Nodes -> Config] /\ \A x \in Nodes : WellFormed(config'[x])
  BY <1>1, <1>2, OneConfig
<1>4. mcast \in [Nodes -> Seq(McastPacket)]
  BY DEF Inv, TypeOK
<1>5. mcast' \in [Nodes -> Seq(McastPacket)]
  BY <1>1, <1>2, <1>4, MulticastType
<1>6. BackToEpoll(n) /\ UNCHANGED <<learning, hk, loop, server, client, faulty, stops>>
  BY DEF HouseKeepingEnds
<1>7. /\ pc' \in [Nodes -> {"down", "wait", "run", "update", "segv"}]
      /\ ready' \in [Nodes -> SUBSET Sockets]
      /\ active' \in [Nodes -> Sockets \cup {NoSocket}]
      /\ need' \in [Nodes -> BOOLEAN]
  BY <1>6, BackToEpollType
<1> QED
  BY <1>3, <1>5, <1>6, <1>7 DEF Inv, TypeOK

\* A round that ends without it.
LEMMA NoHouseKeepingInv == ASSUME Inv, NEW n \in Nodes, NoHouseKeeping(n) PROVE Inv'
<1>1. /\ BackToEpoll(n)
      /\ UNCHANGED <<config, learning, hk, loop, mcast, server, client, faulty, stops>>
  BY DEF NoHouseKeeping, netVars
<1>2. /\ pc' \in [Nodes -> {"down", "wait", "run", "update", "segv"}]
      /\ ready' \in [Nodes -> SUBSET Sockets]
      /\ active' \in [Nodes -> Sockets \cup {NoSocket}]
      /\ need' \in [Nodes -> BOOLEAN]
  BY <1>1, BackToEpollType
<1> QED
  BY <1>1, <1>2 DEF Inv, TypeOK

\* A second passes.
LEMMA TickInv == ASSUME Inv, Tick PROVE Inv'
<1>1. \A n \in Nodes : WellFormed(config[n]) /\ WellFormed(AgeConfig(config[n]))
  BY AgeQuiet, QuietWellFormed DEF Inv, WellFormed
<1>2. config' = [n \in Nodes |-> IF Up(n) THEN AgeConfig(config[n]) ELSE config[n]]
  BY DEF Tick
<1>3. config' \in [Nodes -> Config] /\ \A x \in Nodes : WellFormed(config'[x])
  BY <1>1, <1>2 DEF WellFormed
<1>4. hk' \in [Nodes -> Nat] /\ loop' \in [Nodes -> Nat]
  BY DEF Tick, Inv, TypeOK
<1>5. client' \in [Clients -> ClientState]
  <2>1. Unbound \in ClientState
    BY TimesAssumption DEF Unbound, ClientState
  <2>2. ASSUME NEW s \in ClientState, s.left > 0
        PROVE [s EXCEPT !.left = s.left - 1] \in ClientState
    <3>1. s.left - 1 \in 0 .. LeaseTime
      BY <2>2, TimesAssumption DEF ClientState
    <3> QED
      BY <3>1 DEF ClientState
  <2>3. \A k \in Clients : client[k] \in ClientState
    BY DEF Inv, TypeOK
  <2>4. client' = [k \in Clients |->
                     IF client[k].left > 0
                     THEN [client[k] EXCEPT !.left = client[k].left - 1]
                     ELSE Unbound]
    BY DEF Tick
  <2> QED
    BY <2>1, <2>2, <2>3, <2>4
<1>6. UNCHANGED <<pc, ready, active, need, learning, mcast, server, faulty, stops>>
  BY DEF Tick, netVars
<1> QED
  BY <1>3, <1>4, <1>5, <1>6 DEF Inv, TypeOK

\* The network recovers.
LEMMA HealInv == ASSUME Inv, Heal PROVE Inv'
  BY DEF Heal, Inv, TypeOK, daemonVars, netVars

-----------------------------------------------------------------------------
(* The theorems *)

\* Inv is inductive.
LEMMA NextInv == Inv /\ [Next]_vars => Inv'
<1> SUFFICES ASSUME Inv, [Next]_vars PROVE Inv'
  OBVIOUS
<1>1. ASSUME NEW n \in Nodes, Boot(n) \/ Stop(n) \/ Daemon(n)
      PROVE  Inv'
  BY <1>1, BootInv, StopInv, WakeInv, BlockPacketInv, DirectPacketInv,
     NullDereferenceInv, ClientPacketInv, HandlerReturnsInv, HouseKeepingInv,
     HouseKeepingEndsInv, NoHouseKeepingInv
     DEF Daemon
<1>2. CASE UNCHANGED vars
  BY <1>2 DEF vars, daemonVars, netVars, Inv, TypeOK
<1> QED
  BY <1>1, <1>2, TickInv, HealInv DEF Next

\* A swarm that has not started satisfies Inv.
LEMMA InitInv == Init => Inv
<1> SUFFICES ASSUME Init PROVE Inv
  OBVIOUS
<1>1. WellFormed(ddhcp_block_init(FALSE))
  BY InitOK
<1>2. config \in [Nodes -> Config] /\ \A n \in Nodes : WellFormed(config[n])
  BY <1>1 DEF Init, WellFormed
<1>3. client \in [Clients -> ClientState]
  BY TimesAssumption DEF Init, Unbound, ClientState
<1>4. faulty \in BOOLEAN /\ stops \in 0 .. MaxStops
  BY SwarmAssumption DEF Init
<1>5. need \in [Nodes -> BOOLEAN] /\ learning \in [Nodes -> BOOLEAN]
  BY DEF Init
<1>6. mcast \in [Nodes -> Seq(McastPacket)] /\ server \in [Nodes -> Seq(DirectPacket)]
  BY DEF Init
<1> QED
  BY <1>2, <1>3, <1>4, <1>5, <1>6 DEF Init, Inv, TypeOK

\* Inv holds in every state of every behaviour.
THEOREM Invariance == Spec => []Inv
  BY InitInv, NextInv, PTL DEF Spec

\* All variables keep their types; in particular no claim is counted more
\* than three times (block_claim) and no handler damages a table.
THEOREM TypeCorrectness == Spec => []TypeOK
<1>1. Inv => TypeOK
  BY DEF Inv
<1> QED
  BY <1>1, Invariance, PTL

\* In every daemon of every swarm, blocks of ours have a lease array, and
\* free blocks and blocks being claimed have none.
THEOREM Allocation == Spec => []AllocationDiscipline
<1>1. Inv => AllocationDiscipline
  BY DEF Inv, WellFormed, TableOK, AllocationDiscipline
<1> QED
  BY <1>1, Invariance, PTL

\* The claim list of every daemon loses no claim under way, holds no block of
\* ours, and is counted right.
THEOREM ClaimBookkeeping == Spec => []ClaimListConsistent
<1>1. Inv => ClaimListConsistent
  BY DEF Inv, WellFormed, ClaimListConsistent
<1> QED
  BY <1>1, Invariance, PTL

\* Whatever the tables of a swarm have gone through, a packet of a client
\* never makes a daemon use a NULL lease array: every handler that reads or
\* writes one (dhcp_hdl_discover, dhcp_hdl_request, dhcp_hdl_release, dhcp_ack)
\* keeps to blocks of ours or allocates it first.  Only the answer of another
\* node can end a daemon.
THEOREM ClientSafety == Spec => []ClientHandlersSafe
<1>1. Inv => ClientHandlersSafe
  <2> SUFFICES ASSUME Inv, NEW n \in Nodes, NEW p \in ClientPackets(n),
                      NEW o \in ClientOutcomes(n, p)
               PROVE  ~ o.segv
    BY DEF ClientHandlersSafe, MayCrash, DHCP, SERVER
  <2>1. p \in DhcpPacket
    BY DEF ClientPackets
  <2>2. config[n] \in Config /\ TableOK(config[n].blocks)
    BY DEF Inv, WellFormed
  <2> QED
    BY <2>1, <2>2, ProcessOK DEF ClientOutcomes
<1> QED
  BY <1>1, Invariance, PTL

-----------------------------------------------------------------------------
(* Rounds of claiming *)

Live(c) == InState(c, "CLAIMING")

\* What a round of claiming does to one claim, and to a daemon's possession.
ClaimStep(c, d, b, sent) ==
  \/ Announced(d)[b] = -1 /\ b \notin Live(d)
  \/ Announced(c)[b] # 3 /\ Announced(d)[b] = sent /\ b \in Live(d)
  \/ /\ Announced(c)[b] \in 0 .. 2
     /\ b \in Live(c) \cap Live(d)
     /\ Announced(d)[b] = Announced(c)[b] + sent

Done(c) == {b \in Blocks : Announced(c)[b] = 3}

Round(c, d) ==
  /\ Done(c) \subseteq Owned(d)
  /\ Owned(d) \subseteq Owned(c) \cup Done(c)
  /\ \E sent \in {0, 1} : \A b \in Blocks : ClaimStep(c, d, b, sent)

-----------------------------------------------------------------------------
(* One daemon *)

\* A quiet step gains nothing and announces nothing.
LEMMA QuietLoses ==
  ASSUME NEW c, NEW d, Quiet(c, d)
  PROVE  /\ Owned(d) \subseteq Owned(c)
         /\ Live(d) \subseteq Live(c)
         /\ Announced(d) = Announced(c)
  BY DEF Quiet, Tamer, Owned, Live, InState, Announced

\* The claims of a daemon in numbers.
LEMMA AnnouncedValues ==
  ASSUME NEW c, WellFormed(c), NEW b \in Blocks
  PROVE  /\ b \in c.claiming_blocks => /\ Announced(c)[b] = c.blocks[b].claiming_counts
                                       /\ Announced(c)[b] \in 0 .. 3
         /\ b \notin c.claiming_blocks => Announced(c)[b] = -1
  BY DEF WellFormed, TableOK, Block, Announced

\* The first loop of block_claim owns the claims that are done and no others,
\* and keeps those that are under way.
LEMMA FinishRound ==
  ASSUME NEW c, WellFormed(c)
  PROVE  LET r == FinishClaims(c)
         IN /\ Owned(r) = Owned(c) \cup Done(c)
            /\ r.claiming_blocks \subseteq c.claiming_blocks
            /\ \A b \in r.claiming_blocks : r.blocks[b] = c.blocks[b]
<1> DEFINE r == FinishClaims(c)
           D == ClaimsDone(c)
           bs == [b \in Blocks |-> IF b \in D THEN block_own(c.blocks[b]) ELSE c.blocks[b]]
           left == c.claiming_blocks \ (D \cup ClaimsLost(c))
<1>1. c \in Config /\ c.claiming_blocks \in SUBSET Blocks /\ c.blocks \in [Blocks -> Block]
  BY DEF WellFormed, Config
<1>2. D = Done(c)
  BY <1>1, AnnouncedValues DEF ClaimsDone, Done
<1>3. r.blocks = bs /\ r.claiming_blocks = left
  BY <1>1 DEF FinishClaims, Config
<1> HIDE DEF r, D
<1>4. \A b \in Blocks : /\ b \in D => bs[b].state = "OURS"
                        /\ b \notin D => bs[b] = c.blocks[b]
  BY <1>1, OwnBlock
<1>5. Owned(r) = Owned(c) \cup D
  BY <1>1, <1>2, <1>3, <1>4 DEF Owned, InState, Done
<1>6. left \subseteq c.claiming_blocks /\ left \cap D = {}
  OBVIOUS
<1>7. \A b \in left : bs[b] = c.blocks[b]
  BY <1>1, <1>4, <1>6
<1> QED
  BY <1>2, <1>3, <1>5, <1>6, <1>7 DEF r

\* The second half starts claims of free blocks.
LEMMA StartRound ==
  ASSUME NEW c, WellFormed(c), NEW new \in SUBSET InState(c, "FREE")
  PROVE  LET r == StartClaims(c, new)
         IN /\ Owned(r) = Owned(c)
            /\ r.claiming_blocks = c.claiming_blocks \cup new
            /\ \A b \in new : r.blocks[b].claiming_counts = 0
            /\ \A b \in Blocks \ new : r.blocks[b] = c.blocks[b]
<1> DEFINE r == StartClaims(c, new)
           bs == [b \in Blocks |-> IF b \in new THEN StartClaim(c.blocks[b])
                                                ELSE c.blocks[b]]
<1>1. c \in Config /\ TableOK(c.blocks) /\ new \in SUBSET Blocks
  BY DEF WellFormed, InState
<1>2. r.blocks = bs /\ r.claiming_blocks = c.claiming_blocks \cup new
  BY <1>1 DEF StartClaims, Config
<1> HIDE DEF r
<1>3. \A b \in new : bs[b].state = "CLAIMING" /\ bs[b].claiming_counts = 0
  <2> SUFFICES ASSUME NEW b \in new
               PROVE  bs[b].state = "CLAIMING" /\ bs[b].claiming_counts = 0
    OBVIOUS
  <2>1. c.blocks[b] \in Block /\ Allocated(c.blocks[b]) /\ c.blocks[b].state = "FREE"
    BY <1>1 DEF TableOK, InState
  <2> QED
    BY <1>1, <2>1, StartClaimBlock
<1>4. \A b \in Blocks \ new : bs[b] = c.blocks[b]
  OBVIOUS
<1> HIDE DEF bs
<1>5. Owned(r) = Owned(c)
  BY <1>1, <1>2, <1>3, <1>4 DEF Owned, InState
<1> QED
  BY <1>2, <1>3, <1>4, <1>5 DEF r

\* An announcement counts for the claims on the list, or fails.
LEMMA InquireRound ==
  ASSUME NEW c, WellFormed(c), UnderWay(c), NEW n, NEW ok, NEW o \in Inquire(n, c, ok)
  PROVE  /\ o.config.claiming_blocks = c.claiming_blocks
         /\ \A b \in Blocks : o.config.blocks[b].state = c.blocks[b].state
         /\ \E sent \in {0, 1} : \A b \in c.claiming_blocks :
              o.config.blocks[b].claiming_counts = c.blocks[b].claiming_counts + sent
<1>0. c.claiming_blocks \in SUBSET Blocks
  BY DEF WellFormed, Config
<1>1. o.config = c \/ o.config = CountClaims(c)
  BY DEF Inquire, Outcome
<1>2. CASE o.config = c
  <2>1. \A b \in c.claiming_blocks :
          o.config.blocks[b].claiming_counts = c.blocks[b].claiming_counts + 0
    BY <1>0, <1>2 DEF WellFormed, TableOK, Block
  <2> QED
    BY <1>2, <2>1
<1>3. CASE o.config = CountClaims(c)
  <2>1. \A b \in c.claiming_blocks :
          o.config.blocks[b].claiming_counts = c.blocks[b].claiming_counts + 1
    BY <1>0, <1>3, CountClaimsOK
  <2> QED
    BY <1>3, <2>1, CountClaimsOK
<1> QED
  BY <1>1, <1>2, <1>3

\* block_claim is a round of claiming.
LEMMA ClaimRoundOK ==
  ASSUME NEW c, WellFormed(c), NEW n \in Nodes, NEW num, NEW ok,
         NEW o \in block_claim(n, num, c, ok)
  PROVE  Round(c, o.config)
<1> DEFINE rest == FinishClaims(c)
           want == BlocksToFind(num - Cardinality(ClaimsDone(c)), rest)
           d == o.config
<1>1. PICK new \in block_find_free(want, rest) : o \in Inquire(n, StartClaims(rest, new), ok)
  BY DEF block_claim
<1>2. new \in SUBSET InState(rest, "FREE") /\ new \in SUBSET Blocks
  BY DEF block_find_free, InState
<1>3. WellFormed(rest) /\ UnderWay(rest)
  BY FinishClaimsOK
<1>4. /\ Owned(rest) = Owned(c) \cup Done(c)
      /\ rest.claiming_blocks \subseteq c.claiming_blocks
      /\ \A b \in rest.claiming_blocks : rest.blocks[b] = c.blocks[b]
  BY FinishRound
<1> DEFINE s == StartClaims(rest, new)
<1> HIDE DEF rest
<1>5. WellFormed(s) /\ UnderWay(s)
  BY <1>2, <1>3, StartClaimsOK
<1>6. /\ Owned(s) = Owned(rest)
      /\ s.claiming_blocks = rest.claiming_blocks \cup new
      /\ \A b \in new : s.blocks[b].claiming_counts = 0
      /\ \A b \in Blocks \ new : s.blocks[b] = rest.blocks[b]
  BY <1>2, <1>3, StartRound
<1>7. o \in Inquire(n, s, ok)
  BY <1>1
<1>8. WellFormed(d)
  BY ClaimOK
<1> HIDE DEF s, d
<1>9. PICK sent \in {0, 1} : \A b \in s.claiming_blocks :
        d.blocks[b].claiming_counts = s.blocks[b].claiming_counts + sent
  BY <1>5, <1>7, InquireRound DEF d
<1>10. /\ d.claiming_blocks = s.claiming_blocks
       /\ \A b \in Blocks : d.blocks[b].state = s.blocks[b].state
  BY <1>5, <1>7, InquireRound DEF d
<1>11. Owned(d) = Owned(c) \cup Done(c)
  BY <1>4, <1>6, <1>10 DEF Owned, InState
<1>12. ASSUME NEW b \in Blocks
       PROVE  ClaimStep(c, d, b, sent)
  <2>1. CASE b \notin d.claiming_blocks
    BY <1>8, <2>1, AnnouncedValues DEF ClaimStep, Live, WellFormed, ClaimsListed
  <2>2. CASE b \in d.claiming_blocks /\ b \in new
    <3>1. Announced(d)[b] = sent
      BY <1>6, <1>8, <1>9, <1>10, <2>2, AnnouncedValues
    <3>2. b \notin Owned(rest)
      BY <1>2, <2>2 DEF InState, Owned
    <3>3. Announced(c)[b] # 3
      BY <1>4, <3>2 DEF Done
    <3>4. b \in Live(d)
      BY <1>5, <1>10, <2>2 DEF Live, InState, UnderWay
    <3> QED
      BY <3>1, <3>3, <3>4 DEF ClaimStep
  <2>3. CASE b \in d.claiming_blocks /\ b \notin new
    <3>1. b \in rest.claiming_blocks /\ s.blocks[b] = rest.blocks[b]
      BY <1>6, <1>10, <2>3
    <3>2. rest.blocks[b] = c.blocks[b] /\ b \in c.claiming_blocks
      BY <1>4, <3>1
    <3>3. c.blocks[b].claiming_counts < 3 /\ c.blocks[b].state = "CLAIMING"
      BY <1>3, <3>1, <3>2 DEF UnderWay
    <3>4. Announced(c)[b] = c.blocks[b].claiming_counts /\ Announced(c)[b] \in 0 .. 2
      BY <3>2, <3>3, AnnouncedValues
    <3>5. Announced(d)[b] = Announced(c)[b] + sent
      BY <1>8, <1>9, <1>10, <2>3, <3>1, <3>2, <3>4, AnnouncedValues
    <3>6. b \in Live(c) \cap Live(d)
      BY <1>10, <3>1, <3>2, <3>3 DEF Live, InState
    <3> QED
      BY <3>4, <3>5, <3>6 DEF ClaimStep
  <2> QED
    BY <2>1, <2>2, <2>3
<1> QED
  BY <1>11, <1>12 DEF Round, d

\* A round is as good before a step that loses nothing.
LEMMA RoundAfter ==
  ASSUME NEW c, NEW d, NEW e, Quiet(c, d), Round(d, e)
  PROVE  Round(c, e)
<1>1. /\ Owned(d) \subseteq Owned(c)
      /\ Live(d) \subseteq Live(c)
      /\ Announced(d) = Announced(c)
  BY QuietLoses
<1>2. Done(d) = Done(c)
  BY <1>1 DEF Done
<1>3. PICK sent \in {0, 1} : \A b \in Blocks : ClaimStep(d, e, b, sent)
  BY DEF Round
<1>4. \A b \in Blocks : ClaimStep(c, e, b, sent)
  BY <1>1, <1>3 DEF ClaimStep
<1> QED
  BY <1>1, <1>2, <1>4 DEF Round

\* The first half of house_keeping is a round of claiming or gains nothing.
LEMMA CheckAndAdjustRound ==
  ASSUME NEW c, WellFormed(c), NEW n \in Nodes, NEW ok, NEW o \in CheckAndAdjust(n, c, ok)
  PROVE  Quiet(c, o.config) \/ Round(c, o.config)
<1> DEFINE checked == block_check_timeouts(c)
           kept == IF checked.needless_marks THEN block_unmark_needless(checked) ELSE checked
<1>1. Quiet(c, checked)
  BY CheckTimeoutsQuiet DEF WellFormed
<1>2. checked \in Config /\ TableOK(checked.blocks) /\ WellFormed(checked)
  BY <1>1, QuietTable, QuietWellFormed
<1>3. o \in AdjustBlocks(n, checked, ok)
  BY DEF CheckAndAdjust
<1> HIDE DEF checked
<1>4. Quiet(c, kept)
  BY <1>1, <1>2, UnmarkQuiet, QuietTransitive
<1>5. WellFormed(kept)
  BY <1>4, QuietWellFormed
<1> HIDE DEF kept
<1>6. \/ o \in {Outcome(d, << >>) : d \in block_drop_unused(checked)}
      \/ o \in block_claim(n, BlocksNeeded(checked), kept, ok)
      \/ o = Outcome(kept, << >>)
  BY <1>3 DEF AdjustBlocks, kept
<1>7. CASE o \in {Outcome(d, << >>) : d \in block_drop_unused(checked)}
  <2>1. PICK d \in block_drop_unused(checked) : o = Outcome(d, << >>)
    BY <1>7
  <2>2. Quiet(checked, o.config)
    BY <1>2, <2>1, DropQuiet DEF Outcome
  <2> QED
    BY <1>1, <2>2, QuietTransitive
<1>8. CASE o \in block_claim(n, BlocksNeeded(checked), kept, ok)
  BY <1>4, <1>5, <1>8, ClaimRoundOK, RoundAfter
<1>9. CASE o = Outcome(kept, << >>)
  BY <1>4, <1>9 DEF Outcome
<1> QED
  BY <1>6, <1>7, <1>8, <1>9

-----------------------------------------------------------------------------
(* The steps of the swarm as steps of Ownership *)

\* A table that has just been initialised holds no claim.
LEMMA NothingInitially ==
  ASSUME NEW marks
  PROVE  /\ Owned(ddhcp_block_init(marks)) = {}
         /\ Live(ddhcp_block_init(marks)) = {}
         /\ Announced(ddhcp_block_init(marks)) = Possession!NoClaims
  BY DEF ddhcp_block_init, InitialBlock, Owned, Live, InState, Announced,
         Possession!NoClaims, Possession!Idle

\* Daemons that make quiet steps, or none, only lose.
LEMMA QuietStep ==
  ASSUME Inv, \A n \in Nodes : Quiet(config[n], config'[n])
  PROVE  Possession!Lose
<1>1. \A n \in Nodes : /\ Owned(config'[n]) \subseteq Owned(config[n])
                       /\ Live(config'[n]) \subseteq Live(config[n])
                       /\ Announced(config'[n]) = Announced(config[n])
  BY QuietLoses
<1> QED
  BY <1>1 DEF Possession!Lose, Live

\* A daemon that makes a quiet step alone.
LEMMA OneQuietStep ==
  ASSUME Inv, NEW n \in Nodes, NEW c, Quiet(config[n], c),
         config' = [config EXCEPT ![n] = c]
  PROVE  Possession!Lose
<1>1. \A m \in Nodes : Quiet(config[m], config[m])
  BY NoChange DEF Inv, WellFormed
<1>2. \A m \in Nodes : Quiet(config[m], config'[m])
  BY <1>1 DEF Inv, TypeOK
<1> QED
  BY <1>2, QuietStep

\* A daemon that starts or is gone forgets everything.
LEMMA FreshStep ==
  ASSUME Inv, NEW n \in Nodes, NEW marks,
         config' = [config EXCEPT ![n] = ddhcp_block_init(marks)]
  PROVE  Possession!Forget(n)
<1> DEFINE c == ddhcp_block_init(marks)
<1>1. Owned(c) = {} /\ Live(c) = {} /\ Announced(c) = Possession!NoClaims
  BY NothingInitially
<1> HIDE DEF c
<1>2. config' = [config EXCEPT ![n] = c] /\ config \in [Nodes -> Config]
  BY DEF c, Inv, TypeOK
<1>3. config'[n] = c /\ \A m \in Nodes \ {n} : config'[m] = config[m]
  BY <1>2
<1>4. /\ Owned(config'[n]) = {} /\ Live(config'[n]) = {}
      /\ Announced(config'[n]) = Possession!NoClaims
  BY <1>1, <1>3
<1>5. \A m \in Nodes \ {n} : /\ Owned(config'[m]) = Owned(config[m])
                             /\ Live(config'[m]) = Live(config[m])
                             /\ Announced(config'[m]) = Announced(config[m])
  BY <1>3
<1> QED
  BY <1>4, <1>5 DEF Possession!Forget, Possession!OthersUnmoved, Live

\* A daemon that claims.
LEMMA RoundStep ==
  ASSUME Inv, NEW n \in Nodes, NEW c, Round(config[n], c),
         config' = [config EXCEPT ![n] = c]
  PROVE  Possession!ClaimRound(n)
<1>1. config \in [Nodes -> Config]
  BY DEF Inv, TypeOK
<1>2. config'[n] = c /\ \A m \in Nodes \ {n} : config'[m] = config[m]
  BY <1>1
<1>3. PICK sent \in {0, 1} : \A b \in Blocks : ClaimStep(config[n], c, b, sent)
  BY DEF Round
<1>4. \A b \in Blocks : Possession!ClaimInRound(n, b, sent)
  BY <1>2, <1>3 DEF ClaimStep, Possession!ClaimInRound, Possession!Idle,
                    Possession!Announcements, Live
<1>5. /\ Done(config[n]) \subseteq Owned(config'[n])
      /\ Owned(config'[n]) \subseteq Owned(config[n]) \cup Done(config[n])
  BY <1>2 DEF Round
<1> QED
  BY <1>2, <1>4, <1>5
     DEF Possession!ClaimRound, Possession!OthersUnmoved, Possession!Announcements, Done

\* The steps of one daemon.
LEMMA DaemonStep ==
  ASSUME Inv, NEW n \in Nodes, Boot(n) \/ Stop(n) \/ Daemon(n)
  PROVE  [Possession!Next]_(Possession!vars)
<1>0. WellFormed(config[n]) /\ config[n] \in Config /\ TableOK(config[n].blocks)
  BY DEF Inv, WellFormed
<1>1. CASE Boot(n)
  BY <1>1, FreshStep DEF Boot, Possession!Next
<1>2. CASE Stop(n) \/ NullDereference(n)
  BY <1>2, FreshStep DEF Stop, NullDereference, Vanish, Possession!Next
<1>3. CASE Wake(n) \/ NoHouseKeeping(n) \/ HandlerReturns(n)
  <2>1. config' = config
    BY <1>3 DEF Wake, NoHouseKeeping, HandlerReturns
  <2> QED
    BY <2>1 DEF Possession!vars
<1>4. CASE hdl_ddhcp_block(n)
  <2> DEFINE m == Head(mcast[n])
  <2>1. m \in McastPacket
    BY <1>4, HeadTailProperties DEF hdl_ddhcp_block, Inv, TypeOK
  <2>2. PICK b \in m.payload :
          \E o \in ddhcp_block_process(n, m, b, config[n], SendResults) :
            config' = [config EXCEPT ![n] = o.config]
    BY <1>4 DEF hdl_ddhcp_block
  <2>3. PICK o \in ddhcp_block_process(n, m, b, config[n], SendResults) :
          config' = [config EXCEPT ![n] = o.config]
    BY <2>2
  <2> HIDE DEF m
  <2>4. b \in Blocks
    BY <2>1 DEF McastPacket
  <2>5. Quiet(config[n], o.config)
    BY <1>0, <2>1, <2>4, EntryOK
  <2> QED
    BY <2>3, <2>5, OneQuietStep DEF Possession!Next
<1>5. CASE hdl_ddhcp_dhcp(n)
  <2>1. Head(server[n]) \in DirectPacket
    BY <1>5, HeadTailProperties DEF hdl_ddhcp_dhcp, Inv, TypeOK
  <2>2. PICK o \in DirectOutcomes(n) : config' = [config EXCEPT ![n] = o.config]
    BY <1>5 DEF hdl_ddhcp_dhcp
  <2>3. Quiet(config[n], o.config)
    BY <1>0, <2>1, DirectOK DEF DirectOutcomes, HandledOK, Steady
  <2> QED
    BY <2>2, <2>3, OneQuietStep DEF Possession!Next
<1>6. CASE hdl_dhcp(n)
  <2>1. PICK p \in ClientPackets(n) : \E o \in ClientOutcomes(n, p) :
          config' = [config EXCEPT ![n] = o.config]
    BY <1>6 DEF hdl_dhcp
  <2>2. PICK o \in ClientOutcomes(n, p) : config' = [config EXCEPT ![n] = o.config]
    BY <2>1
  <2>3. p \in DhcpPacket
    BY DEF ClientPackets
  <2>4. Quiet(config[n], o.config)
    BY <1>0, <2>3, ProcessOK DEF ClientOutcomes, HandledOK, Steady
  <2> QED
    BY <2>2, <2>4, OneQuietStep DEF Possession!Next
<1>7. CASE HouseKeeping(n)
  <2>1. PICK o \in CheckAndAdjust(n, config[n], SendResults) :
          config' = [config EXCEPT ![n] = o.config]
    BY <1>7 DEF HouseKeeping
  <2>2. Quiet(config[n], o.config) \/ Round(config[n], o.config)
    BY <1>0, CheckAndAdjustRound
  <2> QED
    BY <2>1, <2>2, OneQuietStep, RoundStep DEF Possession!Next
<1>8. CASE HouseKeepingEnds(n)
  <2>1. PICK o \in RefreshAndForget(n, config[n], SendResults) :
          config' = [config EXCEPT ![n] = o.config]
    BY <1>8 DEF HouseKeepingEnds
  <2>2. Quiet(config[n], o.config)
    BY <1>0, RefreshAndForgetOK
  <2> QED
    BY <2>1, <2>2, OneQuietStep DEF Possession!Next
<1> QED
  BY <1>1, <1>2, <1>3, <1>4, <1>5, <1>6, <1>7, <1>8 DEF Daemon

\* Every step of a swarm is a step of Ownership, or changes nothing it sees.
LEMMA SwarmStep == Inv /\ [Next]_vars => [Possession!Next]_(Possession!vars)
<1> SUFFICES ASSUME Inv, [Next]_vars PROVE [Possession!Next]_(Possession!vars)
  OBVIOUS
<1>1. CASE Tick
  <2>1. \A n \in Nodes : /\ Quiet(config[n], AgeConfig(config[n]))
                         /\ Quiet(config[n], config[n])
    BY AgeQuiet, NoChange DEF Inv, WellFormed
  <2>2. \A n \in Nodes : Quiet(config[n], config'[n])
    BY <1>1, <2>1 DEF Tick
  <2> QED
    BY <2>2, QuietStep DEF Possession!Next
<1>2. CASE Heal \/ UNCHANGED vars
  <2>1. config' = config
    BY <1>2 DEF Heal, vars, daemonVars
  <2> QED
    BY <2>1 DEF Possession!vars
<1> QED
  BY <1>1, <1>2, DaemonStep DEF Next

\* A swarm that has not started owns nothing.
LEMMA SwarmInit == Init => Possession!Init
<1> SUFFICES ASSUME Init PROVE Possession!Init
  OBVIOUS
<1>1. \A n \in Nodes : config[n] = ddhcp_block_init(FALSE)
  BY DEF Init
<1> QED
  BY <1>1, NothingInitially DEF Possession!Init, Live

\* Swarm implements Ownership, for every number of daemons and blocks and
\* every choice of timeouts: block_claim alone takes possession, and only of
\* blocks whose claim went out three times without being contested.
THEOREM Refinement == Spec => OwnershipEarned
  BY Invariance, SwarmInit, SwarmStep, PTL DEF Spec, OwnershipEarned, Possession!Spec
=============================================================================
