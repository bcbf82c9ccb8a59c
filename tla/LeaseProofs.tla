---------------------------- MODULE LeaseProofs -----------------------------
(***************************************************************************)
(* The timing of house keeping, and what a client may rely on.             *)
(*                                                                         *)
(* Freshness: house keeping comes around often enough to renew every claim *)
(* before it runs out, however events wake the loop in between, if the     *)
(* configured times leave room for it.                                     *)
(***************************************************************************)
EXTENDS SwarmProofs

\* How often the clock moves on at most before epoll_wait times out.
LongestLoop == (TentativeTimeout + 1) \div 2

\* The longest time between two house keepings: the timer has just been set,
\* and the loop was woken a second before it fires.
LongestWait ==
  IF HouseKeepingInterval = 0 THEN LongestLoop
  ELSE HouseKeepingInterval - 1 + LongestLoop

\* sendto works, and a claim that is not due for a refresh at one house
\* keeping lives until the next.
RefreshInTime == "sendfail" \notin Faults /\ LongestWait <= Baseline

\* How long it may take a daemon until its next house keeping.
Grace(n) == IF hk[n] = 0 THEN loop[n] ELSE hk[n] - 1 + LongestLoop

\* Claims of ours have at least this time left.
Lasting(c, least) == \A b \in Owned(c) : c.blocks[b].timeout >= least

\* The house keeping of this round, or the end of it, is still to come.
HouseKeepingAhead(n) == (pc[n] = "run" /\ need[n]) \/ pc[n] = "update"

\* The timers of a daemon, and claims of ours that outlive them.  What
\* block_claim has completed may be overdue until block_update_claims.
Fresh(n) ==
  /\ ~ Up(n) \/ learning[n] => Owned(config[n]) = {}
  /\ ~ learning[n] => hk[n] <= HouseKeepingInterval
  /\ loop[n] <= LongestLoop
  /\ pc[n] = "update" => ~ learning[n]
  /\ pc[n] # "update" => Lasting(config[n], 0)
  /\ ~ HouseKeepingAhead(n) => Lasting(config[n], Grace(n))

FreshInv == Inv /\ \A n \in Nodes : Fresh(n)

-----------------------------------------------------------------------------
(* Refreshing *)

\* The numbers the argument is about.
LEMMA TimesType ==
  /\ LongestLoop \in Nat
  /\ \A t \in get_loop_timeout : t \in Nat /\ t <= LongestLoop
  /\ HouseKeepingInterval \in Nat
  /\ LongestWait \in Nat
  /\ Baseline \in Int /\ Baseline <= BlockTimeout
  /\ BlockTimeout \in Nat
<1>1. /\ LongestLoop \in Nat /\ HouseKeepingInterval \in Nat
      /\ \A t \in get_loop_timeout : t \in Nat /\ t <= LongestLoop
  BY TimesAssumption DEF get_loop_timeout, HouseKeepingInterval, LongestLoop
<1>2. BlockTimeout \div RefreshFactor \in Nat /\ BlockTimeout \in Nat
  BY TimesAssumption
<1> HIDE DEF HouseKeepingInterval, LongestLoop, get_loop_timeout
<1>3. LongestWait \in Nat
  BY <1>1 DEF LongestWait
<1> QED
  BY <1>1, <1>2, <1>3 DEF Baseline

\* When every send succeeds, block_update_claims leaves no claim of ours with
\* less than the baseline, and shortens none.
LEMMA RefreshedClaims ==
  ASSUME NEW c \in Config, TableOK(c.blocks), NEW n,
         NEW o \in block_update_claims(n, c, {TRUE}), NEW b \in Owned(o.config)
  PROVE  /\ b \in Owned(c)
         /\ \/ o.config.blocks[b].timeout = BlockTimeout
            \/ /\ o.config.blocks[b].timeout = c.blocks[b].timeout
               /\ c.blocks[b].timeout >= Baseline
<1>1. PICK sent \in SUBSET PacketsDue(c) :
        sent = PacketsDue(c) /\ o \in UpdateClaims(n, c, sent)
  BY DEF block_update_claims
<1>2. o.config = Refresh(c, sent)
  BY <1>1 DEF UpdateClaims, Outcome
<1>3. b \in Blocks /\ c.blocks[b] \in Block
  BY DEF Owned, InState, TableOK
<1>4. o.config.blocks[b] = IF b \in Owned(c) /\ PacketOf(c, b) \in sent
                           THEN [c.blocks[b] EXCEPT !.timeout = BlockTimeout]
                           ELSE c.blocks[b]
  BY <1>2, <1>3 DEF Refresh, Config
<1>5. o.config.blocks[b].state = c.blocks[b].state
  BY <1>3, <1>4 DEF Block
<1>6. b \in Owned(c)
  BY <1>3, <1>5 DEF Owned, InState
<1>7. CASE PacketOf(c, b) \in sent
  <2>1. o.config.blocks[b] = [c.blocks[b] EXCEPT !.timeout = BlockTimeout]
    BY <1>4, <1>6, <1>7
  <2> QED
    BY <1>3, <1>6, <2>1 DEF Block
<1>8. CASE PacketOf(c, b) \notin sent
  <2>1. o.config.blocks[b] = c.blocks[b]
    BY <1>4, <1>8
  <2>2. ~ (c.blocks[b].timeout < Baseline)
    BY <1>1, <1>6, <1>8 DEF PacketsDue
  <2>3. c.blocks[b].timeout >= Baseline
    BY <1>3, <2>2, TimesType DEF Block, Time, Expired
  <2> QED
    BY <1>6, <2>1, <2>3
<1> QED
  BY <1>7, <1>8

\* After house keeping all claims of ours have the baseline left.
LEMMA HouseKeepingRefreshes ==
  ASSUME NEW c, WellFormed(c), NEW n \in Nodes, NEW o \in RefreshAndForget(n, c, {TRUE})
  PROVE  Lasting(o.config, Baseline)
<1>1. PICK u \in block_update_claims(n, c, {TRUE}) :
        o = Outcome(dhcp_packet_list_timeout(u.config), u.sent)
  BY DEF RefreshAndForget
<1>2. u.config \in Config /\ TableOK(u.config.blocks)
  BY UpdateClaimsQuiet, QuietTable DEF WellFormed
<1>3. o.config = dhcp_packet_list_timeout(u.config)
  BY <1>1 DEF Outcome
<1>4. Steady(u.config, o.config)
  BY <1>2, <1>3, CacheTimeoutSteady
<1> SUFFICES ASSUME NEW b \in Owned(o.config)
             PROVE  o.config.blocks[b].timeout >= Baseline
  BY DEF Lasting
<1>5. /\ b \in Owned(u.config)
      /\ o.config.blocks[b].timeout = u.config.blocks[b].timeout
  BY <1>4 DEF Steady, Same, Owned, InState
<1>6. \/ u.config.blocks[b].timeout = BlockTimeout
      \/ /\ u.config.blocks[b].timeout = c.blocks[b].timeout
         /\ c.blocks[b].timeout >= Baseline
  BY <1>5, RefreshedClaims DEF WellFormed
<1> QED
  BY <1>5, <1>6, TimesType

\* An entry of a multicast packet shortens no claim that stays ours: the one
\* that Reclaim lets expire is renewed in the same breath.
LEMMA EntryLasts ==
  ASSUME NEW c \in Config, TableOK(c.blocks), NEW n \in Nodes, NEW m \in McastPacket,
         NEW b \in Blocks, NEW o \in ddhcp_block_process(n, m, b, c, {TRUE}),
         Baseline >= 0, NEW x \in Owned(o.config)
  PROVE  /\ x \in Owned(c)
         /\ \/ o.config.blocks[x].timeout = c.blocks[x].timeout
            \/ o.config.blocks[x].timeout = BlockTimeout
<1> DEFINE claimed == [c EXCEPT !.blocks[b] = NoticeClaim(c.blocks[b], m.sender)]
           tentative == [c EXCEPT !.blocks[b] = NoticeInterest(c.blocks[b])]
           d == [c EXCEPT !.blocks[b].timeout = Expired]
<1>0. x \in Blocks /\ c.blocks \in [Blocks -> Block]
  BY DEF Owned, InState, TableOK
<1>1. \/ o \in Reclaim(n, b, c, {TRUE})
      \/ o = Outcome(claimed, << >>)
      \/ o = Outcome(tentative, << >>)
      \/ o = Outcome(c, << >>)
  BY DEF ddhcp_block_process, ddhcp_block_process_claims, ddhcp_block_process_inquire
<1>2. CASE o \in Reclaim(n, b, c, {TRUE})
  <2> DEFINE blk == [c.blocks[b] EXCEPT !.timeout = Expired]
  <2>1. Quiet(c, [c EXCEPT !.blocks[b] = blk])
    <3>1. Tamer(c.blocks[b], blk)
      BY TameTimeout DEF TableOK, Time
    <3> QED
      BY <3>1, TameBlock
  <2>2. d = [c EXCEPT !.blocks[b] = blk] /\ d.blocks = [c.blocks EXCEPT ![b] = blk]
    BY DEF Config
  <2>3. d \in Config /\ TableOK(d.blocks)
    BY <2>1, <2>2, QuietTable
  <2>4. /\ d.blocks[x].state = c.blocks[x].state
        /\ x # b => d.blocks[x].timeout = c.blocks[x].timeout
        /\ x = b => d.blocks[x].timeout = Expired
    BY <1>0, <2>2 DEF Block
  <2>5. o \in block_update_claims(n, d, {TRUE})
    BY <1>2 DEF Reclaim
  <2> HIDE DEF d
  <2>6. /\ x \in Owned(d)
        /\ \/ o.config.blocks[x].timeout = BlockTimeout
           \/ /\ o.config.blocks[x].timeout = d.blocks[x].timeout
              /\ d.blocks[x].timeout >= Baseline
    BY <2>3, <2>5, RefreshedClaims
  <2>7. x = b => ~ (d.blocks[x].timeout >= Baseline)
    BY <2>4, TimesType DEF Expired
  <2> QED
    BY <1>0, <2>4, <2>6, <2>7 DEF Owned, InState
<1>3. CASE o = Outcome(claimed, << >>)
  <2>1. o.config.blocks = [c.blocks EXCEPT ![b] = NoticeClaim(c.blocks[b], m.sender)]
    BY <1>3 DEF Outcome, Config
  <2>2. NoticeClaim(c.blocks[b], m.sender).state = "CLAIMED"
    BY <1>0 DEF NoticeClaim, Block
  <2> QED
    BY <1>0, <2>1, <2>2 DEF Owned, InState
<1>4. CASE o = Outcome(tentative, << >>)
  <2>1. o.config.blocks = [c.blocks EXCEPT ![b] = NoticeInterest(c.blocks[b])]
    BY <1>4 DEF Outcome, Config
  <2>2. NoticeInterest(c.blocks[b]).state = "TENTATIVE"
    BY <1>0 DEF NoticeInterest, Block
  <2> QED
    BY <1>0, <2>1, <2>2 DEF Owned, InState
<1>5. CASE o = Outcome(c, << >>)
  BY <1>5 DEF Outcome
<1> QED
  BY <1>1, <1>2, <1>3, <1>4, <1>5

-----------------------------------------------------------------------------
(* Fresh is inductive *)

\* A daemon that a step does not touch stays fresh.
LEMMA UntouchedFresh ==
  ASSUME NEW n, Fresh(n), config'[n] = config[n], pc'[n] = pc[n], need'[n] = need[n],
         learning'[n] = learning[n], hk'[n] = hk[n], loop'[n] = loop[n]
  PROVE  Fresh(n)'
  BY DEF Fresh, Up, Busy, HouseKeepingAhead, Lasting, Grace

\* What is left is at least what is asked for, and no less of it is enough.
LEMMA LastingLess ==
  ASSUME NEW c, WellFormed(c), NEW most \in Int, NEW least \in Int, least <= most,
         Lasting(c, most)
  PROVE  Lasting(c, least)
<1>1. \A b \in Owned(c) : c.blocks[b].timeout \in Int
  BY DEF Owned, InState, WellFormed, TableOK, Block, Time, Expired
<1> QED
  BY <1>1 DEF Lasting

\* Once it has learned, a daemon does not wait longer than LongestWait.
LEMMA GraceBound ==
  ASSUME Inv, NEW n \in Nodes, hk[n] <= HouseKeepingInterval, loop[n] <= LongestLoop
  PROVE  Grace(n) <= LongestWait /\ Grace(n) \in Nat
<1>1. hk[n] \in Nat /\ loop[n] \in Nat
  BY DEF Inv, TypeOK
<1> QED
  BY <1>1, TimesType DEF Grace, LongestWait

\* Without failures of sendto every send succeeds.
LEMMA SendsSucceed == ASSUME RefreshInTime PROVE SendResults = {TRUE} /\ Baseline >= 0
  BY TimesType DEF RefreshInTime, SendResults

\* Starting and stopping.
LEMMA NewFresh ==
  ASSUME FreshInv, NEW n \in Nodes, NEW marks,
         config' = [config EXCEPT ![n] = ddhcp_block_init(marks)],
         loop'[n] <= LongestLoop, pc'[n] # "update",
         ~ learning'[n] => hk'[n] <= HouseKeepingInterval
  PROVE  Fresh(n)'
<1>1. Owned(ddhcp_block_init(marks)) = {}
  BY DEF ddhcp_block_init, InitialBlock, Owned, InState
<1>2. config'[n] = ddhcp_block_init(marks)
  BY DEF FreshInv, Inv, TypeOK
<1>3. Owned(config'[n]) = {}
  BY <1>1, <1>2
<1> QED
  BY <1>3 DEF Fresh, Lasting

\* main starts with an empty table.
LEMMA BootFresh == ASSUME FreshInv, NEW n \in Nodes, Boot(n) PROVE Fresh(n)'
<1>1. PICK marks : config' = [config EXCEPT ![n] = ddhcp_block_init(marks)]
  BY DEF Boot
<1>2. /\ loop'[n] <= LongestLoop /\ pc'[n] = "wait"
      /\ ~ learning'[n] => hk'[n] <= HouseKeepingInterval
  BY TimesType DEF Boot, FreshInv, Inv, TypeOK
<1> QED
  BY <1>1, <1>2, NewFresh

\* A daemon that is gone owns nothing.
LEMMA VanishFresh ==
  ASSUME FreshInv, NEW n \in Nodes, NEW how \in {"down", "segv"}, Vanish(n, how)
  PROVE  Fresh(n)'
<1>1. /\ loop'[n] <= LongestLoop /\ pc'[n] = how
      /\ ~ learning'[n] => hk'[n] <= HouseKeepingInterval
  BY TimesType DEF Vanish, FreshInv, Inv, TypeOK
<1> QED
  BY <1>1, NewFresh DEF Vanish

\* epoll_wait returns: either house keeping is due in this round, or the
\* timers leave as much time as before.
LEMMA WakeFresh == ASSUME FreshInv, NEW n \in Nodes, Wake(n) PROVE Fresh(n)'
<1>1. /\ Fresh(n) /\ Inv /\ WellFormed(config[n])
      /\ hk[n] \in Nat /\ loop[n] \in Nat /\ learning[n] \in BOOLEAN
  BY DEF FreshInv, Inv, TypeOK
<1>2. /\ config' = config
      /\ pc[n] = "wait" /\ pc'[n] = "run"
      /\ learning'[n] = (learning[n] /\ hk[n] # 0)
      /\ hk'[n] = IF hk[n] = 0 THEN HouseKeepingInterval ELSE hk[n]
      /\ loop'[n] \in get_loop_timeout
      /\ hk[n] = 0 => need'[n]
  BY DEF Wake, FreshInv, Inv, TypeOK
<1>3. /\ ~ Up(n)' \/ learning'[n] => Owned(config'[n]) = {}
      /\ ~ learning'[n] => hk'[n] <= HouseKeepingInterval
      /\ loop'[n] <= LongestLoop
      /\ pc'[n] # "update"
      /\ Lasting(config'[n], 0)
  BY <1>1, <1>2, TimesType DEF Fresh, Up, Busy
<1>4. ASSUME ~ HouseKeepingAhead(n)'
      PROVE  Lasting(config'[n], Grace(n)')
  <2>1. hk[n] # 0 /\ Grace(n)' = Grace(n)
    BY <1>1, <1>2, <1>4 DEF HouseKeepingAhead, Grace
  <2>2. Lasting(config[n], Grace(n))
    BY <1>1, <1>2 DEF Fresh, HouseKeepingAhead
  <2> QED
    BY <1>2, <2>1, <2>2
<1> QED
  BY <1>3, <1>4 DEF Fresh

\* A handler: no timer moves, and no claim that stays ours is shortened
\* below the longest wait.
LEMMA HandlerFresh ==
  ASSUME RefreshInTime, FreshInv, NEW n \in Nodes, NEW c, WellFormed(c),
         config' = [config EXCEPT ![n] = c],
         pc[n] = "run", UNCHANGED <<pc, need, learning, hk, loop>>,
         \A b \in Owned(c) : /\ b \in Owned(config[n])
                             /\ \/ c.blocks[b].timeout = config[n].blocks[b].timeout
                                \/ c.blocks[b].timeout = BlockTimeout
  PROVE  Fresh(n)'
<1>1. Fresh(n) /\ Inv /\ config'[n] = c
  BY DEF FreshInv, Inv, TypeOK
<1>2. Owned(c) \subseteq Owned(config[n])
  OBVIOUS
<1>3. Lasting(c, 0)
  BY <1>1, TimesType DEF Fresh, Lasting
<1>4. ASSUME ~ HouseKeepingAhead(n)
      PROVE  Lasting(c, Grace(n))
  <2> SUFFICES ASSUME NEW b \in Owned(c) PROVE c.blocks[b].timeout >= Grace(n)
    BY DEF Lasting
  <2>1. config[n].blocks[b].timeout >= Grace(n)
    BY <1>1, <1>4 DEF Fresh, Lasting
  <2>2. ~ learning[n]
    BY <1>1, <1>2 DEF Fresh
  <2>3. Grace(n) <= LongestWait /\ Grace(n) \in Nat
    BY <1>1, <2>2, GraceBound DEF Fresh
  <2>4. BlockTimeout >= Grace(n)
    BY <2>3, TimesType DEF RefreshInTime
  <2> QED
    BY <2>1, <2>4
<1>5. Grace(n)' = Grace(n) /\ HouseKeepingAhead(n)' = HouseKeepingAhead(n) /\ Up(n)' = Up(n)
  BY DEF Grace, HouseKeepingAhead, Up, Busy
<1> QED
  BY <1>1, <1>2, <1>3, <1>4, <1>5 DEF Fresh

\* A handler that returns changes neither claims nor timers.
LEMMA HandlerReturnsFresh ==
  ASSUME FreshInv, NEW n \in Nodes, HandlerReturns(n), NEW m \in Nodes PROVE Fresh(m)'
<1>1. UNCHANGED <<config, pc, need, learning, hk, loop>>
  BY DEF HandlerReturns
<1> QED
  BY <1>1, UntouchedFresh DEF FreshInv

\* The first half of house keeping moves no timer, and the second is to come.
LEMMA HouseKeepingFresh == ASSUME FreshInv, NEW n \in Nodes, HouseKeeping(n) PROVE Fresh(n)'
<1>1. Fresh(n) /\ Inv
  BY DEF FreshInv
<1>2. /\ ~ learning[n] /\ UNCHANGED <<learning, hk, loop>>
      /\ pc'[n] = "update"
  BY <1>1 DEF HouseKeeping, Inv, TypeOK
<1> QED
  BY <1>1, <1>2 DEF Fresh, HouseKeepingAhead, Up, Busy

\* The second half renews what would not last until the next house keeping.
LEMMA HouseKeepingEndsFresh ==
  ASSUME RefreshInTime, FreshInv, NEW n \in Nodes, HouseKeepingEnds(n) PROVE Fresh(n)'
<1>1. Fresh(n) /\ Inv /\ WellFormed(config[n])
  BY DEF FreshInv, Inv
<1>2. PICK o \in RefreshAndForget(n, config[n], {TRUE}) :
        config' = [config EXCEPT ![n] = o.config]
  BY SendsSucceed DEF HouseKeepingEnds
<1>3. config'[n] = o.config
  BY <1>1, <1>2 DEF Inv, TypeOK
<1>4. WellFormed(o.config) /\ Lasting(o.config, Baseline)
  BY <1>1, RefreshAndForgetOK, HouseKeepingRefreshes
<1>5. /\ pc[n] = "update" /\ UNCHANGED <<learning, hk, loop>>
      /\ pc'[n] = "wait"
  BY <1>1 DEF HouseKeepingEnds, BackToEpoll, Inv, TypeOK
<1>6. Grace(n) <= LongestWait /\ Grace(n) \in Nat /\ Grace(n)' = Grace(n)
  BY <1>1, <1>5, GraceBound DEF Fresh, Grace
<1>7. Lasting(config'[n], Grace(n)') /\ Lasting(config'[n], 0)
  BY <1>3, <1>4, <1>6, LastingLess, TimesType DEF RefreshInTime
<1>8. Up(n)' /\ ~ learning'[n]
  BY <1>1, <1>5 DEF Up, Fresh
<1> QED
  BY <1>1, <1>5, <1>7, <1>8 DEF Fresh

\* A round that ends without house keeping had none ahead, or owns nothing.
LEMMA NoHouseKeepingFresh ==
  ASSUME FreshInv, NEW n \in Nodes, NoHouseKeeping(n) PROVE Fresh(n)'
<1>1. Fresh(n) /\ Inv
  BY DEF FreshInv
<1>2. /\ pc[n] = "run" /\ (~ need[n] \/ learning[n])
      /\ UNCHANGED <<config, learning, hk, loop>>
      /\ pc'[n] = "wait"
  BY <1>1 DEF NoHouseKeeping, RoundOver, BackToEpoll, Inv, TypeOK
<1>3. Lasting(config[n], Grace(n))
  BY <1>1, <1>2 DEF Fresh, HouseKeepingAhead, Lasting
<1> QED
  BY <1>1, <1>2, <1>3 DEF Fresh, Grace, Up

\* A second takes a second from every deadline and changes no state.
LEMMA AgedClaims ==
  ASSUME NEW c, WellFormed(c), NEW b \in Blocks
  PROVE  /\ AgeConfig(c).blocks[b].state = c.blocks[b].state
         /\ AgeConfig(c).blocks[b].timeout = Elapse(c.blocks[b].timeout)
<1>1. c \in Config /\ c.blocks[b] \in Block
  BY DEF WellFormed, TableOK
<1>2. AgeConfig(c).blocks[b] = AgeBlock(c.blocks[b])
  BY <1>1 DEF AgeConfig, Config
<1> QED
  BY <1>1, <1>2 DEF AgeBlock, Block

\* The clock takes as much from the claims as from the timers.
LEMMA TickFresh == ASSUME FreshInv, Tick, NEW n \in Nodes PROVE Fresh(n)'
<1>1. /\ Fresh(n) /\ Inv /\ WellFormed(config[n])
      /\ hk[n] \in Nat /\ loop[n] \in Nat
  BY DEF FreshInv, Inv, TypeOK
<1>2. /\ ~ Busy(n) /\ (pc[n] = "wait" => loop[n] > 0)
      /\ config'[n] = IF Up(n) THEN AgeConfig(config[n]) ELSE config[n]
      /\ hk'[n] = IF hk[n] > 0 THEN hk[n] - 1 ELSE 0
      /\ loop'[n] = IF loop[n] > 0 THEN loop[n] - 1 ELSE 0
      /\ UNCHANGED <<pc, need, learning>>
  BY DEF Tick
<1>3. Up(n)' = Up(n) /\ pc'[n] # "update"
  BY <1>2 DEF Up, Busy
<1>4. /\ ~ learning'[n] => hk'[n] <= HouseKeepingInterval
      /\ loop'[n] <= LongestLoop
  BY <1>1, <1>2, TimesType DEF Fresh
<1>5. Owned(config'[n]) = Owned(config[n])
  BY <1>1, <1>2, AgedClaims DEF Owned, InState
<1>6. CASE Up(n)
  <2>1. loop[n] > 0 /\ ~ HouseKeepingAhead(n)
    BY <1>2, <1>6 DEF Up, Busy, HouseKeepingAhead
  <2>3. Grace(n) \in Nat /\ Grace(n) > 0 /\ Grace(n)' \in Nat /\ Grace(n)' <= Grace(n) - 1
    BY <1>1, <1>2, <2>1, TimesType DEF Grace, Fresh
  <2>4. ASSUME NEW b \in Owned(config[n])
        PROVE  config'[n].blocks[b].timeout >= Grace(n)'
    <3>1. config[n].blocks[b].timeout >= Grace(n)
      BY <1>1, <2>1 DEF Fresh, Lasting
    <3>2. b \in Blocks /\ config[n].blocks[b].timeout \in Int
      BY <1>1 DEF Owned, InState, WellFormed, TableOK, Block, Time, Expired
    <3>3. config'[n].blocks[b].timeout = Elapse(config[n].blocks[b].timeout)
      BY <1>1, <1>2, <1>6, <3>2, AgedClaims
    <3> QED
      BY <2>3, <3>1, <3>2, <3>3 DEF Elapse
  <2>5. Lasting(config'[n], Grace(n)')
    BY <1>5, <2>4 DEF Lasting
  <2>6. WellFormed(config'[n])
    BY <1>1, <1>2, <1>6, AgeQuiet, QuietWellFormed DEF WellFormed
  <2>7. Lasting(config'[n], 0)
    BY <2>3, <2>5, <2>6, LastingLess
  <2> QED
    BY <1>1, <1>2, <1>3, <1>4, <1>5, <2>5, <2>7 DEF Fresh
<1>7. CASE ~ Up(n)
  <2>1. Owned(config'[n]) = {}
    BY <1>1, <1>5, <1>7 DEF Fresh
  <2> QED
    BY <1>3, <1>4, <2>1 DEF Fresh, Lasting
<1> QED
  BY <1>6, <1>7

\* A step of one daemon keeps it fresh.
LEMMA DaemonFresh ==
  ASSUME RefreshInTime, FreshInv, NEW n \in Nodes, Boot(n) \/ Stop(n) \/ Daemon(n)
  PROVE  Fresh(n)'
<1>1. WellFormed(config[n]) /\ config[n] \in Config /\ TableOK(config[n].blocks) /\ Inv
  BY DEF FreshInv, Inv, WellFormed
<1>2. ASSUME NEW o, HandledOK(config[n], o), config' = [config EXCEPT ![n] = o.config],
             pc[n] = "run", UNCHANGED <<pc, need, learning, hk, loop>>
      PROVE  Fresh(n)'
  <2>1. \A b \in Owned(o.config) :
          /\ b \in Owned(config[n])
          /\ o.config.blocks[b].timeout = config[n].blocks[b].timeout
    BY <1>2 DEF HandledOK, Steady, Same, Owned, InState
  <2>2. WellFormed(o.config)
    BY <1>1, <1>2, QuietWellFormed DEF HandledOK, Steady
  <2> QED
    BY <1>2, <2>1, <2>2, HandlerFresh
<1>3. CASE hdl_ddhcp_block(n)
  <2> DEFINE m == Head(mcast[n])
  <2>1. m \in McastPacket
    BY <1>1, <1>3, HeadTailProperties DEF hdl_ddhcp_block, Inv, TypeOK
  <2>2. PICK b \in m.payload :
          \E o \in ddhcp_block_process(n, m, b, config[n], {TRUE}) :
            config' = [config EXCEPT ![n] = o.config]
    BY <1>3, SendsSucceed DEF hdl_ddhcp_block
  <2>3. PICK o \in ddhcp_block_process(n, m, b, config[n], {TRUE}) :
          config' = [config EXCEPT ![n] = o.config]
    BY <2>2
  <2> HIDE DEF m
  <2>4. b \in Blocks
    BY <2>1 DEF McastPacket
  <2>5. \A x \in Owned(o.config) :
          /\ x \in Owned(config[n])
          /\ \/ o.config.blocks[x].timeout = config[n].blocks[x].timeout
             \/ o.config.blocks[x].timeout = BlockTimeout
    BY <1>1, <2>1, <2>4, EntryLasts, SendsSucceed
  <2>6. WellFormed(o.config)
    BY <1>1, <2>1, <2>4, EntryOK, QuietWellFormed
  <2>7. pc[n] = "run" /\ UNCHANGED <<pc, need, learning, hk, loop>>
    BY <1>3 DEF hdl_ddhcp_block, Turn, MayRead
  <2> QED
    BY <2>3, <2>5, <2>6, <2>7, HandlerFresh
<1>4. CASE hdl_ddhcp_dhcp(n)
  <2>1. Head(server[n]) \in DirectPacket
    BY <1>1, <1>4, HeadTailProperties DEF hdl_ddhcp_dhcp, Inv, TypeOK
  <2>2. PICK o \in DirectOutcomes(n) : config' = [config EXCEPT ![n] = o.config]
    BY <1>4 DEF hdl_ddhcp_dhcp
  <2>3. HandledOK(config[n], o)
    BY <1>1, <2>1, DirectOK DEF DirectOutcomes
  <2>4. pc[n] = "run" /\ UNCHANGED <<pc, need, learning, hk, loop>>
    BY <1>4 DEF hdl_ddhcp_dhcp, Turn, MayRead
  <2> QED
    BY <1>2, <2>2, <2>3, <2>4
<1>5. CASE hdl_dhcp(n)
  <2>1. PICK p \in ClientPackets(n) : \E o \in ClientOutcomes(n, p) :
          config' = [config EXCEPT ![n] = o.config]
    BY <1>5 DEF hdl_dhcp
  <2>2. PICK o \in ClientOutcomes(n, p) : config' = [config EXCEPT ![n] = o.config]
    BY <2>1
  <2>3. p \in DhcpPacket
    BY DEF ClientPackets
  <2>4. HandledOK(config[n], o)
    BY <1>1, <2>3, ProcessOK DEF ClientOutcomes
  <2>5. pc[n] = "run" /\ UNCHANGED <<pc, need, learning, hk, loop>>
    BY <1>5 DEF hdl_dhcp, Turn, MayRead
  <2> QED
    BY <1>2, <2>2, <2>4, <2>5
<1>6. CASE Stop(n) \/ NullDereference(n)
  BY <1>6, VanishFresh DEF Stop, NullDereference
<1> QED
  BY <1>3, <1>4, <1>5, <1>6, BootFresh, WakeFresh, HandlerReturnsFresh, HouseKeepingFresh,
     HouseKeepingEndsFresh, NoHouseKeepingFresh DEF Daemon

\* It leaves the tables and timers of the others alone.
LEMMA OthersFresh ==
  ASSUME FreshInv, NEW n \in Nodes, Boot(n) \/ Stop(n) \/ Daemon(n), NEW m \in Nodes, m # n
  PROVE  Fresh(m)'
<1>1. /\ config \in [Nodes -> Config]
      /\ pc \in [Nodes -> {"down", "wait", "run", "update", "segv"}]
      /\ need \in [Nodes -> BOOLEAN] /\ learning \in [Nodes -> BOOLEAN]
      /\ hk \in [Nodes -> Nat] /\ loop \in [Nodes -> Nat]
  BY DEF FreshInv, Inv, TypeOK
<1> DEFINE Alone == /\ config'[m] = config[m] /\ pc'[m] = pc[m] /\ need'[m] = need[m]
                    /\ learning'[m] = learning[m] /\ hk'[m] = hk[m] /\ loop'[m] = loop[m]
<1> SUFFICES Alone
  BY UntouchedFresh DEF FreshInv
<1>2. CASE Boot(n)
  BY <1>1, <1>2 DEF Boot
<1>3. CASE Stop(n) \/ NullDereference(n)
  BY <1>1, <1>3 DEF Stop, NullDereference, Vanish
<1>4. CASE Wake(n)
  BY <1>1, <1>4 DEF Wake
<1>5. CASE hdl_ddhcp_block(n) \/ hdl_ddhcp_dhcp(n) \/ hdl_dhcp(n)
  BY <1>1, <1>5 DEF hdl_ddhcp_block, hdl_ddhcp_dhcp, hdl_dhcp
<1>6. CASE HouseKeeping(n) \/ HouseKeepingEnds(n) \/ NoHouseKeeping(n)
  BY <1>1, <1>6 DEF HouseKeeping, HouseKeepingEnds, NoHouseKeeping, BackToEpoll
<1>7. CASE HandlerReturns(n)
  BY <1>7 DEF HandlerReturns
<1> QED
  BY <1>2, <1>3, <1>4, <1>5, <1>6, <1>7 DEF Daemon

\* The invariant is inductive.
LEMMA NextFresh == ASSUME RefreshInTime PROVE FreshInv /\ [Next]_vars => FreshInv'
<1> SUFFICES ASSUME FreshInv, [Next]_vars PROVE FreshInv'
  OBVIOUS
<1>1. Inv'
  BY NextInv DEF FreshInv
<1>2. ASSUME NEW n \in Nodes, Boot(n) \/ Stop(n) \/ Daemon(n), NEW m \in Nodes
      PROVE  Fresh(m)'
  BY <1>2, DaemonFresh, OthersFresh
<1>3. CASE Heal \/ UNCHANGED vars
  <2>1. UNCHANGED <<config, pc, need, learning, hk, loop>>
    BY <1>3 DEF Heal, vars, daemonVars
  <2> QED
    BY <1>1, <2>1, UntouchedFresh DEF FreshInv
<1> QED
  BY <1>1, <1>2, <1>3, TickFresh DEF Next, FreshInv

\* Daemons that are not running own nothing.
LEMMA InitFresh == Init => FreshInv
<1> SUFFICES ASSUME Init, NEW n \in Nodes PROVE Fresh(n)
  BY InitInv DEF FreshInv
<1>1. /\ config[n] = ddhcp_block_init(FALSE)
      /\ hk[n] = 0 /\ loop[n] = 0 /\ learning[n] = FALSE /\ pc[n] = "down"
  BY DEF Init
<1>2. Owned(config[n]) = {}
  BY <1>1 DEF ddhcp_block_init, InitialBlock, Owned, InState
<1>3. /\ hk[n] <= HouseKeepingInterval
      /\ loop[n] <= LongestLoop
  BY <1>1, TimesType
<1>4. \A least : Lasting(config[n], least)
  BY <1>2 DEF Lasting
<1> QED
  BY <1>1, <1>2, <1>3, <1>4, Zenon DEF Fresh

\* The invariant in every state.
LEMMA FreshAlways == ASSUME RefreshInTime PROVE Spec => []FreshInv
  BY InitFresh, NextFresh, PTL DEF Spec

\* If sendto works and the times leave room for it (15, 60 and 4, the defaults
\* of main.c, do), no daemon of any swarm ever lets a claim of its own run
\* out, however packets, clients and other events wake its loop: the timer
\* only fires when epoll_wait returns, and block_update_claims only renews
\* what is due.
THEOREM Freshness == ASSUME RefreshInTime PROVE Spec => []OwnedStaysFresh
<1>1. FreshInv => OwnedStaysFresh
  BY DEF FreshInv, Fresh, Lasting, OwnedStaysFresh
<1> QED
  BY <1>1, FreshAlways, PTL

-----------------------------------------------------------------------------
(* One server: what house keeping leaves alone *)

\* A lease some client counts on.
InUse(lease) == lease.state = "LEASED" /\ lease.lease_end >= 0

\* A block of ours that is fresh keeps its leases in use, and no block becomes
\* another node's.
Keeps(old, new) ==
  /\ new.state = "CLAIMED" => old.state = "CLAIMED"
  /\ \A i \in LeaseIndices :
       old.state = "OURS" /\ old.timeout >= 0 /\ InUse(old.leases[i])
         => new.state = "OURS" /\ new.timeout >= 0 /\ new.leases[i] = old.leases[i]

KeepsLeases(c, d) == \A b \in Blocks : Keeps(c.blocks[b], d.blocks[b])

\* Keeping leases composes.
LEMMA KeepsTransitive ==
  ASSUME NEW c, NEW d, NEW e, KeepsLeases(c, d), KeepsLeases(d, e)
  PROVE  KeepsLeases(c, e)
<1> SUFFICES ASSUME NEW b \in Blocks PROVE Keeps(c.blocks[b], e.blocks[b])
  BY DEF KeepsLeases
<1>1. Keeps(c.blocks[b], d.blocks[b]) /\ Keeps(d.blocks[b], e.blocks[b])
  BY DEF KeepsLeases
<1> QED
  BY <1>1 DEF Keeps, InUse

\* block_check_timeouts frees no fresh block of ours and expires no lease in
\* use.
LEMMA TimeoutKeeps ==
  ASSUME NEW blk \in Block
  PROVE  Keeps(blk, CheckBlockTimeout(blk))
<1> DEFINE timed == IF blk.timeout < 0 /\ blk.state # "FREE"
                    THEN block_free(blk) ELSE blk
           aged == IF timed.state = "OURS" \/ timed.alloc
                   THEN dhcp_check_timeouts(timed) ELSE timed
           last == IF aged.state # "OURS" /\ aged.alloc /\ dhcp_num_free(aged) = BlockSize
                   THEN block_free(aged) ELSE aged
<1>0. CheckBlockTimeout(blk) = last
  BY DEF CheckBlockTimeout
<1>1. timed \in Block /\ (timed.state = blk.state \/ timed.state = "FREE")
  BY FreeBlock
<1>2. blk.timeout \in Int
  BY DEF Block, Time, Expired
<1>3. blk.state = "OURS" /\ blk.timeout >= 0 => timed = blk
  BY <1>2
<1> HIDE DEF timed
<1>4. aged \in Block /\ aged.state = timed.state /\ aged.timeout = timed.timeout
  BY <1>1, ExpireLeases
<1>5. ASSUME NEW i \in LeaseIndices, InUse(timed.leases[i])
      PROVE  aged.leases[i] = timed.leases[i]
  <2>1. timed.leases[i] \in Lease
    BY <1>1 DEF Block
  <2>2. ~ LeaseExpired(timed.leases[i])
    BY <1>5, <2>1 DEF LeaseExpired, InUse, Lease, Time, Expired
  <2>3. dhcp_check_timeouts(timed).leases[i] = timed.leases[i]
    BY <1>1, <2>2 DEF dhcp_check_timeouts, Block
  <2> QED
    BY <2>3
<1> HIDE DEF aged
<1>6. last.state = aged.state \/ last.state = "FREE"
  BY <1>4, FreeBlock
<1>7. aged.state = "OURS" => last = aged
  OBVIOUS
<1> HIDE DEF last
<1>8. last.state = "CLAIMED" => blk.state = "CLAIMED"
  BY <1>1, <1>4, <1>6
<1>9. ASSUME NEW i \in LeaseIndices, blk.state = "OURS", blk.timeout >= 0, InUse(blk.leases[i])
      PROVE  last.state = "OURS" /\ last.timeout >= 0 /\ last.leases[i] = blk.leases[i]
  BY <1>3, <1>4, <1>5, <1>7, <1>9
<1>10. Keeps(blk, last)
  BY <1>8, <1>9 DEF Keeps
<1> QED
  BY <1>0, <1>10

\* The same for the whole table.
LEMMA CheckTimeoutsKeeps ==
  ASSUME NEW c \in Config, TableOK(c.blocks)
  PROVE  KeepsLeases(c, block_check_timeouts(c))
<1>1. \A b \in Blocks : block_check_timeouts(c).blocks[b] = CheckBlockTimeout(c.blocks[b])
  BY DEF block_check_timeouts, Config
<1> QED
  BY <1>1, TimeoutKeeps DEF KeepsLeases, TableOK

\* Taking back needless marks keeps leases.
LEMMA UnmarkKeeps ==
  ASSUME NEW c \in Config, TableOK(c.blocks)
  PROVE  KeepsLeases(c, block_unmark_needless(c))
<1>1. \A b \in Blocks : block_unmark_needless(c).blocks[b]
                          = [c.blocks[b] EXCEPT !.needless_since = NotMarked]
  BY DEF block_unmark_needless, Config
<1>2. ASSUME NEW blk \in Block
      PROVE  Keeps(blk, [blk EXCEPT !.needless_since = NotMarked])
  BY DEF Keeps, Block
<1> QED
  BY <1>1, <1>2 DEF KeepsLeases, TableOK

\* Indices of leases are finitely many, BlockSize of them.
LEMMA LeasesFinite == IsFiniteSet(LeaseIndices) /\ Cardinality(LeaseIndices) = BlockSize
<1>1. BlockSize - 1 \in Int /\ 0 \in Int /\ BlockSize >= 1 /\ BlockSize \in Nat
  BY SizesAssumption
<1>2. /\ IsFiniteSet(0 .. BlockSize - 1)
      /\ Cardinality(0 .. BlockSize - 1) =
           IF 0 > BlockSize - 1 THEN 0 ELSE (BlockSize - 1) - 0 + 1
  BY <1>1, FS_Interval
<1> QED
  BY <1>1, <1>2 DEF LeaseIndices

\* A block with a lease in use is no candidate for being dropped: its free
\* leases are fewer than its leases.
LEMMA InUseNotFree ==
  ASSUME NEW blk \in Block, NEW i \in LeaseIndices, InUse(blk.leases[i])
  PROVE  dhcp_num_free(blk) # BlockSize
<1> DEFINE F == dhcp_free_leases(blk)
<1>1. F \subseteq LeaseIndices \ {i}
  BY DEF dhcp_free_leases, InUse
<1>2. F \subseteq LeaseIndices /\ F # LeaseIndices
  BY <1>1
<1>3. Cardinality(F) < Cardinality(LeaseIndices)
  BY <1>2, LeasesFinite, FS_Subset, FS_CardinalityType
<1>4. Cardinality(F) \in Nat /\ BlockSize \in Nat
  BY <1>2, LeasesFinite, FS_Subset, FS_CardinalityType, SizesAssumption
<1> QED
  BY <1>3, <1>4, LeasesFinite DEF dhcp_num_free

\* block_drop_unused drops no block with a lease in use.
LEMMA DropKeeps ==
  ASSUME NEW c \in Config, TableOK(c.blocks), NEW d \in block_drop_unused(c)
  PROVE  KeepsLeases(c, d)
<1>1. CASE d = c
  BY <1>1 DEF KeepsLeases, Keeps
<1>2. ASSUME NEW b \in DropCandidates(c), d = DropOrMark(c, b)
      PROVE  KeepsLeases(c, d)
  <2>1. b \in Blocks /\ c.blocks[b] \in Block /\ dhcp_num_free(c.blocks[b]) = BlockSize
    BY DEF DropCandidates, Youngest, Owned, InState, TableOK
  <2>2. \A i \in LeaseIndices : ~ InUse(c.blocks[b].leases[i])
    BY <2>1, InUseNotFree
  <2>3. /\ \A x \in Blocks \ {b} : d.blocks[x] = c.blocks[x]
        /\ d.blocks[b].state # "CLAIMED" \/ d.blocks[b].state = c.blocks[b].state
    <3>1. block_free(c.blocks[b]).state = "FREE"
      BY <2>1, FreeBlock
    <3>2. [c.blocks[b] EXCEPT !.needless_since = 0].state = c.blocks[b].state
      BY <2>1 DEF Block
    <3>3. \/ d.blocks = [c.blocks EXCEPT ![b] = [c.blocks[b] EXCEPT !.needless_since = 0]]
          \/ d.blocks = [c.blocks EXCEPT ![b] = block_free(c.blocks[b])]
          \/ d = c
      BY <1>2, <2>1 DEF DropOrMark, Config
    <3>4. c.blocks \in [Blocks -> Block]
      BY DEF TableOK
    <3> QED
      BY <2>1, <3>1, <3>2, <3>3, <3>4
  <2> QED
    BY <2>1, <2>2, <2>3 DEF KeepsLeases, Keeps
<1> QED
  BY <1>1, <1>2 DEF block_drop_unused

\* block_claim touches no block of ours.
LEMMA ClaimKeeps ==
  ASSUME NEW c, WellFormed(c), NEW n \in Nodes, NEW num, NEW ok,
         NEW o \in block_claim(n, num, c, ok)
  PROVE  KeepsLeases(c, o.config)
<1> DEFINE rest == FinishClaims(c)
           want == BlocksToFind(num - Cardinality(ClaimsDone(c)), rest)
<1>1. PICK new \in block_find_free(want, rest) : o \in Inquire(n, StartClaims(rest, new), ok)
  BY DEF block_claim
<1>2. new \in SUBSET InState(rest, "FREE")
  BY DEF block_find_free
<1>3. WellFormed(rest) /\ UnderWay(rest)
  BY FinishClaimsOK
<1>4. KeepsLeases(c, rest)
  <2>1. /\ c \in Config /\ TableOK(c.blocks)
        /\ ClaimsDone(c) \subseteq c.claiming_blocks
        /\ Owned(c) \cap c.claiming_blocks = {}
    BY DEF WellFormed, ClaimsListed, ClaimsDone
  <2>2. \A b \in Blocks : rest.blocks[b] = IF b \in ClaimsDone(c)
                                           THEN block_own(c.blocks[b]) ELSE c.blocks[b]
    BY <2>1 DEF FinishClaims, Config
  <2>3. \A b \in Blocks : block_own(c.blocks[b]).state = "OURS"
    BY <2>1, OwnBlock DEF TableOK
  <2>4. \A b \in ClaimsDone(c) : b \in Blocks => c.blocks[b].state # "OURS"
    BY <2>1 DEF Owned, InState
  <2> HIDE DEF rest
  <2> QED
    BY <2>2, <2>3, <2>4 DEF KeepsLeases, Keeps
<1> DEFINE s == StartClaims(rest, new)
<1> HIDE DEF rest
<1>5. WellFormed(s) /\ UnderWay(s)
  BY <1>2, <1>3, StartClaimsOK
<1>6. KeepsLeases(rest, s)
  <2>1. rest \in Config /\ TableOK(rest.blocks)
    BY <1>3 DEF WellFormed
  <2>2. \A b \in Blocks : s.blocks[b] = IF b \in new THEN StartClaim(rest.blocks[b])
                                                     ELSE rest.blocks[b]
    BY <2>1 DEF StartClaims, Config
  <2>3. \A b \in new : rest.blocks[b].state = "FREE"
    BY <1>2 DEF InState
  <2>4. \A b \in Blocks : b \in new => StartClaim(rest.blocks[b]).state = "CLAIMING"
    BY <2>1, <2>3, StartClaimBlock DEF TableOK
  <2> HIDE DEF s
  <2> QED
    BY <2>2, <2>3, <2>4 DEF KeepsLeases, Keeps
<1>7. o.config = s \/ o.config = CountClaims(s)
  BY <1>1 DEF Inquire, Outcome
<1> HIDE DEF s
<1>8. KeepsLeases(s, CountClaims(s))
  <2>1. s \in Config /\ TableOK(s.blocks)
    BY <1>5 DEF WellFormed
  <2>2. \A b \in Blocks : CountClaims(s).blocks[b] = IF b \in s.claiming_blocks
                                                     THEN CountClaim(s.blocks[b])
                                                     ELSE s.blocks[b]
    BY <2>1 DEF CountClaims, Config
  <2>3. \A b \in s.claiming_blocks : s.blocks[b].state = "CLAIMING"
    BY <1>5 DEF UnderWay
  <2>4. \A b \in Blocks : CountClaim(s.blocks[b]).state = s.blocks[b].state
    BY <2>1 DEF CountClaim, TableOK, Block
  <2> QED
    BY <2>2, <2>3, <2>4 DEF KeepsLeases, Keeps
<1>9. KeepsLeases(s, s)
  BY DEF KeepsLeases, Keeps
<1> QED
  BY <1>4, <1>6, <1>7, <1>8, <1>9, KeepsTransitive

\* Renewing claims touches deadlines only.
LEMMA UpdateClaimsKeeps ==
  ASSUME NEW c \in Config, TableOK(c.blocks), NEW n, NEW ok,
         NEW o \in block_update_claims(n, c, ok)
  PROVE  KeepsLeases(c, o.config)
<1>1. PICK sent \in SUBSET PacketsDue(c) : o \in UpdateClaims(n, c, sent)
  BY DEF block_update_claims
<1>2. o.config = Refresh(c, sent)
  BY <1>1 DEF UpdateClaims, Outcome
<1>3. \A b \in Blocks : \/ o.config.blocks[b] = c.blocks[b]
                        \/ o.config.blocks[b] = [c.blocks[b] EXCEPT !.timeout = BlockTimeout]
  BY <1>2 DEF Refresh, Config
<1>4. ASSUME NEW blk \in Block
      PROVE  Keeps(blk, blk) /\ Keeps(blk, [blk EXCEPT !.timeout = BlockTimeout])
  BY TimesAssumption DEF Keeps, Block
<1> QED
  BY <1>3, <1>4 DEF KeepsLeases, TableOK

\* The first half of house keeping keeps every lease in use of a fresh block
\* of ours.
LEMMA HouseKeepingKeeps ==
  ASSUME NEW c, WellFormed(c), NEW n \in Nodes, NEW ok, NEW o \in CheckAndAdjust(n, c, ok)
  PROVE  KeepsLeases(c, o.config)
<1> DEFINE checked == block_check_timeouts(c)
           kept == IF checked.needless_marks THEN block_unmark_needless(checked) ELSE checked
<1>1. WellFormed(checked) /\ KeepsLeases(c, checked)
  BY CheckTimeoutsQuiet, QuietWellFormed, CheckTimeoutsKeeps DEF WellFormed
<1>2. o \in AdjustBlocks(n, checked, ok)
  BY DEF CheckAndAdjust
<1> HIDE DEF checked
<1>3. checked \in Config /\ TableOK(checked.blocks)
  BY <1>1 DEF WellFormed
<1>4. WellFormed(kept) /\ KeepsLeases(checked, kept)
  BY <1>1, <1>3, UnmarkQuiet, QuietWellFormed, UnmarkKeeps DEF KeepsLeases, Keeps
<1> HIDE DEF kept
<1>5. \/ o \in {Outcome(d, << >>) : d \in block_drop_unused(checked)}
      \/ o \in block_claim(n, BlocksNeeded(checked), kept, ok)
      \/ o = Outcome(kept, << >>)
  BY <1>2 DEF AdjustBlocks, kept
<1>6. KeepsLeases(checked, o.config)
  <2>1. CASE o \in {Outcome(d, << >>) : d \in block_drop_unused(checked)}
    <3>1. PICK d \in block_drop_unused(checked) : o = Outcome(d, << >>)
      BY <2>1
    <3> QED
      BY <1>3, <3>1, DropKeeps DEF Outcome
  <2>2. CASE o \in block_claim(n, BlocksNeeded(checked), kept, ok)
    BY <1>4, <2>2, ClaimKeeps, KeepsTransitive
  <2>3. CASE o = Outcome(kept, << >>)
    BY <1>4, <2>3 DEF Outcome
  <2> QED
    BY <1>5, <2>1, <2>2, <2>3
<1> QED
  BY <1>1, <1>6, KeepsTransitive

\* The second half changes no state and no lease.
LEMMA RefreshKeeps ==
  ASSUME NEW c, WellFormed(c), NEW n \in Nodes, NEW ok, NEW o \in RefreshAndForget(n, c, ok),
         NEW b \in Blocks
  PROVE  /\ o.config.blocks[b].state = c.blocks[b].state
         /\ o.config.blocks[b].leases = c.blocks[b].leases
<1>1. c \in Config /\ c.blocks[b] \in Block
  BY DEF WellFormed, TableOK
<1>2. PICK u \in block_update_claims(n, c, ok) :
        o = Outcome(dhcp_packet_list_timeout(u.config), u.sent)
  BY DEF RefreshAndForget
<1>3. PICK sent \in SUBSET PacketsDue(c) : u \in UpdateClaims(n, c, sent)
  BY DEF block_update_claims
<1>4. u.config = Refresh(c, sent)
  BY <1>3 DEF UpdateClaims, Outcome
<1>5. \/ u.config.blocks[b] = c.blocks[b]
      \/ u.config.blocks[b] = [c.blocks[b] EXCEPT !.timeout = BlockTimeout]
  BY <1>1, <1>4 DEF Refresh, Config
<1>6. o.config.blocks = u.config.blocks
  <2>1. u.config \in Config
    BY <1>1, <1>2, UpdateClaimsQuiet, QuietTable DEF WellFormed
  <2> QED
    BY <1>2, <2>1 DEF Outcome, dhcp_packet_list_timeout, Config
<1> QED
  BY <1>1, <1>5, <1>6 DEF Block

-----------------------------------------------------------------------------
(* One server: what the handlers do for the clients *)

\* The address a client uses is recorded for it, for as long as it uses it.
Held(c, k, s) ==
  /\ s.address \in Addresses
  /\ BlockOf(c, s.address).state = "OURS"
  /\ LeaseAt(c, s.address).state = "LEASED"
  /\ LeaseAt(c, s.address).chaddr = k
  /\ LeaseAt(c, s.address).lease_end >= s.left

Served(c, clients) ==
  \A k \in Clients : clients[k] # Unbound => Held(c, k, clients[k])

\* Writing a lease changes that lease only.
LEMMA WriteLease ==
  ASSUME NEW c \in Config, TableOK(c.blocks), NEW a \in Addresses, NEW l, NEW x \in Addresses
  PROVE  LET d == [c EXCEPT !.blocks[a[1]].leases[a[2]] = l]
         IN /\ BlockOf(d, x).state = BlockOf(c, x).state
            /\ LeaseAt(d, x) = IF x = a THEN l ELSE LeaseAt(c, x)
<1> DEFINE d == [c EXCEPT !.blocks[a[1]].leases[a[2]] = l]
           old == c.blocks[a[1]]
           blk == [old EXCEPT !.leases[a[2]] = l]
<1>1. a[1] \in Blocks /\ a[2] \in LeaseIndices /\ x[1] \in Blocks /\ x[2] \in LeaseIndices
  BY AddressParts
<1>2. x = a <=> (x[1] = a[1] /\ x[2] = a[2])
  BY DEF Addresses
<1>3. c.blocks \in [Blocks -> Block] /\ old \in Block
  BY <1>1 DEF TableOK
<1>4. d.blocks = [c.blocks EXCEPT ![a[1]] = blk]
  BY <1>1 DEF Config
<1>5. blk.state = old.state /\ blk.leases = [old.leases EXCEPT ![a[2]] = l]
  BY <1>3 DEF Block
<1>6. old.leases \in [LeaseIndices -> Lease]
  BY <1>3 DEF Block
<1> HIDE DEF d, blk
<1>7. BlockOf(d, x).state = BlockOf(c, x).state
  BY <1>1, <1>3, <1>4, <1>5 DEF BlockOf
<1>8. LeaseAt(d, x) = IF x = a THEN l ELSE LeaseAt(c, x)
  <2>1. CASE x[1] = a[1]
    BY <1>1, <1>2, <1>3, <1>4, <1>5, <1>6, <2>1 DEF LeaseAt
  <2>2. CASE x[1] # a[1]
    BY <1>1, <1>2, <1>3, <1>4, <2>2 DEF LeaseAt
  <2> QED
    BY <2>1, <2>2
<1> QED
  BY <1>7, <1>8 DEF d

\* A client that stops using its address needs nothing.
LEMMA UnbindServed ==
  ASSUME NEW c, NEW clients \in [Clients -> ClientState], Served(c, clients), NEW k \in Clients
  PROVE  Served(c, [clients EXCEPT ![k] = Unbound])
  BY DEF Served

\* Writing a lease that no other client holds serves the others as before.
LEMMA WriteServed ==
  ASSUME NEW c \in Config, TableOK(c.blocks), NEW clients \in [Clients -> ClientState],
         NEW a \in Addresses, NEW l,
         \A k \in Clients : clients[k] # Unbound =>
            Held(c, k, clients[k]) /\ clients[k].address # a
  PROVE  Served([c EXCEPT !.blocks[a[1]].leases[a[2]] = l], clients)
<1> SUFFICES ASSUME NEW k \in Clients, clients[k] # Unbound
             PROVE  Held([c EXCEPT !.blocks[a[1]].leases[a[2]] = l], k, clients[k])
  BY DEF Served
<1> DEFINE d == [c EXCEPT !.blocks[a[1]].leases[a[2]] = l]
           x == clients[k].address
<1>1. Held(c, k, clients[k]) /\ x # a /\ x \in Addresses
  BY DEF Held
<1>2. BlockOf(d, x).state = BlockOf(c, x).state /\ LeaseAt(d, x) = LeaseAt(c, x)
  BY <1>1, WriteLease
<1> QED
  BY <1>1, <1>2 DEF Held

\* What a handler leaves the clients with, given what it started from.
Serves(o, clients) ==
  /\ Served(o.config, ClientsAfter(o.reply, clients))
  /\ o.direct = << >>

\* Silence, and a NAK.
LEMMA SilentServes ==
  ASSUME NEW c, NEW clients, Served(c, clients)
  PROVE  Serves(Silent(c), clients)
  BY DEF Serves, Silent, Handled, ClientsAfter, NoReply

\* A client that is refused stops using its address.
LEMMA NackServes ==
  ASSUME NEW c, NEW clients \in [Clients -> ClientState], Served(c, clients),
         NEW p \in DhcpPacket, NEW ok, NEW o \in dhcp_nack(p, c, ok)
  PROVE  Serves(o, clients)
<1>1. PICK r \in ok : o = Handled(c, ReplyIf(r, ReplyTo(p, "NAK", NoAddress)), << >>)
  BY DEF dhcp_nack
<1>2. \/ ClientsAfter(o.reply, clients) = clients
      \/ ClientsAfter(o.reply, clients) = [clients EXCEPT ![p.chaddr] = Unbound]
  BY <1>1 DEF Handled, ReplyIf, ReplyTo, NoReply, ClientsAfter
<1>3. p.chaddr \in Clients
  BY DEF DhcpPacket
<1> QED
  BY <1>1, <1>2, <1>3, UnbindServed DEF Serves, Handled

\* An ACK records the lease for the client and for long enough; nobody else
\* may hold it.
LEMMA AckServes ==
  ASSUME NEW c \in Config, TableOK(c.blocks), NEW clients \in [Clients -> ClientState],
         Served(c, clients), NEW p \in DhcpPacket, NEW a \in Addresses,
         BlockOf(c, a).state = "OURS",
         \A k \in Clients \ {p.chaddr} : clients[k] # Unbound => clients[k].address # a,
         NEW ok, NEW o \in dhcp_ack(p, a, c, ok)
  PROVE  Serves(o, clients)
<1> DEFINE l == [state |-> "LEASED", chaddr |-> p.chaddr, xid |-> p.xid, lease_end |-> LeaseEnd]
           d == [c EXCEPT !.blocks[a[1]].leases[a[2]] = l]
           j == p.chaddr
           bound == [address |-> a, left |-> LeaseTime]
<1>0. j \in Clients
  BY DEF DhcpPacket
<1>1. BlockOf(c, a).alloc
  BY AddressParts DEF BlockOf, TableOK, Allocated
<1>2. PICK r \in ok :
        o = Handled(SetLease(c, a, "LEASED", p, LeaseEnd), ReplyIf(r, ReplyTo(p, "ACK", a)), << >>)
  BY <1>1 DEF dhcp_ack, UsingLeases, BlockOf
<1>3. o.config = d /\ o.direct = << >>
  BY <1>2 DEF Handled, SetLease
<1>4. \/ ClientsAfter(o.reply, clients) = clients
      \/ ClientsAfter(o.reply, clients) = [clients EXCEPT ![j] = bound]
  <2>1. o.reply = NoReply \/ o.reply = ReplyTo(p, "ACK", a)
    BY <1>2 DEF Handled, ReplyIf
  <2>2. ClientsAfter(NoReply, clients) = clients
    BY DEF NoReply, ClientsAfter
  <2>3. ClientsAfter(ReplyTo(p, "ACK", a), clients) = [clients EXCEPT ![j] = bound]
    BY DEF ReplyTo, ClientsAfter
  <2> QED
    BY <2>1, <2>2, <2>3
<1> HIDE DEF l
<1>5. \A x \in Addresses : /\ BlockOf(d, x).state = BlockOf(c, x).state
                           /\ LeaseAt(d, x) = IF x = a THEN l ELSE LeaseAt(c, x)
  BY WriteLease
<1> HIDE DEF d
<1>6. ASSUME NEW k \in Clients \ {j}, clients[k] # Unbound
      PROVE  Held(d, k, clients[k])
  <2>1. Held(c, k, clients[k]) /\ clients[k].address # a
    BY <1>6 DEF Served
  <2> QED
    BY <1>5, <2>1 DEF Held
<1>7. ASSUME NEW s \in ClientState, s.address = a
      PROVE  Held(d, j, s)
  <2>1. LeaseEnd >= s.left
    BY TimesAssumption DEF ClientState, LeaseEnd
  <2>2. LeaseAt(d, a) = l /\ BlockOf(d, a).state = "OURS"
    BY <1>5
  <2> QED
    BY <1>7, <2>1, <2>2 DEF Held, l
<1>8. Held(d, j, bound)
  <2>1. bound \in ClientState
    BY TimesAssumption DEF ClientState
  <2> QED
    BY <1>7, <2>1
<1>9. clients[j] # Unbound => Held(d, j, clients[j])
  <2>1. CASE clients[j].address = a
    BY <1>0, <1>7, <2>1
  <2>2. CASE clients[j].address # a /\ clients[j] # Unbound
    <3>1. Held(c, j, clients[j])
      BY <1>0, <2>2 DEF Served
    <3> QED
      BY <1>5, <2>2, <3>1 DEF Held
  <2> QED
    BY <2>1, <2>2
<1> HIDE DEF bound
<1>10. Served(d, clients) /\ Served(d, [clients EXCEPT ![j] = bound])
  BY <1>0, <1>6, <1>8, <1>9 DEF Served
<1> QED
  BY <1>3, <1>4, <1>10 DEF Serves

\* An offer takes a free lease, which no client holds.
LEMMA DiscoverServes ==
  ASSUME NEW c \in Config, TableOK(c.blocks), NEW clients \in [Clients -> ClientState],
         Served(c, clients), NEW p \in DhcpPacket, NEW ok, NEW o \in dhcp_hdl_discover(p, c, ok)
  PROVE  Serves(o, clients)
<1>1. CASE o = Silent(c)
  BY <1>1, SilentServes
<1>2. CASE o \in UNION {{Offer(p, a, c, r) : r \in ok} : a \in OfferCandidates(c)}
  <2>1. PICK a \in OfferCandidates(c), r \in ok : o = Offer(p, a, c, r)
    BY <1>2
  <2> DEFINE l == [state |-> "OFFERED", chaddr |-> p.chaddr, xid |-> p.xid,
                   lease_end |-> OfferTimeout]
             d == [c EXCEPT !.blocks[a[1]].leases[a[2]] = l]
             e == [d EXCEPT !.blocks[a[1]].needless_since = NotMarked]
  <2>2. a \in Addresses /\ LeaseAt(c, a).state = "FREE"
    BY DEF OfferCandidates, dhcp_get_free_lease, dhcp_free_leases, BlockOf, LeaseAt
  <2>3. \A k \in Clients : clients[k] # Unbound =>
           Held(c, k, clients[k]) /\ clients[k].address # a
    BY <2>2 DEF Served, Held
  <2>4. o = Handled(e, ReplyTo(p, "OFFER", a), << >>) \/ o = Silent(d)
    BY <2>1 DEF Offer, SetLease
  <2>5. Steady(c, d)
    <3>1. l \in Lease
      BY LeaseEndType DEF Lease, LeaseStates, DhcpPacket
    <3> HIDE DEF l
    <3> QED
      BY <2>2, <3>1, AddressParts, LeaseSteady
  <2> HIDE DEF l
  <2>6. Served(d, clients)
    BY <2>2, <2>3, WriteServed
  <2>7. d \in Config /\ TableOK(d.blocks)
    BY <2>5, SteadyTable
  <2> HIDE DEF d
  <2>8. \A x \in Addresses : BlockOf(e, x).state = BlockOf(d, x).state
                             /\ LeaseAt(e, x) = LeaseAt(d, x)
    <3> SUFFICES ASSUME NEW x \in Addresses
                 PROVE  BlockOf(e, x).state = BlockOf(d, x).state
                        /\ LeaseAt(e, x) = LeaseAt(d, x)
      OBVIOUS
    <3>1. a[1] \in Blocks /\ x[1] \in Blocks /\ d.blocks \in [Blocks -> Block]
      BY <2>2, <2>7, AddressParts DEF TableOK
    <3>2. e.blocks = [d.blocks EXCEPT ![a[1]] =
                        [d.blocks[a[1]] EXCEPT !.needless_since = NotMarked]]
      BY <2>7, <3>1 DEF Config
    <3>3. /\ [d.blocks[a[1]] EXCEPT !.needless_since = NotMarked].state = d.blocks[a[1]].state
          /\ [d.blocks[a[1]] EXCEPT !.needless_since = NotMarked].leases = d.blocks[a[1]].leases
      BY <3>1 DEF Block
    <3> QED
      BY <3>1, <3>2, <3>3 DEF BlockOf, LeaseAt
  <2>9. Served(e, clients)
    BY <2>6, <2>8 DEF Served, Held
  <2> HIDE DEF e
  <2>10. CASE o = Silent(d)
    BY <2>6, <2>10, SilentServes
  <2>11. CASE o = Handled(e, ReplyTo(p, "OFFER", a), << >>)
    BY <2>9, <2>11 DEF Serves, Handled, ReplyTo, ClientsAfter
  <2> QED
    BY <2>4, <2>10, <2>11
<1>3. o \in IF block_find_free_leases(c) = {} THEN {Silent(c)}
            ELSE UNION {{Offer(p, a, c, r) : r \in ok} : a \in OfferCandidates(c)}
  BY OursAllocated DEF dhcp_hdl_discover
<1> QED
  BY <1>1, <1>2, <1>3

\* A request is only acknowledged for a lease that no other client holds.
LEMMA RequestServes ==
  ASSUME NEW c \in Config, TableOK(c.blocks), NEW clients \in [Clients -> ClientState],
         Served(c, clients), NEW n, NEW p \in DhcpPacket, NEW ok,
         \A b \in Blocks : c.blocks[b].state # "CLAIMED",
         NEW o \in dhcp_hdl_request(n, p, c, ok)
  PROVE  Serves(o, clients)
<1>1. CASE o \in dhcp_nack(p, c, ok)
  BY <1>1, NackServes
<1>2. CASE p.address = NoAddress
  <2>0. /\ Searched(p, c) \in SUBSET Owned(c)
        /\ o \in RequestByXid(p, c, ok)
    BY <1>2, NoAddressOutside DEF dhcp_hdl_request, Searched
  <2>1. CASE OfferedLeases(p, c) = {}
    BY <1>1, <2>0, <2>1, OursAllocated DEF RequestByXid
  <2>2. CASE OfferedLeases(p, c) # {}
    <3>1. o \in UNION {dhcp_ack(p, a, c, ok) : a \in FirstOf(OfferedLeases(p, c))}
      BY <2>0, <2>2, OursAllocated DEF RequestByXid
    <3>2. PICK a \in FirstOf(OfferedLeases(p, c)) : o \in dhcp_ack(p, a, c, ok)
      BY <3>1
    <3>3. a \in Addresses /\ BlockOf(c, a).state = "OURS" /\ LeaseAt(c, a).state = "OFFERED"
      BY DEF FirstOf, OfferedLeases
    <3>4. \A k \in Clients \ {p.chaddr} : clients[k] # Unbound => clients[k].address # a
      BY <3>3 DEF Served, Held
    <3> QED
      BY <3>2, <3>3, <3>4, AckServes
  <2> QED
    BY <2>1, <2>2
<1>3. CASE p.address \in Addresses /\ p.address # NoAddress
  <2>1. o \in RequestInRange(n, p, c, ok) /\ BlockOf(c, p.address).state # "CLAIMED"
    BY <1>3, AddressParts DEF dhcp_hdl_request, BlockOf
  <2>2. CASE BlockOf(c, p.address).state = "OURS"
    <3>0. o \in IF LeaseTaken(LeaseAt(c, p.address), p)
                THEN dhcp_nack(p, c, ok) ELSE dhcp_ack(p, p.address, c, ok)
      <4>1. {p.address[1]} \in SUBSET Owned(c)
        BY <1>3, <2>2, OursOwned
      <4> QED
        BY <2>1, <2>2, <4>1, OursAllocated DEF RequestInRange
    <3>1. CASE LeaseTaken(LeaseAt(c, p.address), p)
      BY <1>1, <3>0, <3>1
    <3>2. CASE ~ LeaseTaken(LeaseAt(c, p.address), p)
      <4>1. o \in dhcp_ack(p, p.address, c, ok)
        BY <3>0, <3>2
      <4>2. \A k \in Clients \ {p.chaddr} : clients[k] # Unbound => clients[k].address # p.address
        BY <3>2 DEF LeaseTaken, Served, Held
      <4> QED
        BY <1>3, <2>2, <4>1, <4>2, AckServes
    <3> QED
      BY <3>1, <3>2
  <2>3. CASE BlockOf(c, p.address).state # "OURS"
    <3>1. o \in dhcp_nack(p, c, ok) \/ o = Silent(c)
      BY <2>1, <2>3 DEF RequestInRange
    <3> QED
      BY <1>1, <3>1, SilentServes
  <2> QED
    BY <2>2, <2>3
<1>4. CASE p.address \notin Addresses /\ p.address # NoAddress
  BY <1>1, <1>4 DEF dhcp_hdl_request
<1> QED
  BY <1>2, <1>3, <1>4

\* The clients once the sender of a RELEASE has stopped using its address.
AfterRelease(p, clients) ==
  IF p.type = "RELEASE" /\ clients[p.chaddr].address = p.address
  THEN [clients EXCEPT ![p.chaddr] = Unbound] ELSE clients

\* A client releases no lease but the one it holds.
LEMMA ReleaseServes ==
  ASSUME NEW c \in Config, TableOK(c.blocks), NEW clients \in [Clients -> ClientState],
         Served(c, clients), NEW p \in DhcpPacket, p.type = "RELEASE",
         NEW o \in dhcp_hdl_release(p, c)
  PROVE  Serves(o, AfterRelease(p, clients))
<1> DEFINE a == p.address
           j == p.chaddr
           l == ReleaseLease(c.blocks[a[1]].leases[a[2]])
           after == AfterRelease(p, clients)
<1>1. j \in Clients /\ Unbound \in ClientState
  BY TimesAssumption DEF DhcpPacket, Unbound, ClientState
<1>2. Served(c, after)
  BY <1>1, UnbindServed DEF AfterRelease
<1>3. after \in [Clients -> ClientState]
  BY <1>1 DEF AfterRelease
<1>4. CASE o = Silent(c)
  BY <1>2, <1>4, SilentServes
<1>5. CASE /\ a \in Addresses /\ LeaseAt(c, a).chaddr = j
           /\ o = Silent([c EXCEPT !.blocks[a[1]].leases[a[2]] = l])
  <2>1. ASSUME NEW k \in Clients, after[k] # Unbound
        PROVE  Held(c, k, after[k]) /\ after[k].address # a
    <3>1. Held(c, k, after[k])
      BY <1>2, <2>1 DEF Served
    <3>2. CASE k = j
      BY <1>1, <2>1, <3>1, <3>2 DEF AfterRelease
    <3>3. CASE k # j
      BY <1>5, <3>1, <3>3 DEF Held
    <3> QED
      BY <3>1, <3>2, <3>3
  <2> HIDE DEF l, after
  <2>2. Served([c EXCEPT !.blocks[a[1]].leases[a[2]] = l], after)
    BY <1>3, <1>5, <2>1, WriteServed
  <2> QED
    BY <1>5, <2>2, SilentServes DEF after
<1>6. \/ o = Silent(c)
      \/ /\ a \in Addresses /\ LeaseAt(c, a).chaddr = j
         /\ o = Silent([c EXCEPT !.blocks[a[1]].leases[a[2]] = l])
  <2>1. CASE find_lease_from_address(a, c) = 0
    <3>1. a \in Addresses /\ {a[1]} \in SUBSET Owned(c)
      BY <2>1, OursOwned DEF find_lease_from_address
    <3>2. o = Silent(IF LeaseAt(c, a).chaddr = j THEN ReleaseAt(c, a) ELSE c)
      BY <2>1, <3>1, OursAllocated DEF dhcp_hdl_release
    <3> QED
      BY <3>1, <3>2 DEF ReleaseAt
  <2>2. CASE find_lease_from_address(a, c) # 0
    BY <2>2 DEF dhcp_hdl_release
  <2> QED
    BY <2>1, <2>2
<1> QED
  BY <1>4, <1>5, <1>6

\* Whatever a client sends, every client's address stays recorded.
LEMMA ProcessServes ==
  ASSUME NEW c \in Config, TableOK(c.blocks), NEW clients \in [Clients -> ClientState],
         Served(c, clients), NEW n, NEW p \in DhcpPacket, NEW ok,
         \A b \in Blocks : c.blocks[b].state # "CLAIMED",
         NEW o \in dhcp_process(n, p, c, ok)
  PROVE  Serves(o, AfterRelease(p, clients))
<1>1. p.type \in {"DISCOVER", "REQUEST", "RELEASE", "INFORM"}
  BY DEF DhcpPacket
<1>2. CASE p.type = "DISCOVER"
  BY <1>2, DiscoverServes DEF dhcp_process, AfterRelease
<1>3. CASE p.type = "REQUEST"
  BY <1>3, RequestServes DEF dhcp_process, AfterRelease
<1>4. CASE p.type = "RELEASE"
  BY <1>4, ReleaseServes DEF dhcp_process
<1>5. CASE p.type = "INFORM"
  <2>1. o \in dhcp_hdl_inform(p, c, ok) /\ AfterRelease(p, clients) = clients
    BY <1>5 DEF dhcp_process, AfterRelease
  <2>2. PICK r \in ok : o = Handled(c, ReplyIf(r, ReplyTo(p, "INFORMED", NoAddress)), << >>)
    BY <2>1 DEF dhcp_hdl_inform
  <2>3. ClientsAfter(o.reply, clients) = clients
    BY <2>2 DEF Handled, ReplyIf, ReplyTo, NoReply, ClientsAfter
  <2> QED
    BY <2>1, <2>2, <2>3 DEF Serves, Handled
<1> QED
  BY <1>1, <1>2, <1>3, <1>4, <1>5

-----------------------------------------------------------------------------
(* One server: the steps *)

\* One daemon alone on its link that is not restarted.
SingleServer(s) == Nodes = {s} /\ MaxStops = 0 /\ RefreshInTime

\* It hears of no other node and has on record what its clients use.
ServerInv(s) ==
  /\ FreshInv
  /\ mcast[s] = << >> /\ server[s] = << >>
  /\ \A b \in Blocks : config[s].blocks[b].state # "CLAIMED"
  /\ Served(config[s], client)

\* What the parts of the invariant say about types.
LEMMA ServerTypes ==
  ASSUME NEW s \in Nodes, ServerInv(s)
  PROVE  /\ Inv /\ Fresh(s) /\ WellFormed(config[s])
         /\ config[s] \in Config /\ TableOK(config[s].blocks)
         /\ client \in [Clients -> ClientState]
         /\ config \in [Nodes -> Config]
         /\ mcast \in [Nodes -> Seq(McastPacket)] /\ server \in [Nodes -> Seq(DirectPacket)]
  BY DEF ServerInv, FreshInv, Inv, TypeOK, WellFormed

\* Before the daemon starts no client uses an address.
LEMMA BootServer ==
  ASSUME NEW s \in Nodes, ServerInv(s), FreshInv', Boot(s) PROVE ServerInv(s)'
<1>1. PICK marks : config' = [config EXCEPT ![s] = ddhcp_block_init(marks)]
  BY DEF Boot
<1>2. config'[s] = ddhcp_block_init(marks)
  BY <1>1, ServerTypes
<1>3. \A b \in Blocks : config'[s].blocks[b].state = "FREE"
  BY <1>2 DEF ddhcp_block_init, InitialBlock
<1>4. Owned(config[s]) = {}
  BY ServerTypes DEF Fresh, Up, Busy, Boot
<1>5. \A k \in Clients : client[k] = Unbound
  BY <1>4, AddressParts DEF ServerInv, Served, Held, Owned, InState, BlockOf
<1>6. UNCHANGED <<mcast, server, client>>
  BY DEF Boot, netVars
<1>7. Served(config'[s], client')
  BY <1>5, <1>6 DEF Served
<1> QED
  BY <1>3, <1>6, <1>7 DEF ServerInv

\* A packet of a client.
LEMMA ClientPacketServer ==
  ASSUME NEW s \in Nodes, ServerInv(s), FreshInv', hdl_dhcp(s) PROVE ServerInv(s)'
<1>0. /\ config[s] \in Config /\ TableOK(config[s].blocks)
      /\ client \in [Clients -> ClientState] /\ config \in [Nodes -> Config]
      /\ server \in [Nodes -> Seq(DirectPacket)]
  BY ServerTypes
<1>1. PICK p \in ClientPackets(s) : \E o \in ClientOutcomes(s, p) :
        /\ config' = [config EXCEPT ![s] = o.config]
        /\ SendDirect(o.direct, server)
        /\ client' = ClientsAfter(o.reply, Released(p))
  BY DEF hdl_dhcp
<1>2. PICK o \in ClientOutcomes(s, p) :
        /\ config' = [config EXCEPT ![s] = o.config]
        /\ SendDirect(o.direct, server)
        /\ client' = ClientsAfter(o.reply, Released(p))
  BY <1>1
<1>3. p \in DhcpPacket
  BY DEF ClientPackets
<1>4. Released(p) = AfterRelease(p, client)
  BY DEF Released, AfterRelease
<1>5. Serves(o, Released(p))
  BY <1>0, <1>3, <1>4, ProcessServes DEF ServerInv, ClientOutcomes
<1>6. HandledOK(config[s], o)
  BY <1>0, <1>3, ProcessOK DEF ClientOutcomes
<1>7. config'[s] = o.config
  BY <1>0, <1>2
<1>8. \A b \in Blocks : config'[s].blocks[b].state # "CLAIMED"
  BY <1>6, <1>7 DEF HandledOK, Steady, Same, ServerInv
<1>9. Served(config'[s], client')
  BY <1>2, <1>5, <1>7 DEF Serves
<1>10. server'[s] = << >>
  <2>1. PICK got \in Delivered(<< >>) \cup (IF FALSE \in SendResults THEN {<< >>} ELSE {}) :
          server' = [r \in Nodes |->
                       IF Up(r) /\ got # << >> /\ got[1].to = r
                       THEN Enqueue(server[r], <<got[1].packet>>)
                       ELSE server[r]]
    BY <1>2, <1>5 DEF SendDirect, Serves
  <2>2. got = << >>
    <3>1. CASE got \in Delivered(<< >>)
      <4>1. << >> \in Seq({})
        OBVIOUS
      <4>2. got \in Seq({})
        BY <3>1, <4>1, DeliveredType
      <4> QED
        BY <4>2
    <3> QED
      BY <3>1
  <2> QED
    BY <2>1, <2>2 DEF ServerInv
<1>11. mcast' = mcast
  BY DEF hdl_dhcp
<1> QED
  BY <1>8, <1>9, <1>10, <1>11 DEF ServerInv

\* House keeping: the claims of ours are fresh when it begins.
LEMMA HouseKeepingServer ==
  ASSUME NEW s \in Nodes, ServerInv(s), FreshInv', HouseKeeping(s) PROVE ServerInv(s)'
<1>0. /\ WellFormed(config[s]) /\ config \in [Nodes -> Config] /\ Fresh(s)
      /\ client \in [Clients -> ClientState] /\ TableOK(config[s].blocks)
  BY ServerTypes
<1>1. PICK o \in CheckAndAdjust(s, config[s], SendResults) :
        /\ config' = [config EXCEPT ![s] = o.config]
        /\ Multicast(s, o.sent, mcast)
  BY DEF HouseKeeping
<1>2. config'[s] = o.config /\ KeepsLeases(config[s], o.config)
  BY <1>0, <1>1, HouseKeepingKeeps
<1>3. \A b \in Blocks : config'[s].blocks[b].state # "CLAIMED"
  BY <1>2 DEF KeepsLeases, Keeps, ServerInv
<1>4. mcast'[s] = << >>
  BY <1>1 DEF Multicast, ServerInv
<1>5. server' = server /\ client' = client
  BY DEF HouseKeeping
<1>6. ASSUME NEW k \in Clients, client[k] # Unbound
      PROVE  Held(config'[s], k, client[k])
  <2> DEFINE a == client[k].address
             b == a[1]
             i == a[2]
  <2>1. Held(config[s], k, client[k]) /\ a \in Addresses
    BY <1>6 DEF ServerInv, Served, Held
  <2>2. b \in Blocks /\ i \in LeaseIndices
    BY <2>1, AddressParts
  <2>3. client[k].left >= 0 /\ client[k].left \in Int
    BY <1>0 DEF ClientState
  <2>4. config[s].blocks[b].leases[i].lease_end \in Int
    BY <1>0, <2>2 DEF TableOK, Block, Lease, Time, Expired
  <2>5. InUse(config[s].blocks[b].leases[i]) /\ config[s].blocks[b].state = "OURS"
    <3> DEFINE lease == config[s].blocks[b].leases[i]
    <3>1. /\ lease.state = "LEASED" /\ lease.lease_end >= client[k].left
          /\ config[s].blocks[b].state = "OURS"
      BY <2>1 DEF Held, LeaseAt, BlockOf
    <3>2. lease.lease_end \in Int
      BY <2>4
    <3> HIDE DEF lease
    <3>3. lease.lease_end >= 0
      BY <2>3, <3>1, <3>2
    <3>4. InUse(lease)
      BY <3>1, <3>3 DEF InUse
    <3> QED
      BY <3>1, <3>4 DEF lease
  <2>6. config[s].blocks[b].timeout >= 0
    BY <1>0, <2>2, <2>5 DEF Fresh, Lasting, Owned, InState, HouseKeeping, RoundOver
  <2>7. /\ o.config.blocks[b].state = "OURS"
        /\ o.config.blocks[b].leases[i] = config[s].blocks[b].leases[i]
    BY <1>2, <2>2, <2>5, <2>6 DEF KeepsLeases, Keeps
  <2> QED
    BY <1>2, <2>1, <2>7 DEF Held, LeaseAt, BlockOf
<1> QED
  BY <1>3, <1>4, <1>5, <1>6 DEF ServerInv, Served

\* Its second half.
LEMMA HouseKeepingEndsServer ==
  ASSUME NEW s \in Nodes, ServerInv(s), FreshInv', HouseKeepingEnds(s) PROVE ServerInv(s)'
<1>0. WellFormed(config[s]) /\ config \in [Nodes -> Config]
  BY ServerTypes
<1>1. PICK o \in RefreshAndForget(s, config[s], SendResults) :
        /\ config' = [config EXCEPT ![s] = o.config]
        /\ Multicast(s, o.sent, mcast)
  BY DEF HouseKeepingEnds
<1>2. config'[s] = o.config
  BY <1>0, <1>1
<1>3. \A b \in Blocks : /\ config'[s].blocks[b].state = config[s].blocks[b].state
                        /\ config'[s].blocks[b].leases = config[s].blocks[b].leases
  BY <1>0, <1>2, RefreshKeeps
<1>4. mcast'[s] = << >> /\ server' = server /\ client' = client
  BY <1>1 DEF Multicast, ServerInv, HouseKeepingEnds
<1>5. ASSUME NEW k \in Clients, client[k] # Unbound
      PROVE  Held(config'[s], k, client[k])
  <2> DEFINE a == client[k].address
  <2>1. Held(config[s], k, client[k]) /\ a \in Addresses
    BY <1>5 DEF ServerInv, Served, Held
  <2>2. a[1] \in Blocks
    BY <2>1, AddressParts
  <2> HIDE DEF a
  <2>3. /\ BlockOf(config'[s], a).state = BlockOf(config[s], a).state
        /\ LeaseAt(config'[s], a) = LeaseAt(config[s], a)
    BY <1>3, <2>2 DEF BlockOf, LeaseAt
  <2> QED
    BY <2>1, <2>3 DEF Held, a
<1> QED
  BY <1>3, <1>4, <1>5 DEF ServerInv, Served

\* The clock takes as much from the client's time as from the lease.
LEMMA TickServer ==
  ASSUME NEW s \in Nodes, ServerInv(s), FreshInv', Tick PROVE ServerInv(s)'
<1>0. /\ WellFormed(config[s]) /\ config[s] \in Config /\ TableOK(config[s].blocks)
      /\ client \in [Clients -> ClientState]
  BY ServerTypes
<1>1. /\ config'[s] = IF Up(s) THEN AgeConfig(config[s]) ELSE config[s]
      /\ client' = [k \in Clients |->
                      IF client[k].left > 0
                      THEN [client[k] EXCEPT !.left = client[k].left - 1]
                      ELSE Unbound]
      /\ UNCHANGED <<mcast, server>>
  BY DEF Tick, netVars
<1>2. \A b \in Blocks : config'[s].blocks[b].state = config[s].blocks[b].state
  BY <1>0, <1>1, AgedClaims
<1>3. ASSUME NEW k \in Clients, client'[k] # Unbound
      PROVE  Held(config'[s], k, client'[k])
  <2> DEFINE a == client[k].address
             old == LeaseAt(config[s], a)
             new == LeaseAt(config'[s], a)
  <2>1. client[k] \in ClientState /\ client[k].left > 0
    BY <1>0, <1>1, <1>3
  <2>2. client[k] # Unbound
    BY <2>1 DEF Unbound
  <2>3. Held(config[s], k, client[k]) /\ a \in Addresses
    BY <2>2 DEF ServerInv, Served, Held
  <2>4. a[1] \in Blocks /\ a[2] \in LeaseIndices /\ old \in Lease
    BY <1>0, <2>3, AddressParts DEF TableOK, Block, LeaseAt
  <2>5. /\ client'[k].address = a
        /\ client'[k].left = client[k].left - 1
    BY <1>1, <2>1 DEF ClientState
  <2>6. old.lease_end \in Int /\ client[k].left \in Int
    BY <2>1, <2>4 DEF Lease, Time, Expired, ClientState
  <2>7. /\ new.state = old.state /\ new.chaddr = old.chaddr
        /\ new.lease_end = old.lease_end \/ new.lease_end = Elapse(old.lease_end)
    <3>1. CASE Up(s)
      <4>1. config'[s].blocks[a[1]] = AgeBlock(config[s].blocks[a[1]])
        BY <1>0, <1>1, <2>4, <3>1 DEF AgeConfig, Config
      <4>2. ASSUME NEW blk \in Block, NEW j \in LeaseIndices
            PROVE  AgeBlock(blk).leases[j] = AgeLease(blk.leases[j])
        BY <4>2 DEF AgeBlock, Block
      <4>3. config[s].blocks[a[1]] \in Block
        BY <1>0, <2>4 DEF TableOK
      <4>4. new = AgeLease(old)
        BY <2>4, <4>1, <4>2, <4>3 DEF LeaseAt
      <4> QED
        BY <2>4, <4>4 DEF AgeLease, Lease
    <3>2. CASE ~ Up(s)
      BY <1>1, <3>2
    <3> QED
      BY <3>1, <3>2
  <2>8. new.lease_end >= client'[k].left
    BY <2>1, <2>3, <2>5, <2>6, <2>7 DEF Held, Elapse
  <2> QED
    BY <1>2, <2>3, <2>4, <2>5, <2>7, <2>8 DEF Held, BlockOf
<1> QED
  BY <1>1, <1>2, <1>3 DEF ServerInv, Served

\* The invariant is inductive for a single server.
LEMMA NextServer ==
  ASSUME NEW s, SingleServer(s)
  PROVE  ServerInv(s) /\ [Next]_vars => ServerInv(s)'
<1> SUFFICES ASSUME ServerInv(s), [Next]_vars PROVE ServerInv(s)'
  OBVIOUS
<1>0. s \in Nodes /\ MaxStops = 0 /\ RefreshInTime /\ \A n \in Nodes : n = s
  BY DEF SingleServer
<1>1. FreshInv'
  BY <1>0, NextFresh DEF ServerInv
<1>2. CASE UNCHANGED <<config, mcast, server, client>>
  BY <1>1, <1>2 DEF ServerInv, Served, Held
<1>3. ~ Stop(s)
  BY <1>0, ServerTypes DEF Stop, Inv, TypeOK
<1>4. ~ hdl_ddhcp_block(s) /\ ~ hdl_ddhcp_dhcp(s)
  BY DEF ServerInv, hdl_ddhcp_block, hdl_ddhcp_dhcp
<1>5. ~ NullDereference(s)
  <2>1. ~ MayCrash(s, SERVER)
    BY DEF MayCrash, ServerInv
  <2>2. ~ MayCrash(s, DHCP)
    <3> SUFFICES ASSUME NEW p \in ClientPackets(s), NEW o \in ClientOutcomes(s, p)
                 PROVE  ~ o.segv
      BY DEF MayCrash, DHCP, SERVER
    <3>1. p \in DhcpPacket
      BY DEF ClientPackets
    <3> QED
      BY <1>0, <3>1, ProcessOK, ServerTypes DEF ClientOutcomes
  <2> QED
    BY <2>1, <2>2 DEF NullDereference
<1>6. CASE Wake(s) \/ HandlerReturns(s) \/ NoHouseKeeping(s) \/ Heal \/ UNCHANGED vars
  BY <1>2, <1>6 DEF Wake, HandlerReturns, NoHouseKeeping, Heal, vars, daemonVars, netVars
<1>7. ASSUME Boot(s) \/ Stop(s) \/ Daemon(s) PROVE ServerInv(s)'
  BY <1>0, <1>1, <1>3, <1>4, <1>5, <1>6, <1>7, BootServer, ClientPacketServer,
     HouseKeepingServer, HouseKeepingEndsServer DEF Daemon
<1> QED
  BY <1>0, <1>1, <1>6, <1>7, TickServer DEF Next

\* It holds before the daemon starts.
LEMMA InitServer == ASSUME NEW s \in Nodes PROVE Init => ServerInv(s)
<1> SUFFICES ASSUME Init PROVE ServerInv(s)
  OBVIOUS
<1>1. /\ config[s] = ddhcp_block_init(FALSE)
      /\ mcast[s] = << >> /\ server[s] = << >>
      /\ \A k \in Clients : client[k] = Unbound
  BY DEF Init
<1>2. \A b \in Blocks : config[s].blocks[b].state = "FREE"
  BY <1>1 DEF ddhcp_block_init, InitialBlock
<1> QED
  BY <1>1, <1>2, InitFresh DEF ServerInv, Served

\* The invariant in every state.
LEMMA ServerAlways == ASSUME NEW CONSTANT s, SingleServer(s) PROVE Spec => []ServerInv(s)
<1>1. s \in Nodes
  BY DEF SingleServer
<1>2. Init => ServerInv(s)
  BY <1>1, InitServer
<1>3. ServerInv(s) /\ [Next]_vars => ServerInv(s)'
  BY NextServer
<1> QED
  BY <1>2, <1>3, PTL DEF Spec

\* Whatever its clients send, a server alone on its link has every address in
\* use on record, as leased, for the client that uses it, for at least as
\* long, and in a block it still owns: neither the expiry of leases and
\* blocks, nor dropping blocks (block_drop_unused), nor the requests and
\* releases of others take it away.
THEOREM SingleServerRecords ==
  ASSUME NEW CONSTANT s, SingleServer(s) PROVE Spec => []LeaseRecorded
<1>1. ServerInv(s) => LeaseRecorded
  BY DEF SingleServer, ServerInv, Served, Held, LeaseRecorded
<1> QED
  BY <1>1, ServerAlways, PTL

\* Hence no two clients of it use one address at the same time.
THEOREM SingleServerExclusive ==
  ASSUME NEW CONSTANT s, SingleServer(s) PROVE Spec => []AddressExclusive
<1>1. ServerInv(s) => AddressExclusive
  BY NoAddressOutside DEF ServerInv, Served, Held, AddressExclusive, Unbound
<1> QED
  BY <1>1, ServerAlways, PTL
=============================================================================
