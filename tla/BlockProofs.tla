---------------------------- MODULE BlockProofs -----------------------------
(***************************************************************************)
(* What the functions of block.c maintain in the table of one daemon,      *)
(* proved for every size of the table and every choice of the timeouts.    *)
(*                                                                         *)
(* WellFormed is the invariant of one daemon's configuration.  All         *)
(* functions but block_claim are quiet: they neither start a claim nor     *)
(* finish one, and leave the claim list alone.                             *)
(***************************************************************************)
EXTENDS Block, FiniteSetTheorems, TLAPS

\* The entries of the table have their types, and lease arrays exactly where
\* they should be.
TableOK(blocks) ==
  /\ blocks \in [Blocks -> Block]
  /\ \A b \in Blocks : Allocated(blocks[b])

WellFormed(c) == c \in Config /\ TableOK(c.blocks) /\ ClaimsListed(c)

\* A block that was neither ours nor being claimed by us does not become so,
\* and no announcement is counted.
Tamer(old, new) ==
  /\ new \in Block
  /\ Allocated(new)
  /\ new.claiming_counts = old.claiming_counts
  /\ new.state \in {"OURS", "CLAIMING"} => new.state = old.state

Quiet(c, d) ==
  /\ d \in Config
  /\ \A b \in Blocks : Tamer(c.blocks[b], d.blocks[b])
  /\ d.claiming_blocks = c.claiming_blocks
  /\ d.claiming_blocks_amount = c.claiming_blocks_amount

-----------------------------------------------------------------------------
(* One block *)

\* The countdown of a deadline stays in range.
LEMMA ElapseType == \A left \in Time : Elapse(left) \in Time
  BY DEF Time, Elapse, Expired

\* A fresh lease, and a released one, are leases.
LEMMA LeaseTypes ==
  /\ UnusedLease \in Lease
  /\ UnusedLeases \in [LeaseIndices -> Lease]
  /\ \A l \in Lease : ReleaseLease(l) \in Lease /\ AgeLease(l) \in Lease
<1>1. UnusedLease \in Lease
  BY DEF UnusedLease, Lease, LeaseStates, Time, Expired
<1>2. ASSUME NEW l \in Lease
      PROVE  ReleaseLease(l) \in Lease
  BY DEF ReleaseLease, Lease, LeaseStates
<1>3. ASSUME NEW l \in Lease
      PROVE  AgeLease(l) \in Lease
  <2>1. Elapse(l.lease_end) \in Time
    BY ElapseType DEF Lease
  <2> QED
    BY <2>1 DEF AgeLease, Lease
<1> QED
  BY <1>1, <1>2, <1>3 DEF UnusedLeases

\* block_alloc gives every block a lease array and changes no state.
LEMMA AllocBlock ==
  ASSUME NEW blk \in Block
  PROVE  /\ block_alloc(blk) \in Block
         /\ block_alloc(blk).alloc
         /\ block_alloc(blk).state = blk.state
         /\ block_alloc(blk).timeout = blk.timeout
         /\ block_alloc(blk).claiming_counts = blk.claiming_counts
  BY LeaseTypes DEF block_alloc, Block

\* block_own leaves a block of ours with a lease array.
LEMMA OwnBlock ==
  ASSUME NEW blk \in Block
  PROVE  /\ block_own(blk) \in Block
         /\ block_own(blk).state = "OURS"
         /\ Allocated(block_own(blk))
<1>1. block_alloc(blk) \in Block /\ block_alloc(blk).alloc
  BY AllocBlock
<1>2. 0 \in 0 .. MaxAge
  BY TimesAssumption
<1> QED
  BY <1>1, <1>2 DEF block_own, Block, BlockStates, Allocated

\* block_free leaves a free block without a lease array.
LEMMA FreeBlock ==
  ASSUME NEW blk \in Block
  PROVE  /\ block_free(blk) \in Block
         /\ block_free(blk).state = "FREE"
         /\ Allocated(block_free(blk))
         /\ Tamer(blk, block_free(blk))
<1>1. NotMarked \in NotMarked .. NeedlessTimeout
  BY TimesAssumption DEF NotMarked
<1>2. block_free(blk) \in Block
  BY <1>1, LeaseTypes DEF block_free, Block, BlockStates
<1>3. /\ block_free(blk).state = "FREE" /\ ~ block_free(blk).alloc
      /\ block_free(blk).claiming_counts = blk.claiming_counts
  BY DEF block_free, Block
<1> QED
  BY <1>2, <1>3 DEF Allocated, Tamer

\* dhcp_check_timeouts touches nothing but leases.
LEMMA ExpireLeases ==
  ASSUME NEW blk \in Block
  PROVE  /\ dhcp_check_timeouts(blk) \in Block
         /\ dhcp_check_timeouts(blk).state = blk.state
         /\ dhcp_check_timeouts(blk).alloc = blk.alloc
         /\ dhcp_check_timeouts(blk).timeout = blk.timeout
         /\ dhcp_check_timeouts(blk).claiming_counts = blk.claiming_counts
<1> DEFINE ls == [i \in LeaseIndices |->
                    IF LeaseExpired(blk.leases[i])
                    THEN ReleaseLease(blk.leases[i]) ELSE blk.leases[i]]
<1>1. ls \in [LeaseIndices -> Lease]
  BY LeaseTypes DEF Block
<1>2. dhcp_check_timeouts(blk) = [blk EXCEPT !.leases = ls]
  BY DEF dhcp_check_timeouts
<1> QED
  BY <1>1, <1>2 DEF Block

\* A timeout frees blocks and expires leases; it owns and claims nothing.
LEMMA TimeoutBlock ==
  ASSUME NEW blk \in Block, Allocated(blk)
  PROVE  Tamer(blk, CheckBlockTimeout(blk))
<1> DEFINE timed == IF blk.timeout < 0 /\ blk.state # "FREE"
                    THEN block_free(blk) ELSE blk
           aged == IF timed.state = "OURS" \/ timed.alloc
                   THEN dhcp_check_timeouts(timed) ELSE timed
           last == IF aged.state # "OURS" /\ aged.alloc /\ dhcp_num_free(aged) = BlockSize
                   THEN block_free(aged) ELSE aged
<1>1. timed \in Block /\ Tamer(blk, timed)
  BY FreeBlock DEF Tamer
<1> HIDE DEF timed
<1>2. /\ aged \in Block /\ aged.state = timed.state /\ aged.alloc = timed.alloc
      /\ aged.claiming_counts = timed.claiming_counts
  BY <1>1, ExpireLeases
<1>3. Tamer(blk, aged)
  BY <1>1, <1>2 DEF Tamer, Allocated
<1> HIDE DEF aged
<1>4. Tamer(blk, last)
  BY <1>2, <1>3, FreeBlock DEF Tamer
<1>5. CheckBlockTimeout(blk) = last
  BY DEF CheckBlockTimeout, timed, aged
<1> QED
  BY <1>4, <1>5

\* The clock changes no state.
LEMMA OlderBlock ==
  ASSUME NEW blk \in Block, Allocated(blk)
  PROVE  Tamer(blk, AgeBlock(blk))
<1> DEFINE ls == [i \in LeaseIndices |-> AgeLease(blk.leases[i])]
           ns == IF blk.needless_since = NotMarked THEN NotMarked
                 ELSE Older(blk.needless_since, NeedlessTimeout)
<1>1. ls \in [LeaseIndices -> Lease]
  BY LeaseTypes DEF Block
<1>2. ns \in NotMarked .. NeedlessTimeout
  BY TimesAssumption DEF NotMarked, Older, Block
<1>3. Older(blk.first_claimed, MaxAge) \in 0 .. MaxAge
  BY TimesAssumption DEF Older, Block
<1>4. Elapse(blk.timeout) \in Time
  BY ElapseType DEF Block
<1>5. AgeBlock(blk) = [blk EXCEPT !.timeout = Elapse(blk.timeout),
                                  !.first_claimed = Older(blk.first_claimed, MaxAge),
                                  !.needless_since = ns,
                                  !.leases = ls]
  BY DEF AgeBlock
<1> HIDE DEF ls, ns
<1>6. /\ AgeBlock(blk) \in Block
      /\ AgeBlock(blk).state = blk.state
      /\ AgeBlock(blk).alloc = blk.alloc
      /\ AgeBlock(blk).claiming_counts = blk.claiming_counts
  BY <1>1, <1>2, <1>3, <1>4, <1>5 DEF Block
<1> QED
  BY <1>6 DEF Tamer, Allocated

-----------------------------------------------------------------------------
(* The table *)

\* Sets of blocks are finite.
LEMMA BlocksFinite ==
  \A S \in SUBSET Blocks : IsFiniteSet(S) /\ Cardinality(S) \in Nat
<1>1. NumberOfBlocks - 1 \in Int
  BY SizesAssumption
<1>2. IsFiniteSet(Blocks)
  BY <1>1, FS_Interval DEF Blocks
<1> QED
  BY <1>2, FS_Subset, FS_CardinalityType

\* A table changed by tame steps only makes a quiet step.
LEMMA TameTable ==
  ASSUME NEW c \in Config, NEW blocks \in [Blocks -> Block],
         NEW marks \in BOOLEAN, NEW cache \in SUBSET CachedPacket,
         \A b \in Blocks : Tamer(c.blocks[b], blocks[b])
  PROVE  Quiet(c, [c EXCEPT !.blocks = blocks, !.needless_marks = marks,
                            !.dhcp_packet_cache = cache])
<1> DEFINE d == [c EXCEPT !.blocks = blocks, !.needless_marks = marks,
                          !.dhcp_packet_cache = cache]
<1>1. d \in Config
  BY DEF Config
<1>2. /\ d.blocks = blocks
      /\ d.claiming_blocks = c.claiming_blocks
      /\ d.claiming_blocks_amount = c.claiming_blocks_amount
  BY DEF Config
<1> QED
  BY <1>1, <1>2 DEF Quiet

\* The same for a step that changes one entry of the table.
LEMMA TameEntry ==
  ASSUME NEW c \in Config, TableOK(c.blocks),
         NEW b \in Blocks, NEW blk \in Block,
         NEW marks \in BOOLEAN,
         Tamer(c.blocks[b], blk)
  PROVE  Quiet(c, [c EXCEPT !.blocks[b] = blk, !.needless_marks = marks])
<1> DEFINE bs == [c.blocks EXCEPT ![b] = blk]
<1>1. bs \in [Blocks -> Block]
  BY DEF Config
<1>2. \A x \in Blocks : Tamer(c.blocks[x], bs[x])
  BY DEF TableOK, Tamer
<1>3. [c EXCEPT !.blocks[b] = blk, !.needless_marks = marks] =
        [c EXCEPT !.blocks = bs, !.needless_marks = marks,
                  !.dhcp_packet_cache = c.dhcp_packet_cache]
  BY DEF Config
<1>4. c.dhcp_packet_cache \in SUBSET CachedPacket
  BY DEF Config
<1> HIDE DEF bs
<1>5. Quiet(c, [c EXCEPT !.blocks = bs, !.needless_marks = marks,
                         !.dhcp_packet_cache = c.dhcp_packet_cache])
  BY <1>1, <1>2, <1>4, TameTable
<1> QED
  BY <1>3, <1>5, Zenon

\* Doing nothing is quiet.
LEMMA NoChange == ASSUME NEW c \in Config, TableOK(c.blocks) PROVE Quiet(c, c)
  BY DEF Quiet, Tamer, TableOK

\* Quiet steps compose.
LEMMA QuietTransitive ==
  ASSUME NEW c, NEW d, NEW e, Quiet(c, d), Quiet(d, e)
  PROVE  Quiet(c, e)
  BY DEF Quiet, Tamer

\* The result of a quiet step is a table in order.
LEMMA QuietTable ==
  ASSUME NEW c, NEW d, Quiet(c, d)
  PROVE  d \in Config /\ TableOK(d.blocks)
  BY DEF Quiet, Tamer, TableOK, Config

\* A quiet step keeps the configuration well formed.
LEMMA QuietWellFormed ==
  ASSUME NEW c, NEW d, WellFormed(c), Quiet(c, d)
  PROVE  WellFormed(d)
<1>1. d \in Config /\ TableOK(d.blocks)
  BY QuietTable
<1>2. InState(d, "CLAIMING") \subseteq InState(c, "CLAIMING")
  BY DEF InState, Quiet, Tamer
<1>3. Owned(d) \subseteq Owned(c)
  BY DEF InState, Owned, Quiet, Tamer
<1>4. ClaimsListed(d)
  BY <1>2, <1>3 DEF WellFormed, ClaimsListed, Quiet
<1> QED
  BY <1>1, <1>4 DEF WellFormed

\* A table changed by tame steps and nothing else.
LEMMA TameBlocks ==
  ASSUME NEW c \in Config, NEW blocks \in [Blocks -> Block],
         \A b \in Blocks : Tamer(c.blocks[b], blocks[b])
  PROVE  Quiet(c, [c EXCEPT !.blocks = blocks])
<1> DEFINE d == [c EXCEPT !.blocks = blocks]
<1>1. d \in Config
  BY DEF Config
<1>2. /\ d.blocks = blocks
      /\ d.claiming_blocks = c.claiming_blocks
      /\ d.claiming_blocks_amount = c.claiming_blocks_amount
  BY DEF Config
<1> QED
  BY <1>1, <1>2 DEF Quiet

\* One entry changed by a tame step and nothing else.
LEMMA TameBlock ==
  ASSUME NEW c \in Config, TableOK(c.blocks), NEW b \in Blocks, NEW blk,
         Tamer(c.blocks[b], blk)
  PROVE  Quiet(c, [c EXCEPT !.blocks[b] = blk])
<1> DEFINE bs == [c.blocks EXCEPT ![b] = blk]
<1>1. bs \in [Blocks -> Block]
  BY DEF TableOK, Tamer
<1>2. \A x \in Blocks : Tamer(c.blocks[x], bs[x])
  BY DEF TableOK, Tamer
<1>3. [c EXCEPT !.blocks[b] = blk] = [c EXCEPT !.blocks = bs]
  BY DEF Config
<1> HIDE DEF bs
<1>4. Quiet(c, [c EXCEPT !.blocks = bs])
  BY <1>1, <1>2, TameBlocks
<1> QED
  BY <1>3, <1>4, Zenon

\* A new deadline is a tame change of an entry.
LEMMA TameTimeout ==
  ASSUME NEW blk \in Block, Allocated(blk), NEW t \in Time
  PROVE  Tamer(blk, [blk EXCEPT !.timeout = t])
<1>1. /\ [blk EXCEPT !.timeout = t] \in Block
      /\ [blk EXCEPT !.timeout = t].state = blk.state
      /\ [blk EXCEPT !.timeout = t].alloc = blk.alloc
      /\ [blk EXCEPT !.timeout = t].claiming_counts = blk.claiming_counts
  BY DEF Block
<1> QED
  BY <1>1 DEF Tamer, Allocated

\* So is a new needless mark.
LEMMA TameMark ==
  ASSUME NEW blk \in Block, Allocated(blk),
         NEW m \in NotMarked .. NeedlessTimeout
  PROVE  Tamer(blk, [blk EXCEPT !.needless_since = m])
<1>1. /\ [blk EXCEPT !.needless_since = m] \in Block
      /\ [blk EXCEPT !.needless_since = m].state = blk.state
      /\ [blk EXCEPT !.needless_since = m].alloc = blk.alloc
      /\ [blk EXCEPT !.needless_since = m].claiming_counts = blk.claiming_counts
  BY DEF Block
<1> QED
  BY <1>1 DEF Tamer, Allocated

\* block_check_timeouts is quiet.
LEMMA CheckTimeoutsQuiet ==
  ASSUME NEW c \in Config, TableOK(c.blocks)
  PROVE  Quiet(c, block_check_timeouts(c))
<1> DEFINE bs == [b \in Blocks |-> CheckBlockTimeout(c.blocks[b])]
<1>1. \A b \in Blocks : Tamer(c.blocks[b], bs[b])
  BY TimeoutBlock DEF TableOK
<1>2. bs \in [Blocks -> Block]
  BY <1>1 DEF Tamer
<1>3. block_check_timeouts(c) = [c EXCEPT !.blocks = bs]
  BY DEF block_check_timeouts
<1> HIDE DEF bs
<1>4. Quiet(c, [c EXCEPT !.blocks = bs])
  BY <1>1, <1>2, TameBlocks
<1> QED
  BY <1>3, <1>4, Zenon

\* block_unmark_needless is quiet.
LEMMA UnmarkQuiet ==
  ASSUME NEW c \in Config, TableOK(c.blocks)
  PROVE  Quiet(c, block_unmark_needless(c))
<1> DEFINE bs == [b \in Blocks |-> [c.blocks[b] EXCEPT !.needless_since = NotMarked]]
           cache == c.dhcp_packet_cache
<1>0. NotMarked \in NotMarked .. NeedlessTimeout
  BY TimesAssumption DEF NotMarked
<1>1. \A b \in Blocks : Tamer(c.blocks[b], bs[b])
  BY <1>0, TameMark DEF TableOK
<1>2. bs \in [Blocks -> Block]
  BY <1>1 DEF Tamer
<1>3. cache \in SUBSET CachedPacket
  BY DEF Config
<1>4. block_unmark_needless(c) =
        [c EXCEPT !.blocks = bs, !.needless_marks = FALSE, !.dhcp_packet_cache = cache]
  BY DEF block_unmark_needless, Config
<1> HIDE DEF bs, cache
<1>5. Quiet(c, [c EXCEPT !.blocks = bs, !.needless_marks = FALSE,
                         !.dhcp_packet_cache = cache])
  BY <1>1, <1>2, <1>3, TameTable
<1> QED
  BY <1>4, <1>5, Zenon

\* block_drop_unused is quiet, whichever block it looks at.
LEMMA DropQuiet ==
  ASSUME NEW c \in Config, TableOK(c.blocks), NEW d \in block_drop_unused(c)
  PROVE  Quiet(c, d)
<1>1. CASE d = c
  BY <1>1, NoChange
<1>2. ASSUME NEW b \in Blocks, d = DropOrMark(c, b)
      PROVE  Quiet(c, d)
  <2> DEFINE blk == c.blocks[b]
             marked == [blk EXCEPT !.needless_since = 0]
  <2>1. blk \in Block /\ Allocated(blk)
    BY DEF TableOK
  <2>2. Tamer(blk, marked)
    <3>1. 0 \in NotMarked .. NeedlessTimeout
      BY TimesAssumption DEF NotMarked
    <3> QED
      BY <2>1, <3>1, TameMark
  <2>3. Tamer(blk, block_free(blk))
    BY <2>1, FreeBlock
  <2>4. Quiet(c, [c EXCEPT !.blocks[b] = marked, !.needless_marks = TRUE])
    BY <2>2, TameEntry DEF Tamer
  <2>5. Quiet(c, [c EXCEPT !.blocks[b] = block_free(blk), !.needless_marks = FALSE])
    BY <2>3, TameEntry DEF Tamer
  <2>6. CASE blk.needless_since = NotMarked
    <3>1. DropOrMark(c, b) = [c EXCEPT !.blocks[b] = marked, !.needless_marks = TRUE]
      BY <2>6 DEF DropOrMark, Config
    <3> QED
      BY <1>2, <2>4, <3>1, Zenon
  <2>7. CASE blk.needless_since # NotMarked /\ blk.needless_since >= NeedlessTimeout
    <3>1. DropOrMark(c, b) =
            [c EXCEPT !.blocks[b] = block_free(blk), !.needless_marks = FALSE]
      BY <2>7 DEF DropOrMark, Config
    <3> QED
      BY <1>2, <2>5, <3>1, Zenon
  <2>8. CASE ~ (\/ blk.needless_since = NotMarked
                \/ blk.needless_since # NotMarked /\ blk.needless_since >= NeedlessTimeout)
    <3>1. DropOrMark(c, b) = c
      BY <2>8 DEF DropOrMark
    <3> QED
      BY <1>2, <3>1, NoChange
  <2> QED
    BY <2>6, <2>7, <2>8
<1>3. DropCandidates(c) \subseteq Blocks
  BY DEF DropCandidates, Youngest, Owned, InState
<1> QED
  BY <1>1, <1>2, <1>3 DEF block_drop_unused

-----------------------------------------------------------------------------
(* Refreshing claims *)

\* What a burst of packets numbered by f is.
LEMMA BurstType ==
  ASSUME NEW S, NEW k \in Nat, NEW g \in [1 .. k -> S]
  PROVE  g \in Seq(S)
  OBVIOUS

\* The packets to refresh are finitely many.
LEMMA PacketsFinite ==
  ASSUME NEW c, NEW sent \in SUBSET PacketsDue(c)
  PROVE  IsFiniteSet(sent) /\ Cardinality(sent) \in Nat
<1> DEFINE D == {d \in Owned(c) : c.blocks[d].timeout < Baseline}
           g == [b \in D |-> PacketOf(c, b)]
<1>1. IsFiniteSet(D)
  BY BlocksFinite DEF Owned, InState
<1>2. g \in Surjection(D, PacketsDue(c))
  BY DEF Surjection, PacketsDue
<1>3. IsFiniteSet(PacketsDue(c))
  BY <1>1, <1>2, FS_Surjection
<1> QED
  BY <1>3, FS_Subset, FS_CardinalityType

\* Renewing deadlines is quiet.
LEMMA RefreshQuiet ==
  ASSUME NEW c \in Config, TableOK(c.blocks), NEW sent
  PROVE  /\ Quiet(c, Refresh(c, sent))
         /\ \A b \in Blocks : Refresh(c, sent).blocks[b].state = c.blocks[b].state
<1> DEFINE bs == [b \in Blocks |-> IF b \in Owned(c) /\ PacketOf(c, b) \in sent
                                   THEN [c.blocks[b] EXCEPT !.timeout = BlockTimeout]
                                   ELSE c.blocks[b]]
<1>1. BlockTimeout \in Time
  BY TimesAssumption DEF Time
<1>2. \A b \in Blocks : /\ Tamer(c.blocks[b], c.blocks[b])
                        /\ Tamer(c.blocks[b], [c.blocks[b] EXCEPT !.timeout = BlockTimeout])
  BY <1>1, TameTimeout DEF TableOK, Tamer
<1>3. \A b \in Blocks : Tamer(c.blocks[b], bs[b])
  BY <1>2
<1>4. bs \in [Blocks -> Block]
  BY <1>3 DEF Tamer
<1>5. Refresh(c, sent) = [c EXCEPT !.blocks = bs]
  BY DEF Refresh
<1>6. \A b \in Blocks : bs[b].state = c.blocks[b].state
  BY DEF TableOK, Block
<1> HIDE DEF bs
<1>7. Quiet(c, [c EXCEPT !.blocks = bs]) /\ [c EXCEPT !.blocks = bs].blocks = bs
  BY <1>3, <1>4, TameBlocks DEF Config
<1> QED
  BY <1>5, <1>6, <1>7, Zenon

\* block_update_claims is quiet, changes no state, and hands well-formed packets to the network.
LEMMA UpdateClaimsQuiet ==
  ASSUME NEW c \in Config, TableOK(c.blocks), NEW n \in Nodes, NEW ok,
         NEW o \in block_update_claims(n, c, ok)
  PROVE  /\ Quiet(c, o.config)
         /\ \A b \in Blocks : o.config.blocks[b].state = c.blocks[b].state
         /\ o.sent \in Seq(McastPacket)
<1>1. PICK sent \in SUBSET PacketsDue(c) : o \in UpdateClaims(n, c, sent)
  BY DEF block_update_claims
<1>2. PICK f \in Ascending(sent) :
        o = Outcome(Refresh(c, sent),
                    [i \in 1 .. Cardinality(sent) |->
                       new_ddhcp_packet("UPDATECLAIM", n, InPacket(c, f[i]))])
  BY <1>1 DEF UpdateClaims
<1> DEFINE g == [i \in 1 .. Cardinality(sent) |->
                   new_ddhcp_packet("UPDATECLAIM", n, InPacket(c, f[i]))]
<1>3. Cardinality(sent) \in Nat
  BY PacketsFinite
<1>4. g \in [1 .. Cardinality(sent) -> McastPacket]
  BY DEF new_ddhcp_packet, McastPacket, InPacket, Owned, InState
<1> HIDE DEF g
<1>5. g \in Seq(McastPacket)
  BY <1>3, <1>4, BurstType
<1>6. o.config = Refresh(c, sent) /\ o.sent = g
  BY <1>2 DEF Outcome, g
<1> QED
  BY <1>5, <1>6, RefreshQuiet

-----------------------------------------------------------------------------
(* Claiming *)

\* The claims on the list are under way: fewer than three announcements, and
\* still ours to make.
UnderWay(c) ==
  \A b \in c.claiming_blocks : /\ c.blocks[b].claiming_counts < 3
                               /\ c.blocks[b].state = "CLAIMING"

\* Counting what is left of a finite set without two disjoint parts of it.
LEMMA Remaining ==
  ASSUME NEW S, IsFiniteSet(S), NEW D \in SUBSET S, NEW L \in SUBSET S,
         D \cap L = {}
  PROVE  Cardinality(S \ (D \cup L)) = Cardinality(S) - Cardinality(D) - Cardinality(L)
<1>1. IsFiniteSet(D) /\ IsFiniteSet(L)
  BY FS_Subset
<1>2. /\ Cardinality(D) \in Nat /\ Cardinality(L) \in Nat
      /\ Cardinality(S) \in Nat /\ Cardinality({}) = 0
  BY <1>1, FS_CardinalityType, FS_EmptySet
<1>3. Cardinality(D \cup L) = Cardinality(D) + Cardinality(L) - Cardinality(D \cap L)
  BY <1>1, FS_Union
<1>4. Cardinality(S \ (D \cup L)) = Cardinality(S) - Cardinality(S \cap (D \cup L))
  BY FS_Difference
<1>5. S \cap (D \cup L) = D \cup L
  OBVIOUS
<1> QED
  BY <1>2, <1>3, <1>4, <1>5

\* After the first loop of block_claim the claims left are under way.
LEMMA FinishClaimsOK ==
  ASSUME NEW c, WellFormed(c)
  PROVE  WellFormed(FinishClaims(c)) /\ UnderWay(FinishClaims(c))
<1> DEFINE D == ClaimsDone(c)
           L == ClaimsLost(c)
           left == c.claiming_blocks \ (D \cup L)
           bs == [b \in Blocks |-> IF b \in D THEN block_own(c.blocks[b]) ELSE c.blocks[b]]
           amount == c.claiming_blocks_amount - Cardinality(D) - Cardinality(L)
           r == FinishClaims(c)
<1>0. c \in Config /\ TableOK(c.blocks) /\ ClaimsListed(c)
  BY DEF WellFormed
<1>1. /\ c.claiming_blocks \in SUBSET Blocks
      /\ c.claiming_blocks_amount \in Int
      /\ c.blocks \in [Blocks -> Block]
  BY <1>0 DEF Config
<1>2. /\ D \subseteq c.claiming_blocks
      /\ L \subseteq c.claiming_blocks
      /\ D \cap L = {}
  BY DEF ClaimsDone, ClaimsLost
<1>3. bs \in [Blocks -> Block]
  BY <1>1, OwnBlock
<1>4. /\ r = [c EXCEPT !.blocks = bs, !.claiming_blocks = left,
                       !.claiming_blocks_amount = amount]
  BY DEF FinishClaims
<1>5. /\ IsFiniteSet(D) /\ Cardinality(D) \in Nat
      /\ IsFiniteSet(L) /\ Cardinality(L) \in Nat
      /\ IsFiniteSet(c.claiming_blocks) /\ Cardinality(c.claiming_blocks) \in Nat
  BY <1>1, <1>2, BlocksFinite
<1>6. amount = Cardinality(left)
  <2> HIDE DEF D, L
  <2>1. Cardinality(left) =
          Cardinality(c.claiming_blocks) - Cardinality(D) - Cardinality(L)
    BY <1>2, <1>5, Remaining
  <2> QED
    BY <1>0, <2>1 DEF ClaimsListed
<1>7. amount \in Int
  BY <1>1, <1>5
<1> HIDE DEF bs, left, amount
<1>8. r \in Config
  BY <1>0, <1>1, <1>3, <1>4, <1>7 DEF Config, left
<1>9. r.blocks = bs /\ r.claiming_blocks = left /\ r.claiming_blocks_amount = amount
  BY <1>0, <1>4 DEF Config
<1> HIDE DEF r
<1>10. \A b \in Blocks : Allocated(bs[b])
  BY <1>0, <1>1, OwnBlock DEF TableOK, bs
<1>11. \A b \in Blocks : bs[b].state = IF b \in D THEN "OURS" ELSE c.blocks[b].state
  BY <1>1, OwnBlock DEF bs
<1>12. InState(r, "CLAIMING") \subseteq left
  BY <1>0, <1>9, <1>11 DEF InState, ClaimsListed, left, ClaimsLost
<1>13. Owned(r) \cap left = {}
  BY <1>0, <1>9, <1>11 DEF Owned, InState, ClaimsListed, left
<1>14. UnderWay(r)
  <2> SUFFICES ASSUME NEW b \in left
               PROVE  bs[b].claiming_counts < 3 /\ bs[b].state = "CLAIMING"
    BY <1>9 DEF UnderWay
  <2>1. b \in Blocks /\ b \notin D /\ b \notin L /\ b \in c.claiming_blocks
    BY <1>1 DEF left
  <2>2. bs[b] = c.blocks[b]
    BY <2>1 DEF bs
  <2>3. c.blocks[b].claiming_counts \in 0 .. 3
    BY <1>1, <2>1 DEF Block
  <2> QED
    BY <2>1, <2>2, <2>3 DEF ClaimsDone, ClaimsLost
<1> QED
  BY <1>3, <1>6, <1>8, <1>9, <1>10, <1>12, <1>13, <1>14
     DEF WellFormed, TableOK, ClaimsListed, r

\* A claim is started without a lease array.
LEMMA StartClaimBlock ==
  ASSUME NEW blk \in Block, Allocated(blk), blk.state = "FREE"
  PROVE  /\ StartClaim(blk) \in Block
         /\ StartClaim(blk).state = "CLAIMING"
         /\ StartClaim(blk).claiming_counts = 0
         /\ Allocated(StartClaim(blk))
<1>1. TentativeTimeout \in Time
  BY TimesAssumption DEF Time
<1>2. 0 \in 0 .. 3 /\ "CLAIMING" \in BlockStates
  BY DEF BlockStates
<1>3. StartClaim(blk) \in Block
  BY <1>1, <1>2 DEF StartClaim, Block
<1>4. /\ StartClaim(blk).state = "CLAIMING"
      /\ StartClaim(blk).claiming_counts = 0
      /\ StartClaim(blk).alloc = blk.alloc
  BY DEF StartClaim, Block
<1> QED
  BY <1>3, <1>4 DEF Allocated

\* The second half of block_claim starts claims of free blocks only.
LEMMA StartClaimsOK ==
  ASSUME NEW c, WellFormed(c), UnderWay(c), NEW new \in SUBSET InState(c, "FREE")
  PROVE  WellFormed(StartClaims(c, new)) /\ UnderWay(StartClaims(c, new))
<1> DEFINE bs == [b \in Blocks |-> IF b \in new THEN StartClaim(c.blocks[b])
                                                ELSE c.blocks[b]]
           list == c.claiming_blocks \cup new
           amount == c.claiming_blocks_amount + Cardinality(new)
           r == StartClaims(c, new)
<1>0. c \in Config /\ TableOK(c.blocks) /\ ClaimsListed(c)
  BY DEF WellFormed
<1>1. /\ c.claiming_blocks \in SUBSET Blocks
      /\ c.claiming_blocks_amount \in Int
      /\ c.blocks \in [Blocks -> Block]
      /\ new \in SUBSET Blocks
  BY <1>0 DEF Config, InState
<1>3. ASSUME NEW b \in new
      PROVE  /\ StartClaim(c.blocks[b]) \in Block
             /\ StartClaim(c.blocks[b]).state = "CLAIMING"
             /\ StartClaim(c.blocks[b]).claiming_counts = 0
             /\ Allocated(StartClaim(c.blocks[b]))
  <2>1. c.blocks[b] \in Block /\ Allocated(c.blocks[b]) /\ c.blocks[b].state = "FREE"
    BY <1>0, <1>1 DEF TableOK, InState
  <2> QED
    BY <2>1, StartClaimBlock
<1>4. bs \in [Blocks -> Block]
  BY <1>1, <1>3
<1>5. \A b \in Blocks : Allocated(bs[b])
  BY <1>0, <1>3 DEF TableOK
<1>6. new \cap c.claiming_blocks = {}
  BY DEF UnderWay, InState
<1>7. /\ IsFiniteSet(new) /\ Cardinality(new) \in Nat
      /\ IsFiniteSet(c.claiming_blocks) /\ Cardinality(c.claiming_blocks) \in Nat
  BY <1>1, BlocksFinite
<1>8. Cardinality(list) = amount
  <2>1. Cardinality(list) = Cardinality(c.claiming_blocks) + Cardinality(new)
                              - Cardinality(c.claiming_blocks \cap new)
    BY <1>7, FS_Union
  <2>2. Cardinality(c.claiming_blocks \cap new) = 0
    BY <1>6, FS_EmptySet
  <2> QED
    BY <1>0, <1>7, <2>1, <2>2 DEF ClaimsListed
<1>9. amount \in Int
  BY <1>1, <1>7
<1>10. r = [c EXCEPT !.blocks = bs, !.claiming_blocks = list,
                     !.claiming_blocks_amount = amount]
  BY DEF StartClaims
<1>11. list \in SUBSET Blocks
  BY <1>1
<1> HIDE DEF bs, list, amount
<1>12. r \in Config
  BY <1>0, <1>4, <1>9, <1>10, <1>11 DEF Config
<1>13. r.blocks = bs /\ r.claiming_blocks = list /\ r.claiming_blocks_amount = amount
  BY <1>0, <1>10 DEF Config
<1> HIDE DEF r
<1>14. \A b \in Blocks : /\ b \in new => bs[b].state = "CLAIMING" /\ bs[b].claiming_counts = 0
                         /\ b \notin new => bs[b] = c.blocks[b]
  BY <1>3 DEF bs
<1>15. InState(r, "CLAIMING") \subseteq list
  BY <1>0, <1>13, <1>14 DEF InState, ClaimsListed, list
<1>16. Owned(r) \cap list = {}
  BY <1>0, <1>13, <1>14 DEF InState, Owned, ClaimsListed, list
<1>17. UnderWay(r)
  BY <1>1, <1>11, <1>13, <1>14 DEF UnderWay, list
<1> QED
  BY <1>4, <1>5, <1>8, <1>12, <1>13, <1>15, <1>16, <1>17
     DEF WellFormed, TableOK, ClaimsListed, r

\* Counting an announcement keeps the counts within three and changes no
\* state.
LEMMA CountClaimBlock ==
  ASSUME NEW blk \in Block, blk.claiming_counts < 3
  PROVE  /\ CountClaim(blk) \in Block
         /\ CountClaim(blk).state = blk.state
         /\ CountClaim(blk).alloc = blk.alloc
         /\ CountClaim(blk).timeout = blk.timeout
         /\ CountClaim(blk).claiming_counts = blk.claiming_counts + 1
  BY DEF CountClaim, Block

\* An announcement is counted for the claims on the list and for no other.
LEMMA CountClaimsOK ==
  ASSUME NEW c, WellFormed(c), UnderWay(c)
  PROVE  /\ WellFormed(CountClaims(c))
         /\ CountClaims(c).claiming_blocks = c.claiming_blocks
         /\ \A b \in Blocks :
              /\ CountClaims(c).blocks[b].state = c.blocks[b].state
              /\ b \in c.claiming_blocks => CountClaims(c).blocks[b].claiming_counts
                                              = c.blocks[b].claiming_counts + 1
<1> DEFINE bs == [b \in Blocks |-> IF b \in c.claiming_blocks
                                   THEN CountClaim(c.blocks[b]) ELSE c.blocks[b]]
           r == CountClaims(c)
<1>1. c \in Config /\ TableOK(c.blocks) /\ c.blocks \in [Blocks -> Block] /\ ClaimsListed(c)
  BY DEF WellFormed, TableOK
<1>2. ASSUME NEW b \in Blocks
      PROVE  /\ bs[b] \in Block
             /\ Allocated(bs[b])
             /\ bs[b].state = c.blocks[b].state
             /\ b \in c.claiming_blocks =>
                  bs[b].claiming_counts = c.blocks[b].claiming_counts + 1
  <2>1. c.blocks[b] \in Block /\ Allocated(c.blocks[b])
    BY <1>1 DEF TableOK
  <2>2. b \in c.claiming_blocks => c.blocks[b].claiming_counts < 3
    BY DEF UnderWay
  <2> QED
    BY <2>1, <2>2, CountClaimBlock DEF Allocated
<1>3. bs \in [Blocks -> Block]
  BY <1>2
<1>4. r = [c EXCEPT !.blocks = bs]
  BY DEF CountClaims
<1> HIDE DEF bs
<1>5. /\ r \in Config /\ r.blocks = bs
      /\ r.claiming_blocks = c.claiming_blocks
      /\ r.claiming_blocks_amount = c.claiming_blocks_amount
  BY <1>1, <1>3, <1>4 DEF Config
<1> HIDE DEF r
<1>6. TableOK(r.blocks)
  BY <1>2, <1>3, <1>5 DEF TableOK
<1>7. ClaimsListed(r)
  BY <1>1, <1>2, <1>5 DEF ClaimsListed, InState, Owned
<1> QED
  BY <1>2, <1>5, <1>6, <1>7 DEF WellFormed, r

\* block_claim keeps the configuration well formed: no claim is announced
\* more than three times, the list loses no claim and counts each once, and
\* whatever block_own takes has its lease array.
LEMMA ClaimOK ==
  ASSUME NEW c, WellFormed(c), NEW n \in Nodes, NEW num, NEW ok,
         NEW o \in block_claim(n, num, c, ok)
  PROVE  WellFormed(o.config) /\ o.sent \in Seq(McastPacket)
<1> DEFINE rest == FinishClaims(c)
           need == BlocksToFind(num - Cardinality(ClaimsDone(c)), rest)
<1>1. PICK new \in block_find_free(need, rest) : o \in Inquire(n, StartClaims(rest, new), ok)
  BY DEF block_claim
<1>2. new \in SUBSET InState(rest, "FREE")
  BY DEF block_find_free
<1>3. WellFormed(rest) /\ UnderWay(rest)
  BY FinishClaimsOK
<1> DEFINE s == StartClaims(rest, new)
<1> HIDE DEF rest
<1>4. WellFormed(s) /\ UnderWay(s)
  BY <1>2, <1>3, StartClaimsOK
<1>5. o \in Inquire(n, s, ok)
  BY <1>1
<1> HIDE DEF s
<1>6. s.claiming_blocks \in SUBSET Blocks
  BY <1>4 DEF WellFormed, Config
<1>7. new_ddhcp_packet("INQUIRE", n, s.claiming_blocks) \in McastPacket
  BY <1>6 DEF new_ddhcp_packet, McastPacket
<1>8. \/ o = Outcome(s, << >>)
      \/ o = Outcome(CountClaims(s), <<new_ddhcp_packet("INQUIRE", n, s.claiming_blocks)>>)
  BY <1>5 DEF Inquire
<1>9. CASE o = Outcome(s, << >>)
  BY <1>4, <1>9 DEF Outcome
<1>10. CASE o = Outcome(CountClaims(s), <<new_ddhcp_packet("INQUIRE", n, s.claiming_blocks)>>)
  <2>1. WellFormed(CountClaims(s))
    BY <1>4, CountClaimsOK
  <2>2. <<new_ddhcp_packet("INQUIRE", n, s.claiming_blocks)>> \in Seq(McastPacket)
    BY <1>7
  <2> QED
    BY <1>10, <2>1, <2>2 DEF Outcome
<1> QED
  BY <1>8, <1>9, <1>10

-----------------------------------------------------------------------------
(* The initial table *)

\* ddhcp_block_init leaves a well-formed configuration.
LEMMA InitOK ==
  ASSUME NEW marks \in BOOLEAN
  PROVE  WellFormed(ddhcp_block_init(marks))
<1> DEFINE c == ddhcp_block_init(marks)
<1>1. /\ BlockTimeout \in Time
      /\ MaxAge \in 0 .. MaxAge
      /\ NotMarked \in NotMarked .. NeedlessTimeout
  BY TimesAssumption DEF Time, NotMarked
<1>2. InitialBlock \in Block
  BY <1>1, LeaseTypes DEF InitialBlock, Block, BlockStates
<1>3. InitialBlock.state = "FREE" /\ ~ InitialBlock.alloc
  BY DEF InitialBlock
<1>4. c \in Config
  BY <1>2 DEF ddhcp_block_init, Config
<1>5. TableOK(c.blocks)
  BY <1>2, <1>3 DEF ddhcp_block_init, TableOK, Allocated
<1>6. ClaimsListed(c)
  BY <1>3, FS_EmptySet DEF ddhcp_block_init, ClaimsListed, InState, Owned
<1> QED
  BY <1>4, <1>5, <1>6 DEF WellFormed
=============================================================================
