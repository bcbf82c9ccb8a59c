----------------------------- MODULE PairProofs -----------------------------
(***************************************************************************)
(* Two daemons without clients on a link that loses nothing: as long as no *)
(* receive buffer overflows, no block is ever owned by both, and each      *)
(* knows of the blocks of the other, for every size of the table, every    *)
(* node id and every choice of timeouts that leaves room for house         *)
(* keeping, and however events, restarts and the clock interleave.         *)
(*                                                                         *)
(* "Without clients" is needed: with them a pair gets two owners for a     *)
(* block, as the run stale_count shows.  Here the number of spare leases   *)
(* changes with the number of blocks alone, a claim stays on the list only *)
(* while it is announced, and none is on it with a finished count.         *)
(***************************************************************************)
EXTENDS LeaseProofs

\* Blocks a daemon without clients needs for its spare leases.
Target == (SpareLeasesNeeded + BlockSize - 1) \div BlockSize

\* The blocks it needs fit into one UPDATECLAIM, and a claim of ours that is
\* not refreshed at one house keeping lives beyond the next.
Steadfast ==
  /\ Target <= UpdateClaimMaxBlocks
  /\ LongestWait < Baseline

Unleased(blk) == \A i \in LeaseIndices : blk.leases[i].state = "FREE"

\* An entry of a daemon without clients: a claim on the list that was lost was
\* lost before its third announcement.
TidyEntry(c, b) ==
  LET blk == c.blocks[b]
  IN /\ Unleased(blk)
     /\ blk.alloc => blk.state = "OURS"
     /\ blk.state = "OURS" => blk.timeout <= BlockTimeout
     /\ blk.state = "CLAIMING" => blk.timeout <= TentativeTimeout
     /\ b \in c.claiming_blocks =>
          /\ blk.claiming_counts >= 1
          /\ blk.state = "CLAIMING" \/ blk.claiming_counts <= 2

\* Its table: it never claims more than it needs, so that a claim on the list
\* is looked at in every house keeping.
Modest(c) ==
  Cardinality(Owned(c)) + Cardinality(c.claiming_blocks) <= Target

Tidy(c) == Modest(c) /\ \A b \in Blocks : TidyEntry(c, b)

\* An entry that says the block is taken.
Taken(blk) == blk.state \in {"TENTATIVE", "CLAIMED"} /\ blk.timeout >= 0

-----------------------------------------------------------------------------
(* Counting *)

\* Division of a multiple and a rest.
LEMMA Quotient ==
  ASSUME NEW q \in Int, NEW d \in Nat \ {0}, NEW r \in 0 .. d - 1
  PROVE  (q * d + r) \div d = q
  OBVIOUS

\* Quotient and remainder of a natural number.
LEMMA Remainder ==
  ASSUME NEW a \in Nat, NEW d \in Nat \ {0}
  PROVE  /\ a \div d \in Nat
         /\ a % d \in 0 .. d - 1
         /\ a = (a \div d) * d + (a % d)
  BY Z3

\* Rounding up: o times B reaches S if and only if o reaches S / B, and what
\* is missing is the difference.
LEMMA RoundUp ==
  ASSUME NEW S \in Nat, NEW B \in Nat \ {0}, NEW o \in Nat, NEW q, NEW gap,
         q = (S + B - 1) \div B, gap = S - o * B
  PROVE  /\ q \in Nat
         /\ gap \in Int
         /\ o < q => gap > 0 /\ (gap + B - 1) \div B = q - o
         /\ o >= q => gap <= 0
<1> DEFINE r == (S + B - 1) % B
<1>1. S + B - 1 \in Nat
  OBVIOUS
<1>2. q \in Nat /\ r \in 0 .. B - 1 /\ S + B - 1 = q * B + r
  BY <1>1, Remainder
<1> HIDE DEF r
<1>3. o * B \in Nat /\ q * B \in Nat /\ gap \in Int
  BY <1>2
<1>4. ASSUME o < q
      PROVE  gap > 0 /\ (gap + B - 1) \div B = q - o
  <2>1. (o + 1) * B <= q * B /\ (o + 1) * B = o * B + B
    BY <1>2, <1>4, Z3
  <2>2. gap > 0
    BY <1>2, <1>3, <2>1
  <2>3. (q - o) * B = q * B - o * B /\ q - o \in Int
    BY <1>2, Z3
  <2>4. gap + B - 1 = (q - o) * B + r
    BY <1>2, <1>3, <2>3
  <2>5. ((q - o) * B + r) \div B = q - o
    BY <1>2, <2>3, Quotient
  <2> QED
    BY <2>2, <2>4, <2>5
<1>5. ASSUME o >= q
      PROVE  gap <= 0
  <2>1. q * B <= o * B
    BY <1>2, <1>5, Z3
  <2> QED
    BY <1>2, <1>3, <2>1
<1> QED
  BY <1>2, <1>3, <1>4, <1>5

\* The number of blocks is a number.
LEMMA TargetType == Target \in Nat
<1>1. SpareLeasesNeeded + BlockSize - 1 \in Nat /\ BlockSize \in Nat \ {0}
  BY SizesAssumption
<1> QED
  BY <1>1, Remainder DEF Target

\* Without clients every lease of ours is free.
LEMMA AllFree ==
  ASSUME NEW c, \A b \in Owned(c) : Unleased(c.blocks[b])
  PROVE  block_num_free_leases(c) = Cardinality(Owned(c)) * BlockSize
<1> DEFINE A == {a \in Addresses : /\ a[1] \in Owned(c)
                                  /\ a[2] \in dhcp_free_leases(c.blocks[a[1]])}
<1>1. Owned(c) \in SUBSET Blocks
  BY DEF Owned, InState
<1>2. \A b \in Owned(c) : dhcp_free_leases(c.blocks[b]) = LeaseIndices
  BY DEF Unleased, dhcp_free_leases
<1>3. A = Owned(c) \X LeaseIndices
  BY <1>1, <1>2 DEF Addresses
<1>4. Cardinality(A) = Cardinality(Owned(c)) * Cardinality(LeaseIndices)
  BY <1>1, <1>3, BlocksFinite, LeasesFinite, FS_Product
<1> QED
  BY <1>4, LeasesFinite DEF block_num_free_leases

\* What house keeping finds missing.
LEMMA Missing ==
  ASSUME NEW c, \A b \in Owned(c) : Unleased(c.blocks[b])
  PROVE  /\ Target \in Nat
         /\ BlocksNeeded(c) \in Int
         /\ Cardinality(Owned(c)) < Target =>
              BlocksNeeded(c) = Target - Cardinality(Owned(c))
         /\ BlocksNeeded(c) > 0 => Cardinality(Owned(c)) < Target
<1> DEFINE o == Cardinality(Owned(c))
           gap == SpareLeasesNeeded - block_num_free_leases(c)
<1>1. /\ SpareLeasesNeeded \in Nat /\ BlockSize \in Nat \ {0} /\ o \in Nat
  BY SizesAssumption, BlocksFinite DEF Owned, InState
<1>2. gap = SpareLeasesNeeded - o * BlockSize
  BY AllFree
<1>3. BlocksNeeded(c) = IF gap > 0 THEN (gap + BlockSize - 1) \div BlockSize
                        ELSE - ((- gap) \div BlockSize)
  BY DEF BlocksNeeded
<1> HIDE DEF gap, o
<1>4. /\ Target \in Nat
      /\ gap \in Int
      /\ o < Target => gap > 0 /\ (gap + BlockSize - 1) \div BlockSize = Target - o
      /\ o >= Target => gap <= 0
  BY <1>1, <1>2, RoundUp DEF Target
<1> HIDE DEF Target
<1>5. CASE gap > 0
  BY <1>1, <1>3, <1>4, <1>5 DEF o
<1>6. CASE ~ (gap > 0)
  <2>1. - gap \in Nat
    BY <1>4, <1>6
  <2>2. (- gap) \div BlockSize \in Nat
    BY <1>1, <2>1, Remainder
  <2> QED
    BY <1>1, <1>3, <1>4, <1>6, <2>2 DEF o
<1> QED
  BY <1>5, <1>6

-----------------------------------------------------------------------------
(* One entry, without clients *)

\* A fresh lease array is free.
LEMMA FreshLeases == \A i \in LeaseIndices : UnusedLeases[i].state = "FREE"
  BY DEF UnusedLeases, UnusedLease

\* block_free keeps the deadline and the count.
LEMMA FreedEntry ==
  ASSUME NEW blk \in Block
  PROVE  /\ block_free(blk).state = "FREE"
         /\ block_free(blk).timeout = blk.timeout
         /\ block_free(blk).claiming_counts = blk.claiming_counts
         /\ ~ block_free(blk).alloc
         /\ Unleased(block_free(blk))
<1>1. /\ block_free(blk).state = "FREE"
      /\ block_free(blk).timeout = blk.timeout
      /\ block_free(blk).claiming_counts = blk.claiming_counts
      /\ ~ block_free(blk).alloc
      /\ block_free(blk).leases = UnusedLeases
  BY DEF block_free, Block
<1> QED
  BY <1>1, FreshLeases DEF Unleased

\* So does block_own.
LEMMA OwnedEntry ==
  ASSUME NEW blk \in Block, Unleased(blk)
  PROVE  /\ block_own(blk).state = "OURS"
         /\ block_own(blk).timeout = blk.timeout
         /\ Unleased(block_own(blk))
<1>1. /\ block_alloc(blk) \in Block
      /\ block_alloc(blk).timeout = blk.timeout
  BY AllocBlock
<1>2. block_alloc(blk).leases = blk.leases \/ block_alloc(blk).leases = UnusedLeases
  BY DEF block_alloc, Block
<1>3. /\ block_own(blk).state = "OURS"
      /\ block_own(blk).timeout = block_alloc(blk).timeout
      /\ block_own(blk).leases = block_alloc(blk).leases
  BY <1>1 DEF block_own, Block
<1> QED
  BY <1>1, <1>2, <1>3, FreshLeases DEF Unleased

\* A claim is started with the tentative timeout.
LEMMA StartedEntry ==
  ASSUME NEW blk \in Block, Unleased(blk)
  PROVE  /\ StartClaim(blk).state = "CLAIMING"
         /\ StartClaim(blk).timeout = TentativeTimeout
         /\ StartClaim(blk).claiming_counts = 0
         /\ StartClaim(blk).alloc = blk.alloc
         /\ Unleased(StartClaim(blk))
<1>1. /\ StartClaim(blk).state = "CLAIMING"
      /\ StartClaim(blk).timeout = TentativeTimeout
      /\ StartClaim(blk).claiming_counts = 0
      /\ StartClaim(blk).alloc = blk.alloc
      /\ StartClaim(blk).leases = blk.leases
  BY DEF StartClaim, Block
<1> QED
  BY <1>1 DEF Unleased

\* An announcement changes the count alone.
LEMMA CountedEntry ==
  ASSUME NEW blk \in Block, Unleased(blk)
  PROVE  /\ CountClaim(blk).state = blk.state
         /\ CountClaim(blk).timeout = blk.timeout
         /\ CountClaim(blk).claiming_counts = blk.claiming_counts + 1
         /\ CountClaim(blk).alloc = blk.alloc
         /\ Unleased(CountClaim(blk))
<1>1. /\ CountClaim(blk).state = blk.state
      /\ CountClaim(blk).timeout = blk.timeout
      /\ CountClaim(blk).claiming_counts = blk.claiming_counts + 1
      /\ CountClaim(blk).alloc = blk.alloc
      /\ CountClaim(blk).leases = blk.leases
  BY DEF CountClaim, Block
<1> QED
  BY <1>1 DEF Unleased

\* What the deadline of an entry does to it: only what has run out, and is
\* not ours, is freed.
TimedOut(old, new) ==
  /\ new.timeout = old.timeout
  /\ new.claiming_counts = old.claiming_counts
  /\ Unleased(new)
  /\ new.alloc => new.state = "OURS"
  /\ \/ new.state = old.state
     \/ old.timeout < 0 /\ old.state \notin {"FREE", "OURS"} /\ new.state = "FREE"

\* block_check_timeouts, for an entry whose leases are free.
LEMMA CheckedEntry ==
  ASSUME NEW blk \in Block, Unleased(blk), blk.alloc => blk.state = "OURS",
         blk.state = "OURS" => blk.timeout >= 0
  PROVE  TimedOut(blk, CheckBlockTimeout(blk))
<1> DEFINE timed == IF blk.timeout < 0 /\ blk.state # "FREE"
                    THEN block_free(blk) ELSE blk
           aged == IF timed.state = "OURS" \/ timed.alloc
                   THEN dhcp_check_timeouts(timed) ELSE timed
           last == IF aged.state # "OURS" /\ aged.alloc /\ dhcp_num_free(aged) = BlockSize
                   THEN block_free(aged) ELSE aged
<1>0. blk.timeout \in Int
  BY DEF Block, Time, Expired
<1>1. timed \in Block /\ TimedOut(blk, timed)
  BY <1>0, FreeBlock, FreedEntry DEF TimedOut
<1> HIDE DEF timed
<1>2. ASSUME NEW i \in LeaseIndices
      PROVE  dhcp_check_timeouts(timed).leases[i].state = "FREE"
  <2> DEFINE ls == [j \in LeaseIndices |->
                      IF LeaseExpired(timed.leases[j])
                      THEN ReleaseLease(timed.leases[j]) ELSE timed.leases[j]]
  <2>1. dhcp_check_timeouts(timed).leases = ls
    BY <1>1 DEF dhcp_check_timeouts, Block
  <2>2. timed.leases[i].state = "FREE"
    BY <1>1 DEF TimedOut, Unleased
  <2>3. ls[i] = timed.leases[i]
    BY <2>2 DEF LeaseExpired
  <2> QED
    BY <2>1, <2>2, <2>3
<1>3. TimedOut(blk, aged)
  BY <1>1, <1>2, ExpireLeases DEF TimedOut, Unleased
<1> HIDE DEF aged
<1>4. last = aged
  BY <1>3 DEF TimedOut
<1>5. CheckBlockTimeout(blk) = last
  BY DEF CheckBlockTimeout, timed, aged
<1> QED
  BY <1>3, <1>4, <1>5

-----------------------------------------------------------------------------
(* House keeping of a daemon without clients *)

\* The table once all deadlines have been looked at.
Reviewed(c, k) ==
  /\ WellFormed(k)
  /\ k.claiming_blocks = c.claiming_blocks
  /\ \A b \in Blocks : TimedOut(c.blocks[b], k.blocks[b])

\* block_check_timeouts reviews the whole table.
LEMMA ReviewedTable ==
  ASSUME NEW c, WellFormed(c), Tidy(c), Lasting(c, 0)
  PROVE  LET k == block_check_timeouts(c)
         IN /\ Reviewed(c, k)
            /\ Reviewed(c, IF k.needless_marks THEN block_unmark_needless(k) ELSE k)
<1> DEFINE k == block_check_timeouts(c)
           u == block_unmark_needless(k)
<1>1. c \in Config /\ TableOK(c.blocks)
  BY DEF WellFormed
<1>2. Quiet(c, k)
  BY <1>1, CheckTimeoutsQuiet
<1>3. k.blocks = [b \in Blocks |-> CheckBlockTimeout(c.blocks[b])]
  BY <1>1 DEF block_check_timeouts, Config
<1>4. ASSUME NEW b \in Blocks
      PROVE  TimedOut(c.blocks[b], k.blocks[b])
  <2>1. /\ c.blocks[b] \in Block
        /\ Unleased(c.blocks[b])
        /\ c.blocks[b].alloc => c.blocks[b].state = "OURS"
        /\ c.blocks[b].state = "OURS" => c.blocks[b].timeout >= 0
    BY <1>1 DEF TableOK, Tidy, TidyEntry, Lasting, Owned, InState
  <2> QED
    BY <1>3, <2>1, CheckedEntry
<1> HIDE DEF k
<1>5. WellFormed(k) /\ k.claiming_blocks = c.claiming_blocks
  BY <1>2, QuietWellFormed DEF Quiet
<1>6. Reviewed(c, k)
  BY <1>4, <1>5 DEF Reviewed
<1>7. k \in Config /\ TableOK(k.blocks)
  BY <1>5 DEF WellFormed
<1>8. Quiet(k, u)
  BY <1>7, UnmarkQuiet
<1>9. u.blocks = [b \in Blocks |-> [k.blocks[b] EXCEPT !.needless_since = NotMarked]]
  BY <1>7 DEF block_unmark_needless, Config
<1>10. ASSUME NEW b \in Blocks
       PROVE  TimedOut(c.blocks[b], u.blocks[b])
  <2>1. k.blocks[b] \in Block
    BY <1>7 DEF TableOK
  <2>2. /\ u.blocks[b].state = k.blocks[b].state
        /\ u.blocks[b].timeout = k.blocks[b].timeout
        /\ u.blocks[b].claiming_counts = k.blocks[b].claiming_counts
        /\ u.blocks[b].alloc = k.blocks[b].alloc
        /\ u.blocks[b].leases = k.blocks[b].leases
    BY <1>9, <2>1 DEF Block
  <2> QED
    BY <1>4, <2>2 DEF TimedOut, Unleased
<1> HIDE DEF u
<1>11. Reviewed(c, u)
  BY <1>5, <1>8, <1>10, QuietWellFormed DEF Reviewed, Quiet
<1> QED
  BY <1>6, <1>11 DEF k, u

\* What house keeping may make of an entry, but for the refresh of claims.
Moved(old, new) ==
  \/ new.state = "FREE" /\ ~ Taken(old)
  \/ /\ new.state \in {"TENTATIVE", "CLAIMED"}
     /\ new.state = old.state /\ new.timeout = old.timeout
  \/ /\ new.state = "CLAIMING" /\ old.state = "CLAIMING"
     /\ new.timeout = old.timeout
     /\ new.claiming_counts = old.claiming_counts + 1
  \/ /\ new.state = "CLAIMING" /\ old.state # "OURS" /\ ~ Taken(old)
     /\ new.timeout = TentativeTimeout
     /\ new.claiming_counts = 1
  \/ /\ new.state = "OURS"
     /\ old.state = "OURS" \/ (old.state = "CLAIMING" /\ old.claiming_counts = 3)
     /\ new.timeout = old.timeout

\* The table after claims have been finished, started and announced.
Adjusted(c, d) ==
  /\ WellFormed(d)
  /\ Modest(d)
  /\ \A b \in Blocks : /\ Moved(c.blocks[b], d.blocks[b])
                       /\ Unleased(d.blocks[b])
                       /\ d.blocks[b].alloc => d.blocks[b].state = "OURS"
  /\ \A b \in d.claiming_blocks : /\ d.blocks[b].state = "CLAIMING"
                                  /\ d.blocks[b].claiming_counts >= 1

\* The claims on the list are announced in one packet.
Announcement(n, d) ==
  IF d.claiming_blocks = {} THEN << >>
  ELSE <<new_ddhcp_packet("INQUIRE", n, d.claiming_blocks)>>

\* The first loop of block_claim, entry by entry.
LEMMA FinishEntries ==
  ASSUME NEW k, WellFormed(k)
  PROVE  LET r == FinishClaims(k)
         IN /\ r.claiming_blocks = k.claiming_blocks \ (ClaimsDone(k) \cup ClaimsLost(k))
            /\ \A b \in Blocks : r.blocks[b] = IF b \in ClaimsDone(k)
                                               THEN block_own(k.blocks[b])
                                               ELSE k.blocks[b]
<1>1. k \in Config
  BY DEF WellFormed
<1> QED
  BY <1>1 DEF FinishClaims, Config

\* Counting an announcement, entry by entry.
LEMMA CountEntries ==
  ASSUME NEW k, WellFormed(k)
  PROVE  LET r == CountClaims(k)
         IN \A b \in Blocks : r.blocks[b] = IF b \in k.claiming_blocks
                                            THEN CountClaim(k.blocks[b])
                                            ELSE k.blocks[b]
<1>1. k \in Config
  BY DEF WellFormed
<1> QED
  BY <1>1 DEF CountClaims, Config

\* Starting claims, entry by entry.
LEMMA StartEntries ==
  ASSUME NEW k, WellFormed(k), NEW new
  PROVE  LET r == StartClaims(k, new)
         IN /\ r.claiming_blocks = k.claiming_blocks \cup new
            /\ \A b \in Blocks : r.blocks[b] = IF b \in new
                                               THEN StartClaim(k.blocks[b])
                                               ELSE k.blocks[b]
<1>1. k \in Config
  BY DEF WellFormed
<1> QED
  BY <1>1 DEF StartClaims, Config

\* An announcement that is sent.
LEMMA Announces ==
  ASSUME NEW s, WellFormed(s), NEW n, NEW o \in Inquire(n, s, {TRUE})
  PROVE  /\ o.config.claiming_blocks = s.claiming_blocks
         /\ o.sent = Announcement(n, o.config)
         /\ \A b \in Blocks : o.config.blocks[b] = IF b \in s.claiming_blocks
                                                   THEN CountClaim(s.blocks[b])
                                                   ELSE s.blocks[b]
<1> DEFINE p == <<new_ddhcp_packet("INQUIRE", n, s.claiming_blocks)>>
<1>1. /\ s \in Config
      /\ s.claiming_blocks \in SUBSET Blocks
      /\ s.claiming_blocks_amount = Cardinality(s.claiming_blocks)
  BY DEF WellFormed, Config, ClaimsListed
<1>2. IsFiniteSet(s.claiming_blocks) /\ Cardinality(s.claiming_blocks) \in Nat
  BY <1>1, BlocksFinite
<1>3. s.claiming_blocks_amount < 1 <=> s.claiming_blocks = {}
  BY <1>1, <1>2, FS_EmptySet
<1>4. CASE s.claiming_blocks = {}
  <2>1. o = Outcome(s, << >>)
    BY <1>3, <1>4 DEF Inquire
  <2> QED
    BY <1>4, <2>1 DEF Outcome, Announcement
<1>5. CASE s.claiming_blocks # {}
  <2>1. o = Outcome(CountClaims(s), p)
    BY <1>3, <1>5 DEF Inquire
  <2>2. o.config = CountClaims(s) /\ o.sent = p
    BY <2>1 DEF Outcome
  <2>3. CountClaims(s).claiming_blocks = s.claiming_blocks
    BY <1>1 DEF CountClaims, Config
  <2> QED
    BY <1>5, <2>2, <2>3, CountEntries DEF Announcement
<1> QED
  BY <1>4, <1>5

\* block_claim never asks for more than is missing.
LEMMA ClaimModest ==
  ASSUME NEW k, WellFormed(k), Modest(k), Target \in Nat, Cardinality(Owned(k)) < Target,
         NEW new \in block_find_free(BlocksToFind(Target - Cardinality(Owned(k))
                                                     - Cardinality(ClaimsDone(k)),
                                                  FinishClaims(k)),
                                     FinishClaims(k))
  PROVE  Modest(StartClaims(FinishClaims(k), new))
<1> DEFINE r == FinishClaims(k)
           s == StartClaims(r, new)
           D == ClaimsDone(k)
           L == ClaimsLost(k)
           own == Cardinality(Owned(k))
           num == Target - own - Cardinality(D)
           left == Cardinality(r.claiming_blocks)
           more == Cardinality(new)
<1>1. k.claiming_blocks \in SUBSET Blocks /\ ClaimsListed(k)
  BY DEF WellFormed, Config
<1>2. D \subseteq k.claiming_blocks /\ L \subseteq k.claiming_blocks /\ D \cap L = {}
  BY DEF ClaimsDone, ClaimsLost
<1>3. WellFormed(r) /\ UnderWay(r)
  BY FinishClaimsOK
<1>4. Owned(r) = Owned(k) \cup D
  <2>1. D = Done(k)
    BY <1>1, AnnouncedValues DEF ClaimsDone, Done
  <2> QED
    BY <2>1, FinishRound
<1>5. r.claiming_blocks = k.claiming_blocks \ (D \cup L)
  BY FinishEntries
<1>6. new \in SUBSET InState(r, "FREE") /\ new \in SUBSET Blocks
  BY DEF block_find_free, InState
<1>7. r.claiming_blocks_amount = left
  BY <1>3 DEF WellFormed, ClaimsListed
<1>8. more = BlocksToFind(num, r) \/ more < BlocksToFind(num, r)
  BY DEF block_find_free
<1> HIDE DEF r, D, L
<1>9. Owned(s) = Owned(r) /\ s.claiming_blocks = r.claiming_blocks \cup new
  BY <1>3, <1>6, StartRound
<1> SUFFICES Modest(s)
  BY DEF s, r
<1> HIDE DEF s
<1>10. /\ own \in Nat /\ Cardinality(D) \in Nat /\ left \in Nat /\ more \in Nat
       /\ IsFiniteSet(D) /\ IsFiniteSet(Owned(k)) /\ IsFiniteSet(r.claiming_blocks)
       /\ IsFiniteSet(new) /\ IsFiniteSet(k.claiming_blocks)
       /\ Cardinality(L) \in Nat /\ Cardinality(k.claiming_blocks) \in Nat
  BY <1>1, <1>2, <1>5, <1>6, BlocksFinite DEF Owned, InState
<1>11. Cardinality(Owned(s)) = own + Cardinality(D)
  <2>1. Owned(k) \cap D = {}
    BY <1>1, <1>2 DEF ClaimsListed
  <2>2. Cardinality(Owned(k) \cup D) = own + Cardinality(D) - Cardinality(Owned(k) \cap D)
    BY <1>10, FS_Union
  <2>3. Cardinality(Owned(k) \cap D) = 0
    BY <2>1, FS_EmptySet
  <2>4. Owned(s) = Owned(k) \cup D
    BY <1>4, <1>9
  <2> QED
    BY <1>10, <2>2, <2>3, <2>4
<1>12. Cardinality(s.claiming_blocks) = left + more
  <2>1. r.claiming_blocks \cap new = {}
    BY <1>3, <1>6 DEF UnderWay, InState
  <2>2. Cardinality(r.claiming_blocks \cup new)
          = left + more - Cardinality(r.claiming_blocks \cap new)
    BY <1>10, FS_Union
  <2>3. Cardinality(r.claiming_blocks \cap new) = 0
    BY <2>1, FS_EmptySet
  <2> QED
    BY <1>9, <1>10, <2>2, <2>3
<1>13. left = Cardinality(k.claiming_blocks) - Cardinality(D) - Cardinality(L)
  BY <1>2, <1>5, <1>10, Remaining
<1> DEFINE done == Cardinality(D)
           lost == Cardinality(L)
           listed == Cardinality(k.claiming_blocks)
<1> HIDE DEF own, left, more, done, lost, listed
<1>14. own + done + left + more <= Target => Modest(s)
  <2>1. Cardinality(Owned(s)) = own + done /\ Cardinality(s.claiming_blocks) = left + more
    BY <1>11, <1>12 DEF own, left, more, done
  <2>2. own \in Nat /\ done \in Nat /\ left \in Nat /\ more \in Nat
    BY <1>10 DEF own, left, more, done
  <2> QED
    BY <2>1, <2>2 DEF Modest
<1>15. CASE num > left
  <2>1. more <= num - left
    BY <1>7, <1>8, <1>10, <1>15 DEF BlocksToFind, own, left, more
  <2> QED
    BY <1>10, <1>15, <1>14, <2>1 DEF own, left, more, done
<1>16. CASE ~ (num > left)
  <2>1. more = 0
    BY <1>7, <1>8, <1>10, <1>16 DEF BlocksToFind, own, left, more
  <2>3. own + listed <= Target
    BY DEF Modest, own, listed
  <2>4. left = listed - done - lost
    BY <1>13 DEF left, done, lost, listed
  <2>5. own \in Nat /\ done \in Nat /\ lost \in Nat /\ listed \in Nat
    BY <1>10 DEF own, done, lost, listed
  <2> QED
    BY <1>14, <2>1, <2>3, <2>4, <2>5
<1> QED
  BY <1>15, <1>16

\* Deadlines take no block of ours away.
LEMMA ReviewedOwned ==
  ASSUME NEW c, NEW k, Tidy(c), Reviewed(c, k)
  PROVE  Owned(k) = Owned(c) /\ Modest(k) /\ \A b \in Owned(k) : Unleased(k.blocks[b])
<1>1. Owned(k) = Owned(c)
  BY DEF Reviewed, TimedOut, Owned, InState
<1> QED
  BY <1>1 DEF Tidy, Modest, Reviewed, TimedOut, Owned, InState

\* block_claim, when blocks are missing.
LEMMA ClaimAdjusts ==
  ASSUME NEW c, WellFormed(c), Tidy(c), NEW k, Reviewed(c, k), NEW n \in Nodes,
         Target \in Nat, Cardinality(Owned(k)) < Target,
         NEW o \in block_claim(n, Target - Cardinality(Owned(k)), k, {TRUE})
  PROVE  Adjusted(c, o.config) /\ o.sent = Announcement(n, o.config)
<1> DEFINE rest == FinishClaims(k)
           D == ClaimsDone(k)
           d == o.config
<1>1. PICK new \in block_find_free(BlocksToFind(Target - Cardinality(Owned(k))
                                                  - Cardinality(D), rest), rest) :
        o \in Inquire(n, StartClaims(rest, new), {TRUE})
  BY DEF block_claim
<1>2. new \in SUBSET InState(rest, "FREE")
  BY DEF block_find_free
<1>3. WellFormed(k) /\ Modest(k)
  BY ReviewedOwned DEF Reviewed
<1>4. WellFormed(rest) /\ UnderWay(rest)
  BY <1>3, FinishClaimsOK
<1> DEFINE s == StartClaims(rest, new)
<1>5. Modest(s)
  BY <1>3, ClaimModest
<1>6. /\ rest.claiming_blocks = k.claiming_blocks \ (D \cup ClaimsLost(k))
      /\ \A b \in Blocks : rest.blocks[b] = IF b \in D THEN block_own(k.blocks[b])
                                            ELSE k.blocks[b]
  BY <1>3, FinishEntries
<1> HIDE DEF rest
<1>7. WellFormed(s) /\ UnderWay(s)
  BY <1>2, <1>4, StartClaimsOK
<1>8. /\ s.claiming_blocks = rest.claiming_blocks \cup new
      /\ \A b \in Blocks : s.blocks[b] = IF b \in new THEN StartClaim(rest.blocks[b])
                                         ELSE rest.blocks[b]
  BY <1>4, StartEntries
<1>9. WellFormed(d)
  BY <1>3, ClaimOK
<1>10. /\ d.claiming_blocks = s.claiming_blocks
       /\ o.sent = Announcement(n, d)
       /\ \A b \in Blocks : d.blocks[b] = IF b \in s.claiming_blocks
                                          THEN CountClaim(s.blocks[b]) ELSE s.blocks[b]
  BY <1>1, <1>7, Announces
<1> HIDE DEF s, d
<1>11. ASSUME NEW b \in Blocks
       PROVE  /\ Moved(c.blocks[b], d.blocks[b])
              /\ Unleased(d.blocks[b])
              /\ d.blocks[b].alloc => d.blocks[b].state = "OURS"
              /\ b \in d.claiming_blocks => /\ d.blocks[b].state = "CLAIMING"
                                            /\ d.blocks[b].claiming_counts >= 1
  <2> DEFINE old == c.blocks[b]
             mid == k.blocks[b]
             end == d.blocks[b]
  <2>1. old \in Block /\ mid \in Block /\ s.blocks[b] \in Block /\ rest.blocks[b] \in Block
    BY <1>3, <1>4, <1>7 DEF WellFormed, TableOK
  <2>2. TimedOut(old, mid) /\ TidyEntry(c, b) /\ k.claiming_blocks = c.claiming_blocks
    BY DEF Reviewed, Tidy
  <2>3. D \subseteq k.claiming_blocks /\ (b \in D => mid.claiming_counts = 3)
    BY DEF ClaimsDone
  <2>4. CASE b \in D
    <3>1. rest.blocks[b] = block_own(mid)
      BY <1>6, <2>4
    <3>2. /\ rest.blocks[b].state = "OURS" /\ rest.blocks[b].timeout = mid.timeout
          /\ Unleased(rest.blocks[b])
      BY <2>1, <2>2, <3>1, OwnedEntry DEF TimedOut
    <3>3. b \notin new
      BY <1>2, <3>2 DEF InState
    <3>4. b \notin s.claiming_blocks
      BY <1>6, <1>8, <2>4, <3>3
    <3>5. end = rest.blocks[b]
      BY <1>8, <1>10, <3>3, <3>4
    <3>6. old.state = "CLAIMING" /\ old.claiming_counts = 3
      BY <2>2, <2>3, <2>4 DEF TimedOut, TidyEntry
    <3> HIDE DEF old, end, mid
    <3>7. Moved(old, end)
      BY <2>2, <3>2, <3>5, <3>6 DEF Moved, TimedOut
    <3> QED
      BY <1>10, <3>2, <3>4, <3>5, <3>7 DEF old, end
  <2>5. CASE b \in new
    <3>1. rest.blocks[b].state = "FREE" /\ b \notin D
      BY <1>2, <1>6, <2>1, OwnBlock, <2>5 DEF InState
    <3>2. rest.blocks[b] = mid
      BY <1>6, <3>1
    <3>3. s.blocks[b] = StartClaim(mid) /\ b \in s.claiming_blocks
      BY <1>8, <2>5, <3>2
    <3>4. end = CountClaim(s.blocks[b])
      BY <1>10, <3>3
    <3>5. /\ s.blocks[b].state = "CLAIMING" /\ s.blocks[b].timeout = TentativeTimeout
          /\ s.blocks[b].claiming_counts = 0 /\ s.blocks[b].alloc = mid.alloc
          /\ Unleased(s.blocks[b])
      BY <2>1, <2>2, <3>3, StartedEntry DEF TimedOut
    <3>6. /\ end.state = "CLAIMING" /\ end.timeout = TentativeTimeout
          /\ end.claiming_counts = 1 /\ end.alloc = mid.alloc
          /\ Unleased(end)
      BY <2>1, <3>4, <3>5, CountedEntry
    <3>7. old.state # "OURS" /\ ~ Taken(old) /\ ~ mid.alloc
      BY <2>1, <2>2, <3>1, <3>2 DEF TimedOut, Taken, Block, Time, Expired
    <3> HIDE DEF old, end, mid
    <3>8. Moved(old, end)
      BY <3>6, <3>7 DEF Moved
    <3> QED
      BY <3>6, <3>7, <3>8 DEF old, end
  <2>6. CASE b \notin D /\ b \notin new
    <3>1. s.blocks[b] = mid
      BY <1>6, <1>8, <2>6
    <3>2. CASE b \in s.claiming_blocks
      <4>1. end = CountClaim(mid) /\ mid.state = "CLAIMING"
        BY <1>7, <1>10, <3>1, <3>2 DEF UnderWay
      <4>2. /\ end.state = "CLAIMING" /\ end.timeout = mid.timeout
            /\ end.claiming_counts = mid.claiming_counts + 1 /\ end.alloc = mid.alloc
            /\ Unleased(end)
        BY <2>1, <2>2, <4>1, CountedEntry DEF TimedOut
      <4>3. mid.claiming_counts \in 0 .. 3 /\ end.claiming_counts >= 1
        BY <2>1, <4>2 DEF Block
      <4>4. old.state = "CLAIMING" /\ ~ mid.alloc
        BY <2>2, <4>1 DEF TimedOut
      <4> HIDE DEF old, end, mid
      <4>5. Moved(old, end)
        BY <2>2, <4>2, <4>4 DEF Moved, TimedOut
      <4> QED
        BY <4>2, <4>3, <4>4, <4>5 DEF old, end
    <3>3. CASE b \notin s.claiming_blocks
      <4>1. end = mid
        BY <1>10, <3>1, <3>3
      <4>2. mid.state # "CLAIMING"
        BY <1>7, <3>1, <3>3 DEF WellFormed, ClaimsListed, InState
      <4>3. mid.state \in {"FREE", "TENTATIVE", "CLAIMED", "OURS"}
        BY <2>1, <4>2 DEF Block, BlockStates
      <4> HIDE DEF old, end, mid
      <4>4. mid.state = "FREE" => ~ Taken(old)
        BY <2>1, <2>2 DEF TimedOut, Taken, Block, Time, Expired
      <4>5. Moved(old, end)
        BY <2>2, <4>1, <4>3, <4>4 DEF Moved, TimedOut
      <4> QED
        BY <1>10, <2>2, <3>3, <4>1, <4>5 DEF old, end, TimedOut
    <3> QED
      BY <3>2, <3>3
  <2> QED
    BY <2>4, <2>5, <2>6
<1>12. Owned(d) = Owned(s)
  BY <1>7, <1>10, CountedEntry, <1>11 DEF Owned, InState, UnderWay
<1>13. Modest(d)
  BY <1>5, <1>10, <1>12 DEF Modest
<1>14. d.claiming_blocks \subseteq Blocks
  BY <1>9 DEF WellFormed, Config
<1> QED
  BY <1>9, <1>10, <1>11, <1>13, <1>14 DEF Adjusted, d

\* Without claims, house keeping may give up blocks of ours and nothing else.
LEMMA IdleAdjusts ==
  ASSUME NEW c, WellFormed(c), Modest(c), NEW k, Reviewed(c, k), k.claiming_blocks = {},
         NEW d, WellFormed(d), d.claiming_blocks = {},
         \A b \in Blocks :
           \/ /\ d.blocks[b].state = k.blocks[b].state
              /\ d.blocks[b].timeout = k.blocks[b].timeout
              /\ d.blocks[b].alloc = k.blocks[b].alloc
              /\ d.blocks[b].leases = k.blocks[b].leases
           \/ /\ k.blocks[b].state = "OURS" /\ d.blocks[b].state = "FREE"
              /\ ~ d.blocks[b].alloc /\ Unleased(d.blocks[b])
  PROVE  Adjusted(c, d)
<1>1. ASSUME NEW b \in Blocks
      PROVE  /\ Moved(c.blocks[b], d.blocks[b])
             /\ Unleased(d.blocks[b])
             /\ d.blocks[b].alloc => d.blocks[b].state = "OURS"
  <2> DEFINE old == c.blocks[b]
             mid == k.blocks[b]
             end == d.blocks[b]
  <2>1. old \in Block /\ mid \in Block
    BY DEF WellFormed, TableOK, Reviewed
  <2>2. TimedOut(old, mid)
    BY DEF Reviewed
  <2>3. mid.state # "CLAIMING"
    BY DEF Reviewed, WellFormed, ClaimsListed, InState
  <2>4. mid.state \in {"FREE", "TENTATIVE", "CLAIMED", "OURS"}
    BY <2>1, <2>3 DEF Block, BlockStates
  <2>5. mid.state = "FREE" => ~ Taken(old)
    BY <2>1, <2>2 DEF TimedOut, Taken, Block, Time, Expired
  <2>6. CASE /\ end.state = mid.state /\ end.timeout = mid.timeout
             /\ end.alloc = mid.alloc /\ end.leases = mid.leases
    <3>1. Moved(old, end)
      BY <2>2, <2>4, <2>5, <2>6 DEF Moved, TimedOut
    <3>2. Unleased(end)
      BY <2>2, <2>6 DEF TimedOut, Unleased
    <3> QED
      BY <2>2, <2>6, <3>1, <3>2 DEF TimedOut
  <2>7. CASE /\ mid.state = "OURS" /\ end.state = "FREE"
             /\ ~ end.alloc /\ Unleased(end)
    <3>1. ~ Taken(old)
      BY <2>2, <2>7 DEF TimedOut, Taken
    <3> QED
      BY <2>7, <3>1 DEF Moved
  <2> QED
    BY <2>6, <2>7
<1>2. Owned(d) \subseteq Owned(c) /\ c.claiming_blocks = {}
  BY DEF Reviewed, TimedOut, Owned, InState
<1>3. IsFiniteSet(Owned(c)) /\ IsFiniteSet(Owned(d))
      /\ Cardinality(Owned(c)) \in Nat /\ Cardinality(Owned(d)) \in Nat
  BY BlocksFinite DEF Owned, InState
<1>4. Cardinality(Owned(d)) <= Cardinality(Owned(c))
  BY <1>2, <1>3, FS_Subset
<1>5. Cardinality({}) = 0
  BY FS_EmptySet
<1>6. Modest(d)
  BY <1>2, <1>3, <1>4, <1>5, TargetType DEF Modest
<1> QED
  BY <1>1, <1>6 DEF Adjusted

\* block_drop_unused.
LEMMA DropAdjusts ==
  ASSUME NEW c, WellFormed(c), Modest(c), NEW k, Reviewed(c, k), k.claiming_blocks = {},
         NEW d \in block_drop_unused(k)
  PROVE  Adjusted(c, d) /\ d.claiming_blocks = {}
<1>1. WellFormed(k) /\ k \in Config /\ TableOK(k.blocks)
  BY DEF Reviewed, WellFormed
<1>2. Quiet(k, d)
  BY <1>1, DropQuiet
<1>3. WellFormed(d) /\ d.claiming_blocks = {}
  BY <1>1, <1>2, QuietWellFormed DEF Quiet
<1>4. \A b \in Blocks :
           \/ /\ d.blocks[b].state = k.blocks[b].state
              /\ d.blocks[b].timeout = k.blocks[b].timeout
              /\ d.blocks[b].alloc = k.blocks[b].alloc
              /\ d.blocks[b].leases = k.blocks[b].leases
           \/ /\ k.blocks[b].state = "OURS" /\ d.blocks[b].state = "FREE"
              /\ ~ d.blocks[b].alloc /\ Unleased(d.blocks[b])
  <2>1. CASE d = k
    BY <2>1
  <2>2. ASSUME NEW e \in Owned(k), d = DropOrMark(k, e), d # k,
               NEW b \in Blocks
        PROVE  \/ /\ d.blocks[b].state = k.blocks[b].state
                  /\ d.blocks[b].timeout = k.blocks[b].timeout
                  /\ d.blocks[b].alloc = k.blocks[b].alloc
                  /\ d.blocks[b].leases = k.blocks[b].leases
               \/ /\ k.blocks[b].state = "OURS" /\ d.blocks[b].state = "FREE"
                  /\ ~ d.blocks[b].alloc /\ Unleased(d.blocks[b])
    <3> DEFINE blk == k.blocks[e]
               marked == [blk EXCEPT !.needless_since = 0]
    <3>1. e \in Blocks /\ blk.state = "OURS" /\ blk \in Block /\ k.blocks \in [Blocks -> Block]
      BY <1>1 DEF Owned, InState, TableOK
    <3>2. \/ d.blocks = [k.blocks EXCEPT ![e] = marked]
          \/ d.blocks = [k.blocks EXCEPT ![e] = block_free(blk)]
      <4>1. CASE blk.needless_since = NotMarked
        <5>1. d = [k EXCEPT !.blocks[e].needless_since = 0, !.needless_marks = TRUE]
          BY <2>2, <4>1 DEF DropOrMark
        <5> QED
          BY <1>1, <3>1, <5>1 DEF Config
      <4>2. CASE blk.needless_since # NotMarked /\ blk.needless_since >= NeedlessTimeout
        <5>1. d = [k EXCEPT !.blocks[e] = block_free(blk), !.needless_marks = FALSE]
          BY <2>2, <4>2 DEF DropOrMark
        <5> QED
          BY <1>1, <3>1, <5>1 DEF Config
      <4>3. CASE ~ (\/ blk.needless_since = NotMarked
                    \/ blk.needless_since # NotMarked /\ blk.needless_since >= NeedlessTimeout)
        BY <2>2, <4>3 DEF DropOrMark
      <4> QED
        BY <4>1, <4>2, <4>3
    <3>3. /\ marked.state = blk.state /\ marked.timeout = blk.timeout
          /\ marked.alloc = blk.alloc /\ marked.leases = blk.leases
      BY <3>1 DEF Block
    <3>4. /\ block_free(blk).state = "FREE" /\ ~ block_free(blk).alloc
          /\ Unleased(block_free(blk))
      BY <3>1, FreedEntry
    <3> QED
      BY <3>1, <3>2, <3>3, <3>4
  <2>3. DropCandidates(k) \subseteq Owned(k)
    BY DEF DropCandidates, Youngest
  <2>4. d = k \/ \E e \in DropCandidates(k) : d = DropOrMark(k, e)
    BY DEF block_drop_unused
  <2> QED
    BY <2>1, <2>2, <2>3, <2>4
<1> QED
  BY <1>3, <1>4, IdleAdjusts

\* Dropping, keeping or claiming: the first half of house keeping.
LEMMA AdjustBlocksOK ==
  ASSUME NEW c, WellFormed(c), Tidy(c), Lasting(c, 0), NEW n \in Nodes,
         NEW a \in AdjustBlocks(n, block_check_timeouts(c), {TRUE})
  PROVE  Adjusted(c, a.config) /\ a.sent = Announcement(n, a.config)
<1> DEFINE k == block_check_timeouts(c)
           kept == IF k.needless_marks THEN block_unmark_needless(k) ELSE k
<1>1. Reviewed(c, k) /\ Reviewed(c, kept)
  BY ReviewedTable
<1>2. Owned(k) = Owned(c) /\ Owned(kept) = Owned(c)
      /\ \A b \in Owned(k) : Unleased(k.blocks[b])
  BY <1>1, ReviewedOwned
<1>3. k.claiming_blocks = c.claiming_blocks /\ kept.claiming_blocks = c.claiming_blocks
  BY <1>1 DEF Reviewed
<1>4. /\ BlocksNeeded(k) < 0 => a \in {Outcome(d, << >>) : d \in block_drop_unused(k)}
      /\ BlocksNeeded(k) > 0 => a \in block_claim(n, BlocksNeeded(k), kept, {TRUE})
      /\ ~ (BlocksNeeded(k) < 0) /\ ~ (BlocksNeeded(k) > 0) => a = Outcome(kept, << >>)
  BY <1>2, Missing DEF AdjustBlocks
<1> HIDE DEF k, kept
<1>5. /\ Target \in Nat /\ BlocksNeeded(k) \in Int
      /\ Cardinality(Owned(k)) < Target => BlocksNeeded(k) = Target - Cardinality(Owned(k))
      /\ BlocksNeeded(k) > 0 => Cardinality(Owned(k)) < Target
  BY <1>2, Missing
<1>6. ASSUME ~ (BlocksNeeded(k) > 0)
      PROVE  c.claiming_blocks = {}
  <2>1. SUFFICES ASSUME c.claiming_blocks # {} PROVE FALSE
    OBVIOUS
  <2>2. /\ IsFiniteSet(c.claiming_blocks)
        /\ Cardinality(c.claiming_blocks) \in Nat /\ Cardinality(Owned(c)) \in Nat
    BY BlocksFinite DEF WellFormed, Config, Owned, InState
  <2>3. Cardinality(c.claiming_blocks) # 0
    BY <2>1, <2>2, FS_EmptySet
  <2>4. Cardinality(Owned(c)) + Cardinality(c.claiming_blocks) <= Target
    BY <2>1 DEF Tidy, Modest
  <2>5. Cardinality(Owned(c)) < Target
    BY <1>5, <2>2, <2>3, <2>4
  <2> QED
    BY <1>2, <1>5, <1>6, <2>2, <2>5
<1>7. CASE BlocksNeeded(k) > 0
  <2>1. a \in block_claim(n, Target - Cardinality(Owned(kept)), kept, {TRUE})
    BY <1>2, <1>4, <1>5, <1>7
  <2>2. Cardinality(Owned(kept)) < Target
    BY <1>2, <1>5, <1>7
  <2> QED
    BY <1>1, <1>5, <2>1, <2>2, ClaimAdjusts
<1>8. CASE BlocksNeeded(k) < 0
  <2>1. PICK d \in block_drop_unused(k) : a = Outcome(d, << >>)
    BY <1>4, <1>8
  <2>2. c.claiming_blocks = {}
    BY <1>5, <1>6, <1>8
  <2>3. Adjusted(c, d) /\ d.claiming_blocks = {}
    BY <1>1, <1>3, <2>2, DropAdjusts DEF Tidy
  <2> QED
    BY <2>1, <2>3 DEF Outcome, Announcement
<1>9. CASE ~ (BlocksNeeded(k) < 0) /\ ~ (BlocksNeeded(k) > 0)
  <2>1. a = Outcome(kept, << >>) /\ c.claiming_blocks = {}
    BY <1>4, <1>6, <1>9
  <2>2. Adjusted(c, kept)
    BY <1>1, <1>3, <2>1, IdleAdjusts DEF Reviewed, Tidy
  <2> QED
    BY <1>3, <2>1, <2>2 DEF Outcome, Announcement
<1> QED
  BY <1>7, <1>8, <1>9

\* A daemon that claims no more than it needs announces its blocks in one
\* packet.
LEMMA ModestFits ==
  ASSUME Steadfast, NEW c, WellFormed(c), Modest(c)
  PROVE  Cardinality(Owned(c)) <= UpdateClaimMaxBlocks
<1>1. Cardinality(Owned(c)) \in Nat /\ Cardinality(c.claiming_blocks) \in Nat
  BY BlocksFinite DEF Owned, InState, WellFormed, Config
<1> QED
  BY <1>1, TargetType, SizesAssumption DEF Steadfast, Modest

\* All blocks of ours fit into the first packet.
LEMMA OnePacket ==
  ASSUME NEW c, Cardinality(Owned(c)) <= UpdateClaimMaxBlocks, NEW b \in Owned(c)
  PROVE  PacketOf(c, b) = 0
<1> DEFINE S == {d \in Owned(c) : d < b}
           U == UpdateClaimMaxBlocks
<1>1. U \in Nat \ {0} /\ b \in Int
  BY SizesAssumption DEF Owned, InState, Blocks
<1>2. S \in SUBSET Owned(c) /\ S # Owned(c)
  BY <1>1
<1>3. IsFiniteSet(Owned(c)) /\ Cardinality(Owned(c)) \in Nat
  BY BlocksFinite DEF Owned, InState
<1>4. Cardinality(S) \in Nat /\ Cardinality(S) < Cardinality(Owned(c))
  BY <1>2, <1>3, FS_Subset, FS_CardinalityType
<1> DEFINE r == Cardinality(S)
<1> HIDE DEF S
<1>5. r \in 0 .. U - 1
  BY <1>1, <1>3, <1>4
<1> HIDE DEF r
<1>6. (0 * U + r) \div U = 0
  BY <1>1, <1>5, Quotient
<1>7. 0 * U + r = r
  BY <1>1, <1>5
<1> QED
  BY <1>6, <1>7 DEF PacketOf, r, S

\* The claims of ours, in one packet, when one of them is due.
AllClaims(n, d) == <<new_ddhcp_packet("UPDATECLAIM", n, Owned(d))>>

Renewal(n, d, due) == IF due THEN AllClaims(n, d) ELSE << >>

RefreshDue(c) == \E b \in Owned(c) : c.blocks[b].timeout < Baseline

\* block_update_claims renews all claims of ours or finds none due.
LEMMA UpdatesAll ==
  ASSUME NEW c \in Config, TableOK(c.blocks), NEW n, Cardinality(Owned(c)) <= UpdateClaimMaxBlocks,
         NEW o \in block_update_claims(n, c, {TRUE})
  PROVE  /\ o.sent = Renewal(n, c, RefreshDue(c))
         /\ o.config.claiming_blocks = c.claiming_blocks
         /\ \A b \in Blocks :
              LET old == c.blocks[b]
                  new == o.config.blocks[b]
              IN /\ new.state = old.state
                 /\ new.claiming_counts = old.claiming_counts
                 /\ new.alloc = old.alloc
                 /\ new.leases = old.leases
                 /\ new.timeout = IF old.state = "OURS" /\ RefreshDue(c)
                                  THEN BlockTimeout ELSE old.timeout
<1> DEFINE P == PacketsDue(c)
<1>1. o \in UpdateClaims(n, c, P)
  BY DEF block_update_claims
<1>2. PICK f \in Ascending(P) :
        o = Outcome(Refresh(c, P),
                    [i \in 1 .. Cardinality(P) |->
                       new_ddhcp_packet("UPDATECLAIM", n, InPacket(c, f[i]))])
  BY <1>1 DEF UpdateClaims
<1>3. o.config = Refresh(c, P)
      /\ o.sent = [i \in 1 .. Cardinality(P) |->
                     new_ddhcp_packet("UPDATECLAIM", n, InPacket(c, f[i]))]
  BY <1>2 DEF Outcome
<1>4. \A b \in Owned(c) : PacketOf(c, b) = 0
  BY OnePacket
<1>5. P = IF RefreshDue(c) THEN {0} ELSE {}
  BY <1>4 DEF PacketsDue, RefreshDue
<1>6. InPacket(c, 0) = Owned(c)
  BY <1>4 DEF InPacket
<1>7. o.sent = Renewal(n, c, RefreshDue(c))
  <2>1. CASE RefreshDue(c)
    <3>1. P = {0} /\ Cardinality(P) = 1
      BY <1>5, <2>1, FS_Singleton
    <3>2. f[1] = 0
      BY <3>1 DEF Ascending
    <3>3. o.sent = [i \in 1 .. 1 |-> new_ddhcp_packet("UPDATECLAIM", n, InPacket(c, f[i]))]
      BY <1>3, <3>1
    <3>4. o.sent = <<new_ddhcp_packet("UPDATECLAIM", n, Owned(c))>>
      BY <1>6, <3>2, <3>3
    <3> QED
      BY <2>1, <3>4 DEF Renewal, AllClaims
  <2>2. CASE ~ RefreshDue(c)
    <3>1. Cardinality(P) = 0
      BY <1>5, <2>2, FS_EmptySet
    <3>2. o.sent = << >>
      BY <1>3, <3>1
    <3> QED
      BY <2>2, <3>2 DEF Renewal
  <2> QED
    BY <2>1, <2>2
<1>8. o.config.claiming_blocks = c.claiming_blocks
  BY <1>3 DEF Refresh, Config
<1>9. ASSUME NEW b \in Blocks
      PROVE  o.config.blocks[b] = IF c.blocks[b].state = "OURS" /\ RefreshDue(c)
                                  THEN [c.blocks[b] EXCEPT !.timeout = BlockTimeout]
                                  ELSE c.blocks[b]
  <2>1. o.config.blocks[b] = IF b \in Owned(c) /\ PacketOf(c, b) \in P
                             THEN [c.blocks[b] EXCEPT !.timeout = BlockTimeout]
                             ELSE c.blocks[b]
    BY <1>3 DEF Refresh, Config
  <2>2. b \in Owned(c) <=> c.blocks[b].state = "OURS"
    BY DEF Owned, InState
  <2>3. b \in Owned(c) => (PacketOf(c, b) \in P <=> RefreshDue(c))
    BY <1>4, <1>5
  <2> QED
    BY <2>1, <2>2, <2>3
<1>10. \A b \in Blocks : c.blocks[b] \in Block
  BY DEF TableOK
<1> HIDE DEF P
<1>11. ASSUME NEW b \in Blocks
       PROVE  LET old == c.blocks[b]
                  new == o.config.blocks[b]
              IN /\ new.state = old.state
                 /\ new.claiming_counts = old.claiming_counts
                 /\ new.alloc = old.alloc
                 /\ new.leases = old.leases
                 /\ new.timeout = IF old.state = "OURS" /\ RefreshDue(c)
                                  THEN BlockTimeout ELSE old.timeout
  <2>1. CASE c.blocks[b].state = "OURS" /\ RefreshDue(c)
    <3>1. o.config.blocks[b] = [c.blocks[b] EXCEPT !.timeout = BlockTimeout]
      BY <1>9, <2>1
    <3> QED
      BY <1>10, <2>1, <3>1 DEF Block
  <2>2. CASE ~ (c.blocks[b].state = "OURS" /\ RefreshDue(c))
    BY <1>9, <2>2
  <2> QED
    BY <2>1, <2>2
<1> QED
  BY <1>7, <1>8, <1>11

-----------------------------------------------------------------------------
(* What the two halves of a house keeping do and send *)

\* Claims are finished, started and announced: every claim on the list is.
Claimed(n, c, d, sent) ==
  /\ WellFormed(d)
  /\ Tidy(d)
  /\ \A b \in Blocks : Moved(c.blocks[b], d.blocks[b])
  /\ d.claiming_blocks = InState(d, "CLAIMING")
  /\ sent = Announcement(n, d)

\* The first half.
LEMMA ClaimsAnnounced ==
  ASSUME TentativeTimeout <= BlockTimeout,
         NEW c, WellFormed(c), Tidy(c), Lasting(c, 0), NEW n \in Nodes,
         NEW o \in CheckAndAdjust(n, c, {TRUE})
  PROVE  Claimed(n, c, o.config, o.sent)
<1> DEFINE d == o.config
<1>1. Adjusted(c, d) /\ o.sent = Announcement(n, d)
  BY AdjustBlocksOK DEF CheckAndAdjust
<1>2. WellFormed(d) /\ Modest(d)
  BY <1>1 DEF Adjusted
<1> HIDE DEF d
<1>3. ASSUME NEW b \in Blocks
      PROVE  /\ Moved(c.blocks[b], d.blocks[b])
             /\ TidyEntry(d, b)
             /\ b \in d.claiming_blocks <=> d.blocks[b].state = "CLAIMING"
  <2> DEFINE old == c.blocks[b]
             new == d.blocks[b]
  <2>1. /\ Moved(old, new) /\ Unleased(new) /\ (new.alloc => new.state = "OURS")
        /\ b \in d.claiming_blocks => new.state = "CLAIMING" /\ new.claiming_counts >= 1
    BY <1>1 DEF Adjusted
  <2>2. old.timeout \in Int /\ new.timeout \in Int
    BY <1>2 DEF WellFormed, TableOK, Block, Time, Expired
  <2>3. /\ old.state = "OURS" => old.timeout <= BlockTimeout
        /\ old.state = "CLAIMING" => old.timeout <= TentativeTimeout
    BY DEF Tidy, TidyEntry
  <2>4. new.state = "CLAIMING" => b \in d.claiming_blocks
    BY <1>2 DEF WellFormed, ClaimsListed, InState
  <2> HIDE DEF new, old
  <2>5. new.state = "OURS" => new.timeout <= BlockTimeout
    BY <2>1, <2>2, <2>3, TimesAssumption DEF Moved
  <2>6. new.state = "CLAIMING" => new.timeout <= TentativeTimeout
    BY <2>1, <2>2, <2>3, TimesAssumption DEF Moved
  <2> QED
    BY <2>1, <2>4, <2>5, <2>6 DEF TidyEntry, old, new
<1>4. d.claiming_blocks = InState(d, "CLAIMING")
  BY <1>2, <1>3 DEF InState, WellFormed, Config
<1> QED
  BY <1>1, <1>2, <1>3, <1>4 DEF Claimed, Tidy, d

\* Claims of ours are renewed together or not at all.
Refreshed(n, c, d, sent, due) ==
  /\ WellFormed(d)
  /\ Tidy(d)
  /\ \A b \in Blocks :
       /\ d.blocks[b].state = c.blocks[b].state
       /\ d.blocks[b].claiming_counts = c.blocks[b].claiming_counts
       /\ d.blocks[b].timeout = IF d.blocks[b].state = "OURS" /\ due = TRUE
                                THEN BlockTimeout ELSE c.blocks[b].timeout
       /\ d.blocks[b].state = "OURS" /\ due = FALSE => d.blocks[b].timeout >= Baseline
  /\ sent = Renewal(n, d, due)

\* The second half.
LEMMA ClaimsRefreshed ==
  ASSUME Steadfast, NEW c, WellFormed(c), Tidy(c), NEW n \in Nodes,
         NEW o \in RefreshAndForget(n, c, {TRUE})
  PROVE  \E due \in BOOLEAN : Refreshed(n, c, o.config, o.sent, due)
<1>1. PICK u \in block_update_claims(n, c, {TRUE}) :
        o = Outcome(dhcp_packet_list_timeout(u.config), u.sent)
  BY DEF RefreshAndForget
<1> DEFINE e == u.config
           d == o.config
           due == RefreshDue(c)
<1>2. c \in Config /\ TableOK(c.blocks) /\ Modest(c)
  BY DEF WellFormed, Tidy
<1>3. /\ u.sent = Renewal(n, c, due)
      /\ e.claiming_blocks = c.claiming_blocks
      /\ \A b \in Blocks :
           /\ e.blocks[b].state = c.blocks[b].state
           /\ e.blocks[b].claiming_counts = c.blocks[b].claiming_counts
           /\ e.blocks[b].alloc = c.blocks[b].alloc
           /\ e.blocks[b].leases = c.blocks[b].leases
           /\ e.blocks[b].timeout = IF c.blocks[b].state = "OURS" /\ due
                                    THEN BlockTimeout ELSE c.blocks[b].timeout
  <2>1. Cardinality(Owned(c)) <= UpdateClaimMaxBlocks
    BY <1>2, ModestFits
  <2> QED
    BY <1>2, <2>1, UpdatesAll
<1>4. e \in Config
  BY <1>2, UpdateClaimsQuiet, QuietTable
<1>5. d = dhcp_packet_list_timeout(e) /\ o.sent = u.sent
  BY <1>1 DEF Outcome
<1>6. d.blocks = e.blocks /\ d.claiming_blocks = c.claiming_blocks
  BY <1>3, <1>4, <1>5 DEF dhcp_packet_list_timeout, Config
<1>7. WellFormed(d)
  BY RefreshAndForgetOK
<1> HIDE DEF e, d
<1>8. Owned(d) = Owned(c)
  BY <1>3, <1>6 DEF Owned, InState
<1>9. o.sent = Renewal(n, d, due)
  BY <1>3, <1>5, <1>8 DEF Renewal, AllClaims
<1>10. due \in BOOLEAN
  BY DEF due, RefreshDue
<1>11. ASSUME NEW b \in Blocks
       PROVE  /\ d.blocks[b].state = c.blocks[b].state
              /\ d.blocks[b].claiming_counts = c.blocks[b].claiming_counts
              /\ d.blocks[b].timeout = IF d.blocks[b].state = "OURS" /\ due = TRUE
                                       THEN BlockTimeout ELSE c.blocks[b].timeout
              /\ d.blocks[b].state = "OURS" /\ due = FALSE => d.blocks[b].timeout >= Baseline
              /\ TidyEntry(d, b)
  <2> DEFINE old == c.blocks[b]
             new == d.blocks[b]
  <2>1. /\ new.state = old.state /\ new.claiming_counts = old.claiming_counts
        /\ new.alloc = old.alloc /\ new.leases = old.leases
        /\ new.timeout = IF old.state = "OURS" /\ due THEN BlockTimeout ELSE old.timeout
    BY <1>3, <1>6
  <2>2. old.timeout \in Int
    BY <1>2 DEF TableOK, Block, Time, Expired
  <2>3. old.state = "OURS" /\ due = FALSE => old.timeout >= Baseline
    BY <2>2, TimesType DEF RefreshDue, Owned, InState
  <2>4. TidyEntry(c, b)
    BY DEF Tidy
  <2> HIDE DEF new, due
  <2>5. Unleased(new)
    BY <2>1, <2>4 DEF TidyEntry, Unleased
  <2>6. /\ new.alloc => new.state = "OURS"
        /\ new.state = "OURS" => new.timeout <= BlockTimeout
        /\ new.state = "CLAIMING" => new.timeout <= TentativeTimeout
        /\ b \in d.claiming_blocks =>
             new.claiming_counts >= 1 /\ (new.state = "CLAIMING" \/ new.claiming_counts <= 2)
    BY <1>6, <2>1, <2>2, <2>4, TimesAssumption DEF TidyEntry
  <2>7. TidyEntry(d, b)
    BY <2>5, <2>6 DEF TidyEntry, new
  <2> QED
    BY <1>10, <2>1, <2>3, <2>7 DEF new
<1>12. Modest(d)
  BY <1>2, <1>6, <1>8 DEF Modest
<1> HIDE DEF due
<1>13. Refreshed(n, c, d, o.sent, due)
  BY <1>7, <1>9, <1>11, <1>12 DEF Refreshed, Tidy
<1> QED
  BY <1>10, <1>13 DEF d

-----------------------------------------------------------------------------
(* What an entry of a multicast packet does *)

\* One entry of the table gets a new state and a new deadline.
Noticed(c, d, b, state, timeout) ==
  /\ d.claiming_blocks = c.claiming_blocks
  /\ \A e \in Blocks \ {b} : d.blocks[e] = c.blocks[e]
  /\ d.blocks[b].state = state
  /\ d.blocks[b].timeout = timeout
  /\ d.blocks[b].claiming_counts = c.blocks[b].claiming_counts
  /\ d.blocks[b].alloc = c.blocks[b].alloc
  /\ d.blocks[b].leases = c.blocks[b].leases

\* An UPDATECLAIM for a block that is not ours.
LEMMA ReadUpdate ==
  ASSUME NEW c \in Config, TableOK(c.blocks), NEW n, NEW m, NEW b \in Blocks,
         m.command = "UPDATECLAIM", c.blocks[b].state # "OURS",
         NEW o \in ddhcp_block_process(n, m, b, c, {TRUE})
  PROVE  Noticed(c, o.config, b, "CLAIMED", BlockTimeout) /\ o.sent = << >>
<1> DEFINE new == NoticeClaim(c.blocks[b], m.sender)
<1>1. o = Outcome([c EXCEPT !.blocks[b] = new], << >>)
  BY DEF ddhcp_block_process, ddhcp_block_process_claims
<1>2. o.sent = << >> /\ o.config = [c EXCEPT !.blocks[b] = new]
  BY <1>1 DEF Outcome
<1>3. c.blocks[b] \in Block /\ c.blocks \in [Blocks -> Block]
  BY DEF TableOK
<1>4. o.config.blocks = [c.blocks EXCEPT ![b] = new]
      /\ o.config.claiming_blocks = c.claiming_blocks
  BY <1>2 DEF Config
<1>5. /\ new.state = "CLAIMED" /\ new.timeout = BlockTimeout
      /\ new.claiming_counts = c.blocks[b].claiming_counts
      /\ new.alloc = c.blocks[b].alloc
      /\ new.leases = c.blocks[b].leases
  BY <1>3 DEF NoticeClaim, Block
<1> QED
  BY <1>2, <1>3, <1>4, <1>5 DEF Noticed

\* An INQUIRE for a block that is neither ours nor claimed by us with a right.
LEMMA ReadInquiry ==
  ASSUME NEW c \in Config, TableOK(c.blocks), NEW n, NEW m, NEW b \in Blocks,
         m.command = "INQUIRE", c.blocks[b].state # "OURS",
         ~ (c.blocks[b].state = "CLAIMING" /\ ~ SenderWins(n, m)),
         NEW o \in ddhcp_block_process(n, m, b, c, {TRUE})
  PROVE  Noticed(c, o.config, b, "TENTATIVE", TentativeTimeout) /\ o.sent = << >>
<1> DEFINE new == NoticeInterest(c.blocks[b])
<1>1. o = Outcome([c EXCEPT !.blocks[b] = new], << >>)
  BY DEF ddhcp_block_process, ddhcp_block_process_inquire
<1>2. o.sent = << >> /\ o.config = [c EXCEPT !.blocks[b] = new]
  BY <1>1 DEF Outcome
<1>3. c.blocks[b] \in Block /\ c.blocks \in [Blocks -> Block]
  BY DEF TableOK
<1>4. o.config.blocks = [c.blocks EXCEPT ![b] = new]
      /\ o.config.claiming_blocks = c.claiming_blocks
  BY <1>2 DEF Config
<1>5. /\ new.state = "TENTATIVE" /\ new.timeout = TentativeTimeout
      /\ new.claiming_counts = c.blocks[b].claiming_counts
      /\ new.alloc = c.blocks[b].alloc
      /\ new.leases = c.blocks[b].leases
  BY <1>3 DEF NoticeInterest, Block
<1> QED
  BY <1>2, <1>3, <1>4, <1>5 DEF Noticed

\* An INQUIRE that our claim stands against.
LEMMA ReadContested ==
  ASSUME NEW c, NEW n, NEW m, NEW b,
         m.command = "INQUIRE", c.blocks[b].state = "CLAIMING", ~ SenderWins(n, m),
         NEW o \in ddhcp_block_process(n, m, b, c, {TRUE})
  PROVE  o.config = c /\ o.sent = << >>
<1>1. o = Outcome(c, << >>)
  BY DEF ddhcp_block_process, ddhcp_block_process_inquire
<1> QED
  BY <1>1 DEF Outcome


-----------------------------------------------------------------------------
(* What is in a receive buffer *)

Inquiry(m, x, b) == m.command = "INQUIRE" /\ m.sender = x /\ b \in m.payload

Update(m, x, b) == m.command = "UPDATECLAIM" /\ m.sender = x /\ b \in m.payload

HasInquiry(q, x, b) == \E i \in DOMAIN q : Inquiry(q[i], x, b)

HasUpdate(q, x, b) == \E i \in DOMAIN q : Update(q[i], x, b)

\* Every inquiry is followed by the claim.
Answered(q, x, b) ==
  \A i \in DOMAIN q : Inquiry(q[i], x, b) =>
    \E j \in DOMAIN q : j > i /\ Update(q[j], x, b)

FromOnly(q, x) == \A i \in DOMAIN q : q[i].sender = x

\* One more packet.
LEMMA Appended ==
  ASSUME NEW q \in Seq(McastPacket), NEW p \in McastPacket, NEW x, NEW b
  PROVE  LET r == q \o <<p>>
         IN /\ r \in Seq(McastPacket)
            /\ HasInquiry(r, x, b) <=> HasInquiry(q, x, b) \/ Inquiry(p, x, b)
            /\ HasUpdate(r, x, b) <=> HasUpdate(q, x, b) \/ Update(p, x, b)
            /\ Answered(q, x, b) /\ ~ Inquiry(p, x, b) => Answered(r, x, b)
            /\ Update(p, x, b) => Answered(r, x, b)
            /\ FromOnly(q, x) /\ p.sender = x => FromOnly(r, x)
<1> DEFINE r == q \o <<p>>
           k == Len(q)
<1>1. /\ r \in Seq(McastPacket) /\ k \in Nat
      /\ DOMAIN q = 1 .. k /\ DOMAIN r = 1 .. k + 1
      /\ \A i \in 1 .. k : r[i] = q[i]
      /\ r[k + 1] = p
  OBVIOUS
<1> HIDE DEF r, k
<1>2. HasInquiry(r, x, b) <=> HasInquiry(q, x, b) \/ Inquiry(p, x, b)
  <2>1. ASSUME HasInquiry(r, x, b) PROVE HasInquiry(q, x, b) \/ Inquiry(p, x, b)
    BY <1>1, <2>1 DEF HasInquiry
  <2>2. ASSUME HasInquiry(q, x, b) \/ Inquiry(p, x, b) PROVE HasInquiry(r, x, b)
    BY <1>1, <2>2 DEF HasInquiry
  <2> QED
    BY <2>1, <2>2
<1>3. HasUpdate(r, x, b) <=> HasUpdate(q, x, b) \/ Update(p, x, b)
  <2>1. ASSUME HasUpdate(r, x, b) PROVE HasUpdate(q, x, b) \/ Update(p, x, b)
    BY <1>1, <2>1 DEF HasUpdate
  <2>2. ASSUME HasUpdate(q, x, b) \/ Update(p, x, b) PROVE HasUpdate(r, x, b)
    BY <1>1, <2>2 DEF HasUpdate
  <2> QED
    BY <2>1, <2>2
<1>4. ASSUME Answered(q, x, b), ~ Inquiry(p, x, b)
      PROVE  Answered(r, x, b)
  <2> SUFFICES ASSUME NEW i \in DOMAIN r, Inquiry(r[i], x, b)
               PROVE  \E j \in DOMAIN r : j > i /\ Update(r[j], x, b)
    BY DEF Answered
  <2>1. i \in DOMAIN q /\ Inquiry(q[i], x, b)
    BY <1>1, <1>4
  <2>2. PICK j \in DOMAIN q : j > i /\ Update(q[j], x, b)
    BY <1>4, <2>1 DEF Answered
  <2> QED
    BY <1>1, <2>2
<1>5. ASSUME Update(p, x, b)
      PROVE  Answered(r, x, b)
  <2> SUFFICES ASSUME NEW i \in DOMAIN r, Inquiry(r[i], x, b)
               PROVE  \E j \in DOMAIN r : j > i /\ Update(r[j], x, b)
    BY DEF Answered
  <2>1. i # k + 1
    BY <1>1, <1>5 DEF Inquiry, Update
  <2>2. k + 1 \in DOMAIN r /\ k + 1 > i
    BY <1>1, <2>1
  <2> QED
    BY <1>1, <1>5, <2>2
<1>6. FromOnly(q, x) /\ p.sender = x => FromOnly(r, x)
  BY <1>1 DEF FromOnly
<1> QED
  BY <1>1, <1>2, <1>3, <1>4, <1>5, <1>6 DEF r

\* A renewal of claims goes to the end of the buffer.
LEMMA RenewedAll ==
  ASSUME NEW q \in Seq(McastPacket), NEW n \in Nodes, NEW d, NEW b
  PROVE  LET r == q \o AllClaims(n, d)
         IN /\ r \in Seq(McastPacket)
            /\ AllClaims(n, d) \in Seq(McastPacket) /\ Len(AllClaims(n, d)) = 1
            /\ HasInquiry(r, n, b) <=> HasInquiry(q, n, b)
            /\ HasUpdate(r, n, b) <=> HasUpdate(q, n, b) \/ b \in Owned(d)
            /\ Answered(q, n, b) \/ b \in Owned(d) => Answered(r, n, b)
            /\ FromOnly(q, n) => FromOnly(r, n)
<1> DEFINE p == new_ddhcp_packet("UPDATECLAIM", n, Owned(d))
<1>1. p \in McastPacket /\ p.sender = n
  BY DEF new_ddhcp_packet, McastPacket, Owned, InState
<1>2. ~ Inquiry(p, n, b) /\ (Update(p, n, b) <=> b \in Owned(d))
  BY DEF new_ddhcp_packet, Inquiry, Update
<1>3. AllClaims(n, d) = <<p>>
  BY DEF AllClaims
<1>4. <<p>> \in Seq(McastPacket) /\ Len(<<p>>) = 1
  BY <1>1
<1> HIDE DEF p
<1>5. /\ q \o <<p>> \in Seq(McastPacket)
      /\ HasInquiry(q \o <<p>>, n, b) <=> HasInquiry(q, n, b) \/ Inquiry(p, n, b)
      /\ HasUpdate(q \o <<p>>, n, b) <=> HasUpdate(q, n, b) \/ Update(p, n, b)
      /\ Answered(q, n, b) /\ ~ Inquiry(p, n, b) => Answered(q \o <<p>>, n, b)
      /\ Update(p, n, b) => Answered(q \o <<p>>, n, b)
      /\ FromOnly(q, n) /\ p.sender = n => FromOnly(q \o <<p>>, n)
  BY <1>1, Appended
<1> QED
  BY <1>1, <1>2, <1>3, <1>4, <1>5

\* Or none of them.
LEMMA Renewed ==
  ASSUME NEW q \in Seq(McastPacket), NEW n \in Nodes, NEW d, NEW due \in BOOLEAN, NEW b
  PROVE  LET r == q \o Renewal(n, d, due)
         IN /\ r \in Seq(McastPacket)
            /\ Renewal(n, d, due) \in Seq(McastPacket) /\ Len(Renewal(n, d, due)) <= 1
            /\ HasInquiry(r, n, b) <=> HasInquiry(q, n, b)
            /\ HasUpdate(r, n, b) <=> HasUpdate(q, n, b) \/ (due /\ b \in Owned(d))
            /\ Answered(q, n, b) \/ (due /\ b \in Owned(d)) => Answered(r, n, b)
            /\ FromOnly(q, n) => FromOnly(r, n)
<1>1. CASE due = TRUE
  <2>1. Renewal(n, d, due) = AllClaims(n, d)
    BY <1>1 DEF Renewal
  <2> DEFINE s == AllClaims(n, d)
  <2>2. /\ q \o s \in Seq(McastPacket)
        /\ s \in Seq(McastPacket) /\ Len(s) = 1
        /\ HasInquiry(q \o s, n, b) <=> HasInquiry(q, n, b)
        /\ HasUpdate(q \o s, n, b) <=> HasUpdate(q, n, b) \/ b \in Owned(d)
        /\ Answered(q, n, b) \/ b \in Owned(d) => Answered(q \o s, n, b)
        /\ FromOnly(q, n) => FromOnly(q \o s, n)
    BY RenewedAll
  <2> HIDE DEF s
  <2> QED
    BY <1>1, <2>1, <2>2 DEF s
<1>2. CASE due = FALSE
  <2>1. Renewal(n, d, due) = << >> /\ q \o << >> = q
    BY <1>2 DEF Renewal
  <2>2. << >> \in Seq(McastPacket) /\ Len(<< >>) <= 1
    OBVIOUS
  <2> QED
    BY <1>2, <2>1, <2>2
<1> QED
  BY <1>1, <1>2

\* The announcement of claims too.
LEMMA AnnouncedLast ==
  ASSUME NEW q \in Seq(McastPacket), NEW n \in Nodes, NEW d, NEW b,
         d.claiming_blocks \in SUBSET Blocks
  PROVE  LET r == q \o Announcement(n, d)
         IN /\ r \in Seq(McastPacket)
            /\ Announcement(n, d) \in Seq(McastPacket) /\ Len(Announcement(n, d)) <= 1
            /\ HasInquiry(r, n, b) <=> HasInquiry(q, n, b) \/ b \in d.claiming_blocks
            /\ HasUpdate(r, n, b) <=> HasUpdate(q, n, b)
            /\ Answered(q, n, b) /\ b \notin d.claiming_blocks => Answered(r, n, b)
            /\ FromOnly(q, n) => FromOnly(r, n)
<1> DEFINE p == new_ddhcp_packet("INQUIRE", n, d.claiming_blocks)
<1>1. CASE d.claiming_blocks # {}
  <2>1. p \in McastPacket /\ p.sender = n
    BY DEF new_ddhcp_packet, McastPacket
  <2>2. ~ Update(p, n, b) /\ (Inquiry(p, n, b) <=> b \in d.claiming_blocks)
    BY DEF new_ddhcp_packet, Inquiry, Update
  <2>3. Announcement(n, d) = <<p>>
    BY <1>1 DEF Announcement
  <2>4. <<p>> \in Seq(McastPacket) /\ Len(<<p>>) = 1
    BY <2>1
  <2> HIDE DEF p
  <2>5. /\ q \o <<p>> \in Seq(McastPacket)
        /\ HasInquiry(q \o <<p>>, n, b) <=> HasInquiry(q, n, b) \/ Inquiry(p, n, b)
        /\ HasUpdate(q \o <<p>>, n, b) <=> HasUpdate(q, n, b) \/ Update(p, n, b)
        /\ Answered(q, n, b) /\ ~ Inquiry(p, n, b) => Answered(q \o <<p>>, n, b)
        /\ FromOnly(q, n) /\ p.sender = n => FromOnly(q \o <<p>>, n)
    BY <2>1, Appended
  <2> QED
    BY <2>1, <2>2, <2>3, <2>4, <2>5
<1>2. CASE d.claiming_blocks = {}
  <2>1. Announcement(n, d) = << >> /\ q \o << >> = q
    BY <1>2 DEF Announcement
  <2>2. << >> \in Seq(McastPacket) /\ Len(<< >>) <= 1
    OBVIOUS
  <2> QED
    BY <1>2, <2>1, <2>2
<1> QED
  BY <1>1, <1>2

\* What reading one entry takes out of a buffer.
Consumed(q, r, b, x) ==
  /\ \A e \in Blocks \ {b} : /\ HasInquiry(r, x, e) <=> HasInquiry(q, x, e)
                             /\ HasUpdate(r, x, e) <=> HasUpdate(q, x, e)
  /\ HasInquiry(r, x, b) => HasInquiry(q, x, b)
  /\ HasUpdate(r, x, b) => HasUpdate(q, x, b)
  /\ Head(q).command = "INQUIRE" /\ HasUpdate(q, x, b) => HasUpdate(r, x, b)
  /\ \A e \in Blocks : Answered(q, x, e) => Answered(r, x, e)
  /\ FromOnly(q, x) => FromOnly(r, x)

\* A packet put in front of others.
LEMMA Pushed ==
  ASSUME NEW p \in McastPacket, NEW q \in Seq(McastPacket)
  PROVE  LET r == <<p>> \o q
         IN /\ r \in Seq(McastPacket) /\ r[1] = p
            /\ Len(r) = Len(q) + 1 /\ DOMAIN r = 1 .. Len(q) + 1
            /\ \A i \in 1 .. Len(q) : r[i + 1] = q[i]
<1> DEFINE s == <<p>>
<1>1. s \in Seq(McastPacket) /\ Len(s) = 1 /\ s[1] = p /\ Len(q) \in Nat
  OBVIOUS
<1> HIDE DEF s
<1>2. /\ s \o q \in Seq(McastPacket)
      /\ Len(s \o q) = Len(s) + Len(q)
      /\ \A i \in 1 .. Len(s) + Len(q) : (s \o q)[i] =
           IF i <= Len(s) THEN s[i] ELSE q[i - Len(s)]
  BY <1>1, ConcatProperties
<1> DEFINE r == s \o q
<1> HIDE DEF r
<1>3. /\ r \in Seq(McastPacket) /\ Len(r) = Len(q) + 1 /\ DOMAIN r = 1 .. Len(q) + 1
      /\ \A i \in 1 .. Len(q) + 1 : r[i] = IF i <= 1 THEN s[i] ELSE q[i - 1]
  BY <1>1, <1>2 DEF r
<1>4. r[1] = p
  BY <1>1, <1>3
<1>5. ASSUME NEW i \in 1 .. Len(q) PROVE r[i + 1] = q[i]
  BY <1>1, <1>3
<1> QED
  BY <1>3, <1>4, <1>5 DEF r, s

\* Reading an entry of the first packet leaves the others.
LEMMA EntryConsumed ==
  ASSUME NEW q \in Seq(McastPacket), q # << >>, NEW b, NEW x, NEW rest, NEW r,
         rest = [Head(q) EXCEPT !.payload = Head(q).payload \ {b}],
         r = (IF rest.payload = {} THEN << >> ELSE <<rest>>) \o Tail(q)
  PROVE  r \in Seq(McastPacket) /\ Consumed(q, r, b, x)
<1> DEFINE m == Head(q)
           k == Len(q)
           t == IF rest.payload = {} THEN 1 ELSE 0
<1>1. /\ m \in McastPacket /\ Tail(q) \in Seq(McastPacket) /\ m = q[1]
      /\ k \in Nat \ {0} /\ DOMAIN q = 1 .. k /\ Len(Tail(q)) = k - 1
      /\ \A i \in 1 .. k - 1 : Tail(q)[i] = q[i + 1]
      /\ \A i \in DOMAIN q : q[i] \in McastPacket
  BY HeadTailProperties
<1>2. /\ rest \in McastPacket /\ rest.command = m.command /\ rest.sender = m.sender
      /\ rest.payload = m.payload \ {b}
  BY <1>1 DEF McastPacket
<1>3. /\ r \in Seq(McastPacket) /\ DOMAIN r = 1 .. k - t /\ Len(r) = k - t /\ t \in {0, 1}
      /\ \A i \in 1 .. k - t : i + t > 1 => r[i] = q[i + t]
      /\ t = 0 => r[1] = rest
      /\ t = 1 => rest.payload = {}
  <2>1. CASE rest.payload = {}
    <3>1. r = Tail(q) /\ t = 1
      BY <1>1, <2>1
    <3> QED
      BY <1>1, <2>1, <3>1
  <2>2. CASE rest.payload # {}
    <3>1. r = <<rest>> \o Tail(q) /\ t = 0
      BY <2>2
    <3>2. <<rest>> \in Seq(McastPacket) /\ Len(<<rest>>) = 1 /\ <<rest>>[1] = rest
      BY <1>2
    <3> DEFINE tl == Tail(q)
    <3>3. /\ tl \in Seq(McastPacket) /\ Len(tl) = k - 1
          /\ \A i \in 1 .. k - 1 : tl[i] = q[i + 1]
      BY <1>1
    <3>4. r = <<rest>> \o tl
      BY <3>1
    <3> HIDE DEF tl, k, m, t
    <3>5. /\ r \in Seq(McastPacket) /\ DOMAIN r = 1 .. k /\ r[1] = rest
          /\ \A i \in 1 .. k - 1 : r[i + 1] = tl[i]
      <4>1. Len(tl) + 1 = k
        BY <1>1, <3>3
      <4>2. \A i \in 1 .. Len(tl) : r[i + 1] = tl[i]
        BY ONLY <1>2, <3>3, <3>4, Pushed
      <4> QED
        BY ONLY <1>1, <1>2, <3>3, <3>4, <4>1, <4>2, Pushed
    <3>7. ASSUME NEW i \in 1 .. k, i > 1 PROVE r[i] = q[i]
      <4>1. i - 1 \in 1 .. k - 1 /\ (i - 1) + 1 = i
        BY <1>1, <3>7
      <4>2. r[(i - 1) + 1] = tl[i - 1] /\ tl[i - 1] = q[(i - 1) + 1]
        BY <3>3, <3>5, <4>1
      <4> QED
        BY <4>1, <4>2
    <3> QED
      BY <1>1, <2>2, <3>1, <3>5, <3>7
  <2> QED
    BY <2>1, <2>2
<1> HIDE DEF m, k, t
<1>4. ASSUME NEW i \in DOMAIN r
      PROVE  /\ i + t \in DOMAIN q
             /\ r[i].command = q[i + t].command /\ r[i].sender = q[i + t].sender
             /\ \A e : e \in r[i].payload => e \in q[i + t].payload
  <2>0. i \in 1 .. k - t /\ i + t \in 1 .. k /\ i + t \in DOMAIN q
    BY <1>1, <1>3
  <2>1. CASE i + t > 1
    BY <1>3, <2>0, <2>1
  <2>2. CASE ~ (i + t > 1)
    <3>1. i = 1 /\ t = 0
      BY <1>1, <1>3, <2>0, <2>2
    <3>2. i + t = 1 /\ r[i] = rest
      BY <1>3, <3>1
    <3> QED
      BY <1>1, <1>2, <2>0, <3>2
  <2> QED
    BY <2>1, <2>2
<1>5. ASSUME NEW j \in DOMAIN q, NEW e, e \in q[j].payload, j > 1 \/ e # b
      PROVE  /\ j - t \in DOMAIN r
             /\ r[j - t].command = q[j].command /\ r[j - t].sender = q[j].sender
             /\ e \in r[j - t].payload
  <2>1. CASE j > 1
    <3>1. j - t \in 1 .. k - t /\ j - t + t = j
      BY <1>1, <1>3, <2>1
    <3>2. r[j - t] = q[j]
      BY <1>3, <2>1, <3>1
    <3> QED
      BY <1>3, <1>5, <3>1, <3>2
  <2>2. CASE ~ (j > 1)
    <3>1. j = 1 /\ e # b /\ q[j] = m
      BY <1>1, <1>5, <2>2
    <3>2. e \in rest.payload
      BY <1>2, <1>5, <3>1
    <3>3. t = 0 /\ j - t = 1 /\ j - t \in 1 .. k - t
      BY <1>1, <1>3, <3>1, <3>2
    <3> QED
      BY <1>2, <1>3, <3>1, <3>2, <3>3
  <2> QED
    BY <2>1, <2>2
<1>6. ASSUME NEW e
      PROVE  /\ HasInquiry(r, x, e) => HasInquiry(q, x, e)
             /\ HasUpdate(r, x, e) => HasUpdate(q, x, e)
  <2>1. ASSUME HasInquiry(r, x, e) PROVE HasInquiry(q, x, e)
    <3>1. PICK i \in DOMAIN r : Inquiry(r[i], x, e)
      BY <2>1 DEF HasInquiry
    <3>2. Inquiry(q[i + t], x, e) /\ i + t \in DOMAIN q
      BY <1>4, <3>1 DEF Inquiry
    <3> QED
      BY <3>2 DEF HasInquiry
  <2>2. ASSUME HasUpdate(r, x, e) PROVE HasUpdate(q, x, e)
    <3>1. PICK i \in DOMAIN r : Update(r[i], x, e)
      BY <2>2 DEF HasUpdate
    <3>2. Update(q[i + t], x, e) /\ i + t \in DOMAIN q
      BY <1>4, <3>1 DEF Update
    <3> QED
      BY <3>2 DEF HasUpdate
  <2> QED
    BY <2>1, <2>2
<1>7. ASSUME NEW e, e # b
      PROVE  /\ HasInquiry(q, x, e) => HasInquiry(r, x, e)
             /\ HasUpdate(q, x, e) => HasUpdate(r, x, e)
  <2>1. ASSUME HasInquiry(q, x, e) PROVE HasInquiry(r, x, e)
    <3>1. PICK j \in DOMAIN q : Inquiry(q[j], x, e)
      BY <2>1 DEF HasInquiry
    <3>2. Inquiry(r[j - t], x, e) /\ j - t \in DOMAIN r
      BY <1>5, <1>7, <3>1 DEF Inquiry
    <3> QED
      BY <3>2 DEF HasInquiry
  <2>2. ASSUME HasUpdate(q, x, e) PROVE HasUpdate(r, x, e)
    <3>1. PICK j \in DOMAIN q : Update(q[j], x, e)
      BY <2>2 DEF HasUpdate
    <3>2. Update(r[j - t], x, e) /\ j - t \in DOMAIN r
      BY <1>5, <1>7, <3>1 DEF Update
    <3> QED
      BY <3>2 DEF HasUpdate
  <2> QED
    BY <2>1, <2>2
<1>8. ASSUME m.command = "INQUIRE", HasUpdate(q, x, b)
      PROVE  HasUpdate(r, x, b)
  <2>1. PICK j \in DOMAIN q : Update(q[j], x, b)
    BY <1>8 DEF HasUpdate
  <2>2. j > 1
    BY <1>1, <1>8, <2>1 DEF Update
  <2>3. Update(r[j - t], x, b) /\ j - t \in DOMAIN r
    BY <1>5, <2>1, <2>2 DEF Update
  <2> QED
    BY <2>3 DEF HasUpdate
<1>9. ASSUME NEW e, Answered(q, x, e)
      PROVE  Answered(r, x, e)
  <2> SUFFICES ASSUME NEW i \in DOMAIN r, Inquiry(r[i], x, e)
               PROVE  \E j \in DOMAIN r : j > i /\ Update(r[j], x, e)
    BY DEF Answered
  <2>1. i + t \in DOMAIN q /\ Inquiry(q[i + t], x, e)
    BY <1>4 DEF Inquiry
  <2>2. PICK j \in DOMAIN q : j > i + t /\ Update(q[j], x, e)
    BY <1>9, <2>1 DEF Answered
  <2>3. j > 1 /\ j - t > i
    BY <1>1, <1>3, <2>1, <2>2
  <2>4. j - t \in DOMAIN r /\ Update(r[j - t], x, e)
    BY <1>5, <2>2, <2>3 DEF Update
  <2> QED
    BY <2>3, <2>4
<1>10. FromOnly(q, x) => FromOnly(r, x)
  BY <1>4 DEF FromOnly
<1> QED
  BY <1>3, <1>6, <1>7, <1>8, <1>9, <1>10 DEF Consumed, m
-----------------------------------------------------------------------------
(* Two daemons *)

\* Two daemons with different ids that start with a learning phase, no
\* clients, a network without faults, a timer that is not always due, and
\* times that leave room for a refresh.
IdlePair ==
  /\ \A x \in Nodes : \E y \in Nodes : y # x
  /\ \A x, y \in Nodes : x # y => Nodes = {x, y} /\ NodeId[x] # NodeId[y]
  /\ Clients = {}
  /\ Faults = {}
  /\ LearningPhase = TRUE
  /\ HouseKeepingInterval >= 1
  /\ Steadfast

Entry(x, b) == config[x].blocks[b]

Claims(x, b) == Entry(x, b).state = "CLAIMING"

Ours(x, b) == Entry(x, b).state = "OURS"

Holds(x, b) == Claims(x, b) \/ Ours(x, b)

\* An announcement, or a refresh, of x that y has not read yet.
Asked(x, y, b) == HasInquiry(mcast[y], x, b)

Told(x, y, b) == HasUpdate(mcast[y], x, b)

\* The longest it may take until x does house keeping, or refreshes b if that
\* is due.
Due(x, b) ==
  IF (pc[x] = "run" /\ need[x] = TRUE) \/ (pc[x] = "update" /\ Ours(x, b))
  THEN 0 ELSE Grace(x)

\* Daemon n is going to do house keeping and will read nothing before it.
Deaf(n) ==
  /\ pc[n] = "run" /\ need[n] = TRUE /\ learning[n] = FALSE
  /\ MCAST \notin ready[n]

One(p) == IF p THEN 1 ELSE 0

\* How often n may still announce its claims without a second passing or a
\* packet coming in: once for what it is about to read, or for its timer, and
\* once more when packets have come in after it has read.
Rounds(n) ==
  IF (pc[n] = "run" /\ MCAST \in ready[n]) \/ (pc[n] = "wait" /\ hk[n] = 0)
  THEN 1 ELSE One(Deaf(n)) + One(mcast[n] # << >>)

\* What one daemon looks like, without clients and faults.
Solo(n) ==
  /\ server[n] = << >>
  /\ ready[n] \subseteq {MCAST}
  /\ ~ Up(n) => mcast[n] = << >>
  /\ pc[n] # "run" => ready[n] = {}
  /\ MCAST \in ready[n] => need[n] = TRUE
  /\ Busy(n) => hk[n] > 0
  /\ Tidy(config[n])
  /\ \A b \in Blocks : Holds(n, b) => Up(n) /\ learning[n] = FALSE

\* n claims b and will have announced it no more than twice after that many
\* more rounds.
Early(n, b, more) == Claims(n, b) /\ Entry(n, b).claiming_counts + more <= 2

\* y has an entry for b that outlives both the claim of x and the time to
\* the next house keeping of x.
Known(x, y, b) ==
  /\ Entry(y, b).state \in {"TENTATIVE", "CLAIMED"}
  /\ Entry(y, b).timeout >= Entry(x, b).timeout
  /\ Entry(y, b).timeout >= Due(x, b)

\* y only listens for longer than that.
Learns(x, y, b) ==
  /\ learning[y] = TRUE
  /\ hk[y] > Due(x, b)
  /\ hk[y] >= Entry(x, b).timeout

\* A packet about b is on its way to y.  If y comes to house keeping before
\* it reads that, it does not take b for free, or x has just begun to claim.
Coming(x, y, b) ==
  /\ Asked(x, y, b) \/ (Ours(x, b) /\ Told(x, y, b))
  /\ Deaf(y) => Taken(Entry(y, b)) \/ Early(x, b, Rounds(x))

\* y knows, or will know in time, that x holds b, unless x is going to learn
\* that y, whose id is greater, claims b too.
Heard(x, y, b) ==
  Holds(x, b) /\ Up(y) /\ ~ (NodeId[x] < NodeId[y] /\ Asked(y, x, b))
    => Known(x, y, b) \/ Learns(x, y, b) \/ Coming(x, y, b)

\* A packet of x about a block y holds finds the claim of y before its third
\* announcement.
Yields(x, y, b) ==
  Holds(y, b) /\ (Told(x, y, b) \/ Asked(x, y, b)) => Early(y, b, One(Deaf(y)))

\* Of two claimants the one with the smaller id is about to find out, and it
\* will before the other has announced its claim three times.
Contest(x, y, b) ==
  NodeId[x] < NodeId[y] /\ Holds(x, b) /\ Holds(y, b) =>
    Asked(y, x, b) /\ (Deaf(x) => Early(y, b, Rounds(y)))

\* The refresh of a claim comes after the announcements of it.
InOrder(x, y, b) ==
  Ours(x, b) /\ Entry(x, b).timeout > TentativeTimeout => Answered(mcast[y], x, b)

\* All the invariant says of what x does to y about b.
Toward(x, y, b) ==
  Heard(x, y, b) /\ Yields(x, y, b) /\ Contest(x, y, b) /\ InOrder(x, y, b)

Pair(x, y) == FromOnly(mcast[y], x) /\ \A b \in Blocks : Toward(x, y, b)

PairInv ==
  /\ FreshInv
  /\ \A n \in Nodes : Solo(n)
  /\ \A x, y \in Nodes : x # y => Pair(x, y)

\* How the times relate.
LEMMA PairTimes ==
  ASSUME IdlePair
  PROVE  /\ RefreshInTime
         /\ LongestWait \in Nat /\ TentativeTimeout \in Nat /\ BlockTimeout \in Nat
         /\ Baseline \in Int
         /\ LongestWait < Baseline /\ Baseline <= BlockTimeout
         /\ LongestWait <= TentativeTimeout /\ TentativeTimeout <= BlockTimeout
<1>1. /\ TentativeTimeout \in Nat /\ TentativeTimeout + 1 \in Nat /\ 2 \in Nat \ {0}
  BY TimesAssumption
<1>2. HouseKeepingInterval + LongestLoop = TentativeTimeout
  <2>1. /\ TentativeTimeout \div 2 \in Nat /\ TentativeTimeout % 2 \in 0 .. 1
        /\ TentativeTimeout = (TentativeTimeout \div 2) * 2 + (TentativeTimeout % 2)
    BY <1>1, Remainder
  <2>2. /\ (TentativeTimeout + 1) \div 2 \in Nat /\ (TentativeTimeout + 1) % 2 \in 0 .. 1
        /\ TentativeTimeout + 1
             = ((TentativeTimeout + 1) \div 2) * 2 + ((TentativeTimeout + 1) % 2)
    BY <1>1, Remainder
  <2> QED
    BY <1>1, <2>1, <2>2 DEF HouseKeepingInterval, LongestLoop
<1>3. HouseKeepingInterval >= 1 /\ LongestWait < Baseline /\ Faults = {}
  BY DEF IdlePair, Steadfast
<1> HIDE DEF HouseKeepingInterval, LongestLoop, Baseline
<1>4. LongestWait = TentativeTimeout - 1
  BY <1>1, <1>2, <1>3, TimesType DEF LongestWait
<1> HIDE DEF LongestWait
<1> QED
  BY <1>1, <1>3, <1>4, TimesType DEF RefreshInTime

\* Types of what the invariant is about.
LEMMA PairTypes ==
  ASSUME FreshInv, NEW n \in Nodes
  PROVE  /\ hk[n] \in Nat /\ loop[n] \in Nat
         /\ need[n] \in BOOLEAN /\ learning[n] \in BOOLEAN
         /\ Grace(n) \in Nat
         /\ learning[n] = FALSE => Grace(n) <= LongestWait
         /\ \A b : /\ Due(n, b) \in Nat
                   /\ learning[n] = FALSE => Due(n, b) <= LongestWait
         /\ WellFormed(config[n])
         /\ mcast[n] \in Seq(McastPacket)
<1>1. /\ hk[n] \in Nat /\ loop[n] \in Nat /\ need[n] \in BOOLEAN /\ learning[n] \in BOOLEAN
      /\ WellFormed(config[n]) /\ mcast[n] \in Seq(McastPacket) /\ Fresh(n) /\ Inv
  BY DEF FreshInv, Inv, TypeOK
<1>2. Grace(n) \in Nat
  BY <1>1, TimesType DEF Grace
<1>3. learning[n] = FALSE => Grace(n) <= LongestWait
  BY <1>1, GraceBound DEF Fresh
<1>4. ASSUME NEW b
      PROVE  Due(n, b) \in Nat /\ (learning[n] = FALSE => Due(n, b) <= LongestWait)
  <2>1. Due(n, b) = 0 \/ Due(n, b) = Grace(n)
    BY DEF Due
  <2> QED
    BY <1>2, <1>3, <2>1, TimesType
<1> QED
  BY <1>1, <1>2, <1>3, <1>4

\* Rounds still to come.
LEMMA RoundsType ==
  ASSUME NEW n
  PROVE  /\ Rounds(n) \in 0 .. 2
         /\ One(Deaf(n)) \in 0 .. 1
         /\ One(Deaf(n)) <= Rounds(n)
<1>1. One(Deaf(n)) \in 0 .. 1 /\ One(mcast[n] # << >>) \in 0 .. 1
  BY DEF One
<1>2. Deaf(n) => ~ ((pc[n] = "run" /\ MCAST \in ready[n]) \/ (pc[n] = "wait" /\ hk[n] = 0))
  BY DEF Deaf
<1>3. ~ Deaf(n) => One(Deaf(n)) = 0
  BY DEF One
<1> QED
  BY <1>1, <1>2, <1>3 DEF Rounds

\* Claims that are early for more rounds are early for fewer.
LEMMA EarlierToo ==
  ASSUME FreshInv, NEW n \in Nodes, NEW b \in Blocks, NEW more \in Int, NEW less \in Int,
         less <= more, Early(n, b, more)
  PROVE  Early(n, b, less)
<1>1. Entry(n, b).claiming_counts \in Nat
  BY DEF FreshInv, Inv, WellFormed, TableOK, Block, Entry
<1> QED
  BY <1>1 DEF Early

\* Types of entries.
LEMMA EntryTypes ==
  ASSUME NEW c, WellFormed(c), NEW b \in Blocks
  PROVE  /\ c.blocks[b] \in Block /\ c.blocks[b].timeout \in Int
         /\ c.blocks[b].claiming_counts \in Nat
         /\ c.blocks[b].state \in {"FREE", "TENTATIVE", "CLAIMED", "CLAIMING", "OURS"}
<1>1. c.blocks[b] \in Block
  BY DEF WellFormed, TableOK
<1> QED
  BY <1>1 DEF Block, BlockStates, Time, Expired

\* A daemon that another one's step leaves alone; packets may arrive.
Bystander(y) ==
  /\ config'[y] = config[y] /\ pc'[y] = pc[y] /\ ready'[y] = ready[y] /\ need'[y] = need[y]
  /\ learning'[y] = learning[y] /\ hk'[y] = hk[y] /\ loop'[y] = loop[y]

\* A step of one daemon leaves the other one alone.
LEMMA OthersStand ==
  ASSUME FreshInv, NEW x \in Nodes, Boot(x) \/ Stop(x) \/ Daemon(x), NEW y \in Nodes, y # x
  PROVE  Bystander(y)
<1>1. /\ config \in [Nodes -> Config]
      /\ pc \in [Nodes -> {"down", "wait", "run", "update", "segv"}]
      /\ ready \in [Nodes -> SUBSET Sockets]
      /\ need \in [Nodes -> BOOLEAN] /\ learning \in [Nodes -> BOOLEAN]
      /\ hk \in [Nodes -> Nat] /\ loop \in [Nodes -> Nat]
  BY DEF FreshInv, Inv, TypeOK
<1>2. CASE Boot(x)
  BY <1>1, <1>2 DEF Boot, Bystander
<1>3. CASE Stop(x) \/ NullDereference(x)
  BY <1>1, <1>3 DEF Stop, NullDereference, Vanish, Bystander
<1>4. CASE Wake(x)
  BY <1>1, <1>4 DEF Wake, Bystander
<1>5. CASE hdl_ddhcp_block(x) \/ hdl_ddhcp_dhcp(x) \/ hdl_dhcp(x)
  BY <1>1, <1>5 DEF hdl_ddhcp_block, hdl_ddhcp_dhcp, hdl_dhcp, Turn, Bystander
<1>6. CASE HouseKeeping(x) \/ HouseKeepingEnds(x) \/ NoHouseKeeping(x)
  BY <1>1, <1>6 DEF HouseKeeping, HouseKeepingEnds, NoHouseKeeping, BackToEpoll, Bystander
<1>7. CASE HandlerReturns(x)
  <2>1. PICK s \in Sockets : ready' = [ready EXCEPT ![x] = @ \ {s}]
    BY <1>7 DEF HandlerReturns
  <2>2. UNCHANGED <<config, pc, need, learning, hk, loop>>
    BY <1>7 DEF HandlerReturns
  <2> QED
    BY <1>1, <2>1, <2>2 DEF Bystander
<1> QED
  BY <1>2, <1>3, <1>4, <1>5, <1>6, <1>7 DEF Daemon

\* Nothing the invariant says of it alone changes.
Still(y) ==
  /\ \A b \in Blocks : Entry(y, b)' = Entry(y, b) /\ Due(y, b)' = Due(y, b)
  /\ Deaf(y)' <=> Deaf(y)
  /\ mcast'[y] = mcast[y] => Rounds(y)' = Rounds(y)
  /\ Up(y)' <=> Up(y)
  /\ learning'[y] = learning[y]
  /\ hk'[y] = hk[y]

\* What a daemon that is left alone keeps.
LEMMA BystanderStill == ASSUME NEW y, Bystander(y) PROVE Still(y)
<1>1. \A b \in Blocks : Entry(y, b)' = Entry(y, b)
  BY DEF Bystander, Entry
<1>2. \A b \in Blocks : Due(y, b)' = Due(y, b)
  BY <1>1 DEF Bystander, Due, Grace, Ours
<1>3. Up(y)' <=> Up(y)
  BY DEF Bystander, Up, Busy
<1>4. Deaf(y)' <=> Deaf(y)
  BY DEF Bystander, Deaf
<1>5. mcast'[y] = mcast[y] => Rounds(y)' = Rounds(y)
  BY <1>4 DEF Bystander, Rounds, One
<1> QED
  BY <1>1, <1>2, <1>3, <1>4, <1>5 DEF Bystander, Still

\* It stays as it is described.
LEMMA BystanderSolo ==
  ASSUME NEW y, Solo(y), Bystander(y), server'[y] = server[y],
         ~ Up(y) => mcast'[y] = mcast[y]
  PROVE  Solo(y)'
<1>1. (Up(y)' <=> Up(y)) /\ (Busy(y)' <=> Busy(y))
  BY DEF Bystander, Up, Busy
<1>2. \A b \in Blocks : Holds(y, b)' <=> Holds(y, b)
  BY DEF Bystander, Holds, Claims, Ours, Entry
<1> QED
  BY <1>1, <1>2 DEF Bystander, Solo

\* A network without faults and with room in the buffers delivers all.
LEMMA AllDelivered ==
  ASSUME Faults = {}, NEW x \in Nodes, NEW pkts \in Seq(McastPacket), Len(pkts) <= 2,
         NEW queues \in [Nodes -> Seq(McastPacket)],
         Multicast(x, pkts, queues), NEW y \in Nodes, x # y,
         Len(queues[y]) + 2 <= QueueCapacity
  PROVE  /\ mcast'[x] = queues[x]
         /\ Up(y) => mcast'[y] = queues[y] \o pkts
         /\ ~ Up(y) => mcast'[y] = queues[y]
<1>1. Delivered(pkts) = {pkts}
  BY DEF Delivered
<1>2. PICK heard \in [Nodes -> {pkts}] :
        mcast' = [r \in Nodes |-> IF r # x /\ Up(r)
                                  THEN Enqueue(queues[r], heard[r])
                                  ELSE queues[r]]
  BY <1>1 DEF Multicast
<1>3. heard[y] = pkts
  BY <1>2
<1>4. Enqueue(queues[y], pkts) = queues[y] \o pkts
  <2> DEFINE q == queues[y]
             r == q \o pkts
  <2>1. q \in Seq(McastPacket) /\ Len(q) \in Nat /\ Len(pkts) \in Nat
    OBVIOUS
  <2> HIDE DEF q
  <2>2. r \in Seq(McastPacket) /\ Len(r) = Len(q) + Len(pkts)
    BY <2>1, ConcatProperties
  <2>3. Len(r) <= QueueCapacity
    BY <2>1, <2>2, SwarmAssumption DEF q
  <2> HIDE DEF r
  <2>4. SubSeq(r, 1, Len(r)) = r
    BY <2>2
  <2> QED
    BY <2>3, <2>4 DEF Enqueue, r, q
<1> QED
  BY <1>2, <1>3, <1>4


\* Buffers that do not change.
LEMMA SameBuffer ==
  ASSUME NEW x, NEW y, NEW b, mcast'[y] = mcast[y]
  PROVE  /\ Asked(x, y, b)' <=> Asked(x, y, b)
         /\ Told(x, y, b)' <=> Told(x, y, b)
         /\ Answered(mcast[y], x, b)' <=> Answered(mcast[y], x, b)
         /\ FromOnly(mcast[y], x)' <=> FromOnly(mcast[y], x)
  BY DEF Asked, Told, HasInquiry, HasUpdate, Answered, FromOnly

\* An empty buffer.
LEMMA EmptyBuffer ==
  ASSUME NEW x, NEW b
  PROVE  /\ ~ HasInquiry(<< >>, x, b) /\ ~ HasUpdate(<< >>, x, b)
         /\ Answered(<< >>, x, b) /\ FromOnly(<< >>, x)
  BY DEF HasInquiry, HasUpdate, Answered, FromOnly

\* A block at two daemons: what the invariant says before the step.
LEMMA BlockFacts ==
  ASSUME PairInv, NEW x \in Nodes, NEW y \in Nodes, x # y, NEW b \in Blocks
  PROVE  /\ Heard(x, y, b) /\ Yields(x, y, b) /\ Contest(x, y, b) /\ InOrder(x, y, b)
         /\ Due(x, b) \in Nat /\ hk[x] \in Nat
         /\ Entry(x, b).timeout \in Int /\ Entry(x, b).claiming_counts \in 0 .. 3
         /\ Holds(x, b) => Up(x) /\ learning[x] = FALSE /\ Due(x, b) <= LongestWait
         /\ Claims(x, b) => Entry(x, b).timeout <= TentativeTimeout
         /\ Ours(x, b) => Entry(x, b).timeout <= BlockTimeout
         /\ ~ Up(y) => mcast[y] = << >>
<1>1. /\ FreshInv /\ Solo(x) /\ Solo(y) /\ Pair(x, y)
  BY DEF PairInv
<1>2. /\ Due(x, b) \in Nat /\ hk[x] \in Nat /\ WellFormed(config[x])
      /\ learning[x] = FALSE => Due(x, b) <= LongestWait
  BY <1>1, PairTypes
<1>3. Entry(x, b).timeout \in Int
  BY <1>2, EntryTypes DEF Entry
<1>4. Entry(x, b).claiming_counts \in 0 .. 3
  BY <1>2 DEF WellFormed, TableOK, Block, Entry
<1>5. TidyEntry(config[x], b)
  BY <1>1 DEF Solo, Tidy
<1> QED
  BY <1>1, <1>2, <1>3, <1>4, <1>5 DEF Pair, Toward, Solo, TidyEntry, Entry, Claims, Ours

\* An empty buffer holds no packet.
LEMMA NothingComes ==
  ASSUME NEW x, NEW y, NEW b, mcast[y] = << >>
  PROVE  ~ Asked(x, y, b) /\ ~ Told(x, y, b) /\ Answered(mcast[y], x, b)
  BY EmptyBuffer DEF Asked, Told

\* Two nodes have different ids.
LEMMA IdsDiffer ==
  ASSUME IdlePair, NEW x \in Nodes, NEW y \in Nodes, x # y
  PROVE  /\ NodeId[x] < NodeId[y] => ~ (NodeId[y] < NodeId[x])
         /\ ~ (NodeId[x] < NodeId[y]) => NodeId[y] < NodeId[x]
<1>1. NodeId[x] \in Nat /\ NodeId[y] \in Nat /\ NodeId[x] # NodeId[y]
  BY NodesAssumption DEF IdlePair
<1> QED
  BY <1>1

-----------------------------------------------------------------------------
(* House keeping, up to block_update_claims *)

\* What it means to the two daemons.
Adjusts(x, y) ==
  /\ Up(x) /\ Up(x)' /\ learning[x] = FALSE /\ learning'[x] = FALSE /\ hk'[x] = hk[x]
  /\ Deaf(x) /\ ~ Deaf(x)'
  /\ Rounds(x) \in 1 .. 2 /\ Rounds(x)' = Rounds(x) - 1
  /\ mcast'[x] = mcast[x]
  /\ ~ Up(y) => mcast'[y] = mcast[y]
  /\ Up(y) /\ FromOnly(mcast[y], x) => FromOnly(mcast[y], x)'
  /\ \A b \in Blocks :
       /\ Moved(Entry(x, b), Entry(x, b)')
       /\ Due(x, b) = 0
       /\ Ours(x, b)' => Due(x, b)' = 0
       /\ Up(y) => /\ Asked(x, y, b)' <=> Asked(x, y, b) \/ Claims(x, b)'
                   /\ Told(x, y, b)' <=> Told(x, y, b)
                   /\ Answered(mcast[y], x, b) /\ ~ Claims(x, b)' => Answered(mcast[y], x, b)'

LEMMA Adjusting ==
  ASSUME IdlePair, PairInv, Roomy, NEW x \in Nodes, NEW y \in Nodes, x # y,
         HouseKeeping(x)
  PROVE  Solo(x)' /\ Adjusts(x, y)
<1>1. /\ FreshInv /\ Solo(x) /\ Fresh(x) /\ RefreshInTime /\ Faults = {}
      /\ TentativeTimeout <= BlockTimeout
  BY PairTimes DEF PairInv, FreshInv, IdlePair
<1>2. /\ hk[x] \in Nat /\ learning[x] \in BOOLEAN /\ need[x] \in BOOLEAN
      /\ WellFormed(config[x])
      /\ mcast \in [Nodes -> Seq(McastPacket)]
  BY <1>1, PairTypes DEF FreshInv, Inv, TypeOK
<1>3. /\ pc[x] = "run" /\ ready[x] = {} /\ need[x] = TRUE /\ learning[x] = FALSE
      /\ hk' = hk /\ learning' = learning /\ server' = server
      /\ ready' = ready /\ need' = need
  BY <1>2 DEF HouseKeeping, RoundOver
<1>4. pc'[x] = "update"
  BY <1>1 DEF HouseKeeping, FreshInv, Inv, TypeOK
<1>5. PICK o \in CheckAndAdjust(x, config[x], {TRUE}) :
        config' = [config EXCEPT ![x] = o.config] /\ Multicast(x, o.sent, mcast)
  BY <1>1, SendsSucceed DEF HouseKeeping
<1>6. Lasting(config[x], 0) /\ Tidy(config[x])
  BY <1>1, <1>3 DEF Fresh, Solo
<1> DEFINE d == o.config
<1>7. config'[x] = d
  BY <1>1, <1>5 DEF FreshInv, Inv, TypeOK
<1>8. /\ WellFormed(d) /\ Tidy(d) /\ \A b \in Blocks : Moved(config[x].blocks[b], d.blocks[b])
      /\ d.claiming_blocks = InState(d, "CLAIMING")
      /\ o.sent = Announcement(x, d)
  BY <1>1, <1>2, <1>6, ClaimsAnnounced DEF Claimed
<1>9. d.claiming_blocks \in SUBSET Blocks
  BY <1>8 DEF InState
<1> HIDE DEF d
<1>10. o.sent \in Seq(McastPacket) /\ Len(o.sent) <= 2
  <2> DEFINE sent == Announcement(x, d)
  <2>1. \A b : sent \in Seq(McastPacket) /\ Len(sent) <= 1
    BY <1>2, <1>9, AnnouncedLast
  <2> HIDE DEF sent
  <2>2. sent \in Seq(McastPacket) /\ Len(sent) <= 2
    BY <2>1
  <2> QED
    BY <1>8, <2>2 DEF sent
<1>11. /\ mcast'[x] = mcast[x]
       /\ Up(y) => mcast'[y] = mcast[y] \o o.sent
       /\ ~ Up(y) => mcast'[y] = mcast[y]
  BY <1>1, <1>2, <1>5, <1>10, AllDelivered DEF Roomy
<1>12. Up(x) /\ Up(x)' /\ Busy(x) /\ Busy(x)' /\ hk[x] > 0
  BY <1>1, <1>3, <1>4 DEF Up, Busy, Solo
<1>13. Deaf(x) /\ ~ Deaf(x)'
  BY <1>3, <1>4 DEF Deaf
<1>14. Rounds(x) = 1 + One(mcast[x] # << >>) /\ Rounds(x)' = One(mcast[x] # << >>)
  <2>1. Rounds(x) = One(Deaf(x)) + One(mcast[x] # << >>)
    BY <1>3 DEF Rounds
  <2>2. Rounds(x)' = One(Deaf(x)') + One(mcast'[x] # << >>)
    BY <1>4 DEF Rounds, One
  <2>3. One(mcast[x] # << >>) \in 0 .. 1
    BY DEF One
  <2> QED
    BY <1>11, <1>13, <2>1, <2>2, <2>3 DEF One
<1>15. Rounds(x) \in 1 .. 2 /\ Rounds(x)' = Rounds(x) - 1
  BY <1>14 DEF One
<1>16. ASSUME NEW b \in Blocks
       PROVE  /\ Moved(Entry(x, b), Entry(x, b)')
              /\ Due(x, b) = 0
              /\ Ours(x, b)' => Due(x, b)' = 0
  BY <1>3, <1>4, <1>7, <1>8 DEF Entry, Due
<1>17. ASSUME Up(y), NEW b \in Blocks
       PROVE  /\ Asked(x, y, b)' <=> Asked(x, y, b) \/ Claims(x, b)'
              /\ Told(x, y, b)' <=> Told(x, y, b)
              /\ Answered(mcast[y], x, b) /\ ~ Claims(x, b)' => Answered(mcast[y], x, b)'
              /\ FromOnly(mcast[y], x) => FromOnly(mcast[y], x)'
  <2> DEFINE r == mcast[y] \o Announcement(x, d)
  <2>1. /\ HasInquiry(r, x, b) <=> HasInquiry(mcast[y], x, b) \/ b \in d.claiming_blocks
        /\ HasUpdate(r, x, b) <=> HasUpdate(mcast[y], x, b)
        /\ Answered(mcast[y], x, b) /\ b \notin d.claiming_blocks => Answered(r, x, b)
        /\ FromOnly(mcast[y], x) => FromOnly(r, x)
    BY <1>2, <1>9, AnnouncedLast
  <2>2. r = mcast'[y]
    BY <1>8, <1>11, <1>17
  <2> HIDE DEF r
  <2>3. b \in d.claiming_blocks <=> Claims(x, b)'
    BY <1>7, <1>8 DEF InState, Claims, Entry
  <2> QED
    BY <2>1, <2>2, <2>3 DEF Asked, Told
<1>18. Up(y) /\ FromOnly(mcast[y], x) => FromOnly(mcast[y], x)'
  <2>1. 0 \in Blocks
    BY SizesAssumption DEF Blocks
  <2> QED
    BY <1>17, <2>1
<1>19. Adjusts(x, y)
  BY <1>3, <1>11, <1>12, <1>13, <1>15, <1>16, <1>17, <1>18 DEF Adjusts
<1>20. Solo(x)'
  BY <1>1, <1>3, <1>4, <1>7, <1>8, <1>11, <1>12 DEF Solo
<1> QED
  BY <1>19, <1>20

\* It keeps what the invariant says of a block.
LEMMA AdjustingBlock ==
  ASSUME IdlePair, PairInv, NEW x \in Nodes, NEW y \in Nodes, x # y,
         Adjusts(x, y), Still(y), NEW b \in Blocks
  PROVE  Toward(x, y, b)' /\ Toward(y, x, b)'
<1> DEFINE old == Entry(x, b)
           other == Entry(y, b)
           new == Entry(x, b)'
<1>1. /\ Heard(x, y, b) /\ Yields(x, y, b) /\ Contest(x, y, b) /\ InOrder(x, y, b)
      /\ Heard(y, x, b) /\ Yields(y, x, b) /\ Contest(y, x, b) /\ InOrder(y, x, b)
  BY BlockFacts
<1>2. /\ Due(y, b) \in Nat /\ hk[y] \in Nat /\ old.timeout \in Int /\ other.timeout \in Int
      /\ old.claiming_counts \in 0 .. 3 /\ other.claiming_counts \in 0 .. 3
      /\ Holds(y, b) => Up(y)
      /\ Claims(x, b) => old.timeout <= TentativeTimeout
      /\ ~ Up(y) => mcast[y] = << >>
  BY BlockFacts
<1>3. /\ Rounds(x) \in 1 .. 2 /\ Rounds(x)' = Rounds(x) - 1
      /\ Rounds(y) \in 0 .. 2 /\ One(Deaf(y)) \in 0 .. 1 /\ One(Deaf(y)) <= Rounds(y)
      /\ Deaf(x) /\ ~ Deaf(x)' /\ One(Deaf(x)) = 1 /\ One(Deaf(x)') = 0
      /\ Due(x, b) = 0
  BY RoundsType DEF Adjusts, One
<1>4. Moved(old, new)
  BY DEF Adjusts
<1>5. /\ Entry(y, b)' = other /\ Due(y, b)' = Due(y, b) /\ (Deaf(y)' <=> Deaf(y))
      /\ (Up(y)' <=> Up(y)) /\ learning'[y] = learning[y] /\ hk'[y] = hk[y]
      /\ (Holds(y, b)' <=> Holds(y, b)) /\ (Ours(y, b)' <=> Ours(y, b))
  BY DEF Still, Holds, Claims, Ours
<1>6. /\ Asked(y, x, b)' <=> Asked(y, x, b)
      /\ Told(y, x, b)' <=> Told(y, x, b)
      /\ Answered(mcast[x], y, b)' <=> Answered(mcast[x], y, b)
  BY SameBuffer DEF Adjusts
<1>7. /\ Asked(x, y, b) => Asked(x, y, b)'
      /\ Told(x, y, b) => Told(x, y, b)'
  BY <1>2, NothingComes DEF Adjusts
\* A claim is new, or older and not announced too often, or a block is ours.
<1>8. ASSUME Claims(x, b)'
      PROVE  \/ new.claiming_counts = 1 /\ ~ Taken(old) /\ ~ Ours(x, b)
             \/ Claims(x, b) /\ new.claiming_counts = old.claiming_counts + 1
  BY <1>4, <1>8 DEF Moved, Claims, Ours
<1>9. ASSUME Ours(x, b)'
      PROVE  /\ Ours(x, b) \/ (Claims(x, b) /\ old.claiming_counts = 3)
             /\ Holds(x, b) /\ new.timeout = old.timeout /\ ~ Claims(x, b)'
             /\ ~ Early(x, b, Rounds(x)) /\ ~ Early(x, b, 1)
  BY <1>2, <1>3, <1>4, <1>9 DEF Moved, Holds, Claims, Ours, Early
<1>10. ASSUME Claims(x, b)'
       PROVE  /\ new.claiming_counts = 1 \/ Early(x, b, Rounds(x)) => Early(x, b, Rounds(x))'
              /\ new.claiming_counts = 1 \/ Early(x, b, 1) => Early(x, b, 0)'
  BY <1>2, <1>3, <1>8, <1>10 DEF Early
<1>11. ASSUME Holds(y, b), ~ Taken(old), ~ (NodeId[y] < NodeId[x] /\ Asked(x, y, b))
       PROVE  /\ Early(y, b, Rounds(y)) /\ Early(y, b, One(Deaf(y)))
              /\ Asked(y, x, b)
  <2>1. ~ Known(y, x, b) /\ ~ Learns(y, x, b)
    BY <1>2, <1>11 DEF Known, Learns, Taken, Adjusts
  <2>2. Coming(y, x, b)
    BY <1>1, <1>11, <2>1 DEF Heard, Adjusts
  <2>3. Early(y, b, Rounds(y))
    BY <1>3, <1>11, <2>2 DEF Coming
  <2>4. Early(y, b, One(Deaf(y)))
    BY <1>2, <1>3, <2>3 DEF Early
  <2> QED
    BY <2>2, <2>3, <2>4 DEF Coming, Early, Claims, Ours
<1>12. Early(y, b, One(Deaf(y)))' <=> Early(y, b, One(Deaf(y)))
  BY <1>5 DEF Early, Claims, One
<1> HIDE DEF new
<1>13. Heard(x, y, b)'
  <2> SUFFICES ASSUME Holds(x, b)', Up(y)', ~ (NodeId[x] < NodeId[y] /\ Asked(y, x, b)')
               PROVE  Known(x, y, b)' \/ Learns(x, y, b)' \/ Coming(x, y, b)'
    BY DEF Heard
  <2>0. Up(y)
    BY <1>5
  <2>1. ASSUME Holds(x, b)
        PROVE  Known(x, y, b) \/ Learns(x, y, b) \/ Coming(x, y, b)
    BY <1>1, <1>6, <2>0, <2>1 DEF Heard
  <2>2. ASSUME Holds(x, b), Deaf(y)
        PROVE  Taken(other) \/ Early(x, b, Rounds(x))
    BY <1>2, <1>3, <2>1, <2>2 DEF Known, Learns, Coming, Taken, Deaf
  <2>3. CASE Claims(x, b)'
    <3>1. Asked(x, y, b)'
      BY <2>0, <2>3 DEF Adjusts
    <3>2. Deaf(y) => Taken(other) \/ Early(x, b, Rounds(x))'
      BY <1>8, <1>10, <2>2, <2>3 DEF Holds
    <3> QED
      BY <1>5, <3>1, <3>2 DEF Coming
  <2>4. CASE Ours(x, b)'
    <3>1. Due(x, b)' = 0
      BY <2>4 DEF Adjusts
    <3>2. Holds(x, b) /\ Entry(x, b)'.timeout = old.timeout
      BY <1>9, <2>4 DEF new
    <3>3. CASE Known(x, y, b)
      BY <1>3, <1>5, <3>1, <3>2, <3>3 DEF Known
    <3>4. CASE Learns(x, y, b)
      BY <1>3, <1>5, <3>1, <3>2, <3>4 DEF Learns
    <3>5. CASE Coming(x, y, b)
      BY <1>5, <1>7, <1>9, <2>4, <3>5 DEF Coming
    <3> QED
      BY <2>1, <3>2, <3>3, <3>4, <3>5
  <2> QED
    BY <2>3, <2>4 DEF Holds
<1>14. Heard(y, x, b)'
  <2> SUFFICES ASSUME Holds(y, b)', ~ (NodeId[y] < NodeId[x] /\ Asked(x, y, b)')
               PROVE  Known(y, x, b)' \/ Learns(y, x, b)' \/ Coming(y, x, b)'
    BY DEF Heard
  <2>1. Known(y, x, b) \/ Learns(y, x, b) \/ Coming(y, x, b)
    BY <1>1, <1>5, <1>7 DEF Heard, Adjusts
  <2>2. ASSUME Known(y, x, b) PROVE Known(y, x, b)'
    <3>1. Taken(old) /\ old.state \notin {"OURS", "CLAIMING"}
      BY <1>2, <2>2 DEF Known, Taken
    <3>2. Entry(x, b)'.state = old.state /\ Entry(x, b)'.timeout = old.timeout
      BY <1>4, <3>1 DEF Moved, new
    <3> QED
      BY <1>5, <2>2, <3>2 DEF Known
  <2>3. ASSUME Coming(y, x, b) PROVE Coming(y, x, b)'
    BY <1>3, <1>5, <1>6, <2>3 DEF Coming
  <2>4. ~ Learns(y, x, b)
    BY DEF Learns, Adjusts
  <2> QED
    BY <2>1, <2>2, <2>3, <2>4
<1>15. Yields(x, y, b)'
  <2> SUFFICES ASSUME Holds(y, b), Told(x, y, b)' \/ Asked(x, y, b)'
               PROVE  Early(y, b, One(Deaf(y)))
    BY <1>5, <1>12 DEF Yields
  <2>1. CASE Told(x, y, b) \/ Asked(x, y, b)
    BY <1>1, <2>1 DEF Yields
  <2>2. CASE ~ (Told(x, y, b) \/ Asked(x, y, b))
    <3>1. Claims(x, b)'
      BY <1>2, <2>2 DEF Adjusts
    <3>2. CASE Claims(x, b)
      <4>1. Early(y, b, Rounds(y))
        BY <1>1, <1>3, <2>2, <3>2, IdsDiffer DEF Contest, Holds
      <4> QED
        BY <1>2, <1>3, <4>1 DEF Early
    <3>3. CASE ~ Claims(x, b)
      BY <1>8, <1>11, <2>2, <3>1, <3>3
    <3> QED
      BY <3>2, <3>3
  <2> QED
    BY <2>1, <2>2
<1>16. Yields(y, x, b)'
  <2> SUFFICES ASSUME Holds(x, b)', Told(y, x, b) \/ Asked(y, x, b)
               PROVE  Early(x, b, 0)'
    BY <1>3, <1>6 DEF Yields, Early
  <2>1. Holds(x, b) => Early(x, b, 1)
    BY <1>1, <1>3 DEF Yields
  <2>2. ~ Ours(x, b)'
    BY <1>9, <2>1
  <2> QED
    BY <1>8, <1>10, <2>1, <2>2 DEF Holds
<1>17. Contest(x, y, b)'
  <2> SUFFICES ASSUME NodeId[x] < NodeId[y], Holds(x, b)', Holds(y, b)
               PROVE  Asked(y, x, b)
    BY <1>3, <1>5, <1>6 DEF Contest
  <2>1. CASE Holds(x, b)
    BY <1>1, <2>1 DEF Contest
  <2>2. CASE ~ Holds(x, b)
    <3>1. ~ Taken(old)
      BY <1>8, <1>9, <2>2 DEF Holds
    <3> QED
      BY <1>11, <3>1, IdsDiffer
  <2> QED
    BY <2>1, <2>2
<1>18. Contest(y, x, b)'
  <2> SUFFICES ASSUME NodeId[y] < NodeId[x], Holds(y, b), Holds(x, b)'
               PROVE  Asked(x, y, b)' /\ (Deaf(y) => Early(x, b, Rounds(x))')
    BY <1>5 DEF Contest
  <2>1. Holds(x, b) => Asked(x, y, b) /\ (Deaf(y) => Early(x, b, Rounds(x)))
    BY <1>1 DEF Contest
  <2>2. CASE Claims(x, b)'
    <3>1. Asked(x, y, b)'
      BY <1>2, <2>2 DEF Adjusts
    <3> QED
      BY <1>8, <1>10, <2>1, <2>2, <3>1 DEF Holds
  <2>3. CASE Ours(x, b)'
    BY <1>7, <1>9, <2>1, <2>3
  <2> QED
    BY <2>2, <2>3 DEF Holds
<1>19. InOrder(x, y, b)'
  <2> SUFFICES ASSUME Ours(x, b)', Entry(x, b)'.timeout > TentativeTimeout
               PROVE  Answered(mcast[y], x, b)'
    BY DEF InOrder
  <2>1. Entry(x, b)'.timeout = old.timeout /\ ~ Claims(x, b)'
    BY <1>9 DEF new
  <2>2. Ours(x, b)
    BY <1>2, <1>9, <2>1, PairTimes
  <2>3. Answered(mcast[y], x, b)
    BY <1>1, <2>1, <2>2 DEF InOrder
  <2> QED
    BY <2>1, <2>3, SameBuffer DEF Adjusts
<1>20. InOrder(y, x, b)'
  BY <1>1, <1>5, <1>6 DEF InOrder
<1> QED
  BY <1>13, <1>14, <1>15, <1>16, <1>17, <1>18, <1>19, <1>20 DEF Toward

\* Two daemons after a step of one of them that keeps what the invariant says
\* of every block.
LEMMA PairKept ==
  ASSUME NEW x, NEW y, FromOnly(mcast[x], y)', FromOnly(mcast[y], x)',
         \A b \in Blocks : Toward(x, y, b)' /\ Toward(y, x, b)'
  PROVE  Pair(x, y)' /\ Pair(y, x)'
  BY DEF Pair

\* It keeps the invariant.
LEMMA HouseKeepingPair ==
  ASSUME IdlePair, PairInv, Roomy, NEW x \in Nodes, NEW y \in Nodes, x # y,
         HouseKeeping(x)
  PROVE  Solo(x)' /\ Solo(y)' /\ Pair(x, y)' /\ Pair(y, x)'
<1>1. Solo(x)' /\ Adjusts(x, y)
  BY Adjusting
<1>2. Bystander(y) /\ Still(y)
  BY OthersStand, BystanderStill DEF PairInv, Daemon
<1>3. Solo(y) /\ Solo(x) /\ Pair(x, y) /\ Pair(y, x)
  BY DEF PairInv
<1>4. Solo(y)'
  <2>1. server' = server
    BY DEF HouseKeeping
  <2> QED
    BY <1>1, <1>2, <1>3, <2>1, BystanderSolo DEF Adjusts
<1>5. FromOnly(mcast[x], y)' /\ FromOnly(mcast[y], x)'
  BY <1>1, <1>3, SameBuffer DEF Pair, Adjusts
<1> QED
  BY <1>1, <1>2, <1>4, <1>5, AdjustingBlock, PairKept

-----------------------------------------------------------------------------
(* House keeping, from block_update_claims on *)

\* What it means to the two daemons.
Refreshes(x, y, due) ==
  /\ Up(x) /\ Up(x)' /\ learning[x] = FALSE /\ learning'[x] = FALSE /\ hk'[x] = hk[x]
  /\ ~ Deaf(x) /\ ~ Deaf(x)' /\ Rounds(x)' = Rounds(x)
  /\ mcast'[x] = mcast[x]
  /\ ~ Up(y) => mcast'[y] = mcast[y]
  /\ Up(y) /\ FromOnly(mcast[y], x) => FromOnly(mcast[y], x)'
  /\ \A b \in Blocks :
       /\ Entry(x, b)'.state = Entry(x, b).state
       /\ Entry(x, b)'.claiming_counts = Entry(x, b).claiming_counts
       /\ Entry(x, b)'.timeout = IF Ours(x, b) /\ due = TRUE
                                 THEN BlockTimeout ELSE Entry(x, b).timeout
       /\ Ours(x, b) /\ due = FALSE => Entry(x, b).timeout >= Baseline
       /\ ~ Ours(x, b) => Due(x, b)' = Due(x, b)
       /\ Due(x, b)' \in Nat /\ Due(x, b)' <= LongestWait
       /\ Up(y) => /\ Asked(x, y, b)' <=> Asked(x, y, b)
                   /\ Told(x, y, b)' <=> Told(x, y, b) \/ (due = TRUE /\ Ours(x, b))
                   /\ Answered(mcast[y], x, b) \/ (due = TRUE /\ Ours(x, b))
                        => Answered(mcast[y], x, b)'

LEMMA Refreshing ==
  ASSUME IdlePair, PairInv, Roomy, NEW x \in Nodes, NEW y \in Nodes, x # y,
         HouseKeepingEnds(x)
  PROVE  Solo(x)' /\ \E due \in BOOLEAN : Refreshes(x, y, due)
<1>1. /\ FreshInv /\ Solo(x) /\ Fresh(x) /\ RefreshInTime /\ Faults = {} /\ Steadfast
  BY PairTimes DEF PairInv, FreshInv, IdlePair
<1>2. /\ hk[x] \in Nat /\ learning[x] \in BOOLEAN
      /\ WellFormed(config[x])
      /\ mcast \in [Nodes -> Seq(McastPacket)]
      /\ Grace(x) \in Nat /\ (learning[x] = FALSE => Grace(x) <= LongestWait)
  BY <1>1, PairTypes DEF FreshInv, Inv, TypeOK
<1>3. /\ pc[x] = "update" /\ learning[x] = FALSE /\ ready[x] = {}
      /\ hk' = hk /\ learning' = learning /\ loop' = loop /\ server' = server
  BY <1>1, <1>2 DEF HouseKeepingEnds, Fresh, Solo
<1>4. pc'[x] = "wait" /\ ready'[x] = {} /\ need'[x] = FALSE
  BY <1>1 DEF HouseKeepingEnds, BackToEpoll, FreshInv, Inv, TypeOK
<1>5. PICK o \in RefreshAndForget(x, config[x], {TRUE}) :
        config' = [config EXCEPT ![x] = o.config] /\ Multicast(x, o.sent, mcast)
  BY <1>1, SendsSucceed DEF HouseKeepingEnds
<1> DEFINE d == o.config
<1>6. config'[x] = d
  BY <1>1, <1>5 DEF FreshInv, Inv, TypeOK
<1>7. PICK due \in BOOLEAN : Refreshed(x, config[x], d, o.sent, due)
  BY <1>1, <1>2, ClaimsRefreshed DEF Solo
<1> HIDE DEF d
<1>8. /\ WellFormed(d) /\ Tidy(d) /\ o.sent = Renewal(x, d, due)
      /\ \A b \in Blocks :
           /\ d.blocks[b].state = Entry(x, b).state
           /\ d.blocks[b].claiming_counts = Entry(x, b).claiming_counts
           /\ d.blocks[b].timeout = IF d.blocks[b].state = "OURS" /\ due = TRUE
                                    THEN BlockTimeout ELSE Entry(x, b).timeout
           /\ d.blocks[b].state = "OURS" /\ due = FALSE => d.blocks[b].timeout >= Baseline
  BY <1>7 DEF Refreshed, Entry
<1>9. \A b \in Blocks : /\ Entry(x, b)' = d.blocks[b]
                        /\ b \in Owned(d) <=> Ours(x, b)
  BY <1>6, <1>8 DEF Entry, Owned, InState, Ours
<1>10. o.sent \in Seq(McastPacket) /\ Len(o.sent) <= 2
  <2> DEFINE sent == Renewal(x, d, due)
  <2>1. \A b : sent \in Seq(McastPacket) /\ Len(sent) <= 1
    BY <1>2, Renewed
  <2> HIDE DEF sent
  <2>2. sent \in Seq(McastPacket) /\ Len(sent) <= 2
    BY <2>1
  <2> QED
    BY <1>8, <2>2 DEF sent
<1>11. /\ mcast'[x] = mcast[x]
       /\ Up(y) => mcast'[y] = mcast[y] \o o.sent
       /\ ~ Up(y) => mcast'[y] = mcast[y]
  BY <1>1, <1>2, <1>5, <1>10, AllDelivered DEF Roomy
<1>12. Up(x) /\ Up(x)' /\ hk[x] > 0 /\ ~ Deaf(x) /\ ~ Deaf(x)'
  BY <1>1, <1>3, <1>4 DEF Up, Busy, Solo, Deaf
<1>13. Rounds(x)' = Rounds(x)
  <2>1. Rounds(x) = One(Deaf(x)) + One(mcast[x] # << >>)
    BY <1>3 DEF Rounds
  <2>2. Rounds(x)' = One(Deaf(x)') + One(mcast'[x] # << >>)
    BY <1>2, <1>3, <1>4, <1>12 DEF Rounds, One
  <2> QED
    BY <1>11, <1>12, <2>1, <2>2 DEF One
<1>14. ASSUME NEW b \in Blocks
       PROVE  /\ Due(x, b)' = Grace(x)
              /\ ~ Ours(x, b) => Due(x, b) = Grace(x)
  BY <1>3, <1>4 DEF Due, Grace
<1>15. ASSUME Up(y), NEW b \in Blocks
       PROVE  /\ Asked(x, y, b)' <=> Asked(x, y, b)
              /\ Told(x, y, b)' <=> Told(x, y, b) \/ (due = TRUE /\ Ours(x, b))
              /\ Answered(mcast[y], x, b) \/ (due = TRUE /\ Ours(x, b))
                   => Answered(mcast[y], x, b)'
              /\ FromOnly(mcast[y], x) => FromOnly(mcast[y], x)'
  <2> DEFINE r == mcast[y] \o Renewal(x, d, due)
  <2>1. /\ HasInquiry(r, x, b) <=> HasInquiry(mcast[y], x, b)
        /\ HasUpdate(r, x, b) <=> HasUpdate(mcast[y], x, b) \/ (due /\ b \in Owned(d))
        /\ Answered(mcast[y], x, b) \/ (due /\ b \in Owned(d)) => Answered(r, x, b)
        /\ FromOnly(mcast[y], x) => FromOnly(r, x)
    BY <1>2, Renewed
  <2>2. r = mcast'[y]
    BY <1>8, <1>11, <1>15
  <2> HIDE DEF r
  <2> QED
    BY <1>9, <2>1, <2>2 DEF Asked, Told
<1>16. Up(y) /\ FromOnly(mcast[y], x) => FromOnly(mcast[y], x)'
  <2>1. 0 \in Blocks
    BY SizesAssumption DEF Blocks
  <2> QED
    BY <1>15, <2>1
<1>17. ASSUME NEW b \in Blocks
       PROVE  /\ Entry(x, b)'.state = Entry(x, b).state
              /\ Entry(x, b)'.claiming_counts = Entry(x, b).claiming_counts
              /\ Entry(x, b)'.timeout = IF Ours(x, b) /\ due = TRUE
                                        THEN BlockTimeout ELSE Entry(x, b).timeout
              /\ Ours(x, b) /\ due = FALSE => Entry(x, b).timeout >= Baseline
  BY <1>8, <1>9 DEF Ours
<1>18. Refreshes(x, y, due)
  BY <1>2, <1>3, <1>11, <1>12, <1>13, <1>14, <1>15, <1>16, <1>17 DEF Refreshes
<1>19. Solo(x)'
  BY <1>1, <1>3, <1>4, <1>6, <1>8, <1>11, <1>12 DEF Solo, Busy
<1> QED
  BY <1>18, <1>19

\* It keeps what the invariant says of a block.
LEMMA RefreshingBlock ==
  ASSUME IdlePair, PairInv, NEW x \in Nodes, NEW y \in Nodes, x # y,
         NEW due \in BOOLEAN, Refreshes(x, y, due), Still(y), NEW b \in Blocks
  PROVE  Toward(x, y, b)' /\ Toward(y, x, b)'
<1> DEFINE old == Entry(x, b)
           other == Entry(y, b)
           new == Entry(x, b)'
<1>1. /\ Heard(x, y, b) /\ Yields(x, y, b) /\ Contest(x, y, b) /\ InOrder(x, y, b)
      /\ Heard(y, x, b) /\ Yields(y, x, b) /\ Contest(y, x, b) /\ InOrder(y, x, b)
  BY BlockFacts
<1>2. /\ Due(x, b) \in Nat /\ Due(y, b) \in Nat /\ hk[y] \in Nat
      /\ old.timeout \in Int /\ other.timeout \in Int
      /\ Holds(y, b) => Up(y)
      /\ ~ Up(y) => mcast[y] = << >>
  BY BlockFacts
<1>3. /\ Rounds(x)' = Rounds(x) /\ ~ Deaf(x) /\ ~ Deaf(x)'
      /\ Due(x, b)' \in Nat /\ Due(x, b)' <= LongestWait
      /\ LongestWait \in Nat /\ Baseline \in Int /\ LongestWait < Baseline
  BY PairTimes DEF Refreshes
<1>4. /\ new.state = old.state /\ new.claiming_counts = old.claiming_counts
      /\ new.timeout = IF Ours(x, b) /\ due = TRUE THEN BlockTimeout ELSE old.timeout
      /\ Ours(x, b) /\ due = FALSE => old.timeout >= Baseline
      /\ ~ Ours(x, b) => Due(x, b)' = Due(x, b)
  BY DEF Refreshes
<1>5. /\ Entry(y, b)' = other /\ Due(y, b)' = Due(y, b) /\ (Deaf(y)' <=> Deaf(y))
      /\ (Up(y)' <=> Up(y)) /\ learning'[y] = learning[y] /\ hk'[y] = hk[y]
      /\ (Holds(y, b)' <=> Holds(y, b)) /\ (Ours(y, b)' <=> Ours(y, b))
  BY DEF Still, Holds, Claims, Ours
<1>6. /\ Asked(y, x, b)' <=> Asked(y, x, b)
      /\ Told(y, x, b)' <=> Told(y, x, b)
      /\ Answered(mcast[x], y, b)' <=> Answered(mcast[x], y, b)
  BY SameBuffer DEF Refreshes
<1>7. Asked(x, y, b)' <=> Asked(x, y, b)
  BY SameBuffer DEF Refreshes
<1>8. /\ Told(x, y, b) => Told(x, y, b)'
      /\ Told(x, y, b)' => Told(x, y, b) \/ Ours(x, b)
      /\ Up(y) /\ due = TRUE /\ Ours(x, b) => Told(x, y, b)'
  BY SameBuffer DEF Refreshes
<1>9. /\ Holds(x, b)' <=> Holds(x, b)
      /\ Ours(x, b)' <=> Ours(x, b)
      /\ Claims(x, b)' <=> Claims(x, b)
      /\ Ours(x, b) => ~ Claims(x, b)
  BY <1>4 DEF Holds, Claims, Ours
<1>10. /\ Early(x, b, Rounds(x))' <=> Early(x, b, Rounds(x))
       /\ Early(x, b, One(Deaf(x)))' <=> Early(x, b, One(Deaf(x)))
       /\ Early(y, b, One(Deaf(y)))' <=> Early(y, b, One(Deaf(y)))
  BY <1>3, <1>4, <1>5, <1>9 DEF Early, Claims, One
<1> HIDE DEF new
<1>11. Heard(x, y, b)'
  <2> SUFFICES ASSUME Holds(x, b), Up(y), ~ (NodeId[x] < NodeId[y] /\ Asked(y, x, b))
               PROVE  Known(x, y, b)' \/ Learns(x, y, b)' \/ Coming(x, y, b)'
    BY <1>5, <1>6, <1>9 DEF Heard
  <2>1. Known(x, y, b) \/ Learns(x, y, b) \/ Coming(x, y, b)
    BY <1>1 DEF Heard
  <2>2. ASSUME Coming(x, y, b) PROVE Coming(x, y, b)'
    BY <1>5, <1>7, <1>8, <1>9, <1>10, <2>2 DEF Coming
  <2>3. CASE Claims(x, b)
    <3>1. Entry(x, b)'.timeout = old.timeout /\ Due(x, b)' = Due(x, b)
      BY <1>4, <1>9, <2>3 DEF new
    <3>2. Known(x, y, b) => Known(x, y, b)'
      BY <1>5, <3>1 DEF Known
    <3>3. Learns(x, y, b) => Learns(x, y, b)'
      BY <1>5, <3>1 DEF Learns
    <3> QED
      BY <2>1, <2>2, <3>2, <3>3
  <2>4. CASE Ours(x, b) /\ due = TRUE
    <3>1. Told(x, y, b)'
      BY <1>8, <2>4
    <3>2. Deaf(y) => Taken(other)
      BY <1>2, <1>9, <2>1, <2>4 DEF Known, Learns, Coming, Early, Taken, Deaf
    <3> QED
      BY <1>5, <1>9, <2>4, <3>1, <3>2 DEF Coming
  <2>5. CASE Ours(x, b) /\ due = FALSE
    <3>1. Entry(x, b)'.timeout = old.timeout /\ old.timeout > Due(x, b)'
      BY <1>2, <1>3, <1>4, <2>5 DEF new
    <3>2. ASSUME Known(x, y, b) PROVE Known(x, y, b)'
      BY <1>2, <1>3, <1>5, <3>1, <3>2 DEF Known
    <3>3. ASSUME Learns(x, y, b) PROVE Learns(x, y, b)'
      BY <1>2, <1>3, <1>5, <3>1, <3>3 DEF Learns
    <3> QED
      BY <2>1, <2>2, <3>2, <3>3
  <2> QED
    BY <2>3, <2>4, <2>5 DEF Holds
<1>12. Heard(y, x, b)'
  <2> SUFFICES ASSUME Holds(y, b), ~ (NodeId[y] < NodeId[x] /\ Asked(x, y, b))
               PROVE  Known(y, x, b)' \/ Learns(y, x, b)' \/ Coming(y, x, b)'
    BY <1>5, <1>7 DEF Heard
  <2>1. Known(y, x, b) \/ Learns(y, x, b) \/ Coming(y, x, b)
    BY <1>1 DEF Heard, Refreshes
  <2>2. ASSUME Known(y, x, b) PROVE Known(y, x, b)'
    <3>1. Entry(x, b)'.state = old.state /\ Entry(x, b)'.timeout = old.timeout
      BY <1>4, <2>2 DEF Known, Ours, new
    <3> QED
      BY <1>5, <2>2, <3>1 DEF Known
  <2>3. ASSUME Coming(y, x, b) PROVE Coming(y, x, b)'
    BY <1>3, <1>5, <1>6, <2>3 DEF Coming
  <2>4. ~ Learns(y, x, b)
    BY DEF Learns, Refreshes
  <2> QED
    BY <2>1, <2>2, <2>3, <2>4
<1>13. Yields(x, y, b)'
  <2> SUFFICES ASSUME Holds(y, b), Told(x, y, b)' \/ Asked(x, y, b)
               PROVE  Early(y, b, One(Deaf(y)))
    BY <1>5, <1>7, <1>10 DEF Yields
  <2>1. CASE Told(x, y, b) \/ Asked(x, y, b)
    BY <1>1, <2>1 DEF Yields
  <2>2. CASE ~ (Told(x, y, b) \/ Asked(x, y, b))
    <3>1. Ours(x, b) /\ Holds(x, b)
      BY <1>8, <2>2 DEF Holds
    <3>2. Asked(y, x, b)
      BY <1>1, <2>2, <3>1, IdsDiffer DEF Contest
    <3> QED
      BY <1>1, <1>9, <3>1, <3>2 DEF Yields, Early
  <2> QED
    BY <2>1, <2>2
<1>14. Yields(y, x, b)'
  BY <1>1, <1>6, <1>9, <1>10 DEF Yields
<1>15. Contest(x, y, b)'
  BY <1>1, <1>3, <1>5, <1>6, <1>9 DEF Contest
<1>16. Contest(y, x, b)'
  BY <1>1, <1>5, <1>7, <1>9, <1>10 DEF Contest
<1>17. InOrder(x, y, b)'
  <2> SUFFICES ASSUME Ours(x, b), Entry(x, b)'.timeout > TentativeTimeout
               PROVE  Answered(mcast[y], x, b)'
    BY <1>9 DEF InOrder
  <2>1. due = TRUE \/ Answered(mcast[y], x, b)
    BY <1>1, <1>4 DEF InOrder, new
  <2>2. CASE Up(y)
    BY <2>1, <2>2 DEF Refreshes
  <2>3. CASE ~ Up(y)
    BY <1>2, <2>3, NothingComes, SameBuffer DEF Refreshes
  <2> QED
    BY <2>2, <2>3
<1>18. InOrder(y, x, b)'
  BY <1>1, <1>5, <1>6 DEF InOrder
<1> QED
  BY <1>11, <1>12, <1>13, <1>14, <1>15, <1>16, <1>17, <1>18 DEF Toward

\* It keeps the invariant.
LEMMA HouseKeepingEndsPair ==
  ASSUME IdlePair, PairInv, Roomy, NEW x \in Nodes, NEW y \in Nodes, x # y,
         HouseKeepingEnds(x)
  PROVE  Solo(x)' /\ Solo(y)' /\ Pair(x, y)' /\ Pair(y, x)'
<1>1. Solo(x)'
  BY Refreshing
<1>2. PICK due \in BOOLEAN : Refreshes(x, y, due)
  BY Refreshing
<1>3. Bystander(y) /\ Still(y)
  BY OthersStand, BystanderStill DEF PairInv, Daemon
<1>4. Solo(y) /\ Solo(x) /\ Pair(x, y) /\ Pair(y, x)
  BY DEF PairInv
<1>5. Solo(y)'
  <2>1. server' = server
    BY DEF HouseKeepingEnds
  <2> QED
    BY <1>2, <1>3, <1>4, <2>1, BystanderSolo DEF Refreshes
<1>6. FromOnly(mcast[x], y)' /\ FromOnly(mcast[y], x)'
  BY <1>2, <1>4, SameBuffer DEF Pair, Refreshes
<1> QED
  BY <1>1, <1>2, <1>3, <1>5, <1>6, RefreshingBlock, PairKept

-----------------------------------------------------------------------------
(* One of them reads an entry *)

\* x reads entry b of the first packet in its buffer, and answers with sent.
Reads(x, y, b, d, sent) ==
  /\ config'[x] = d /\ WellFormed(d)
  /\ Up(x) /\ Up(x)' /\ hk[x] > 0
  /\ learning'[x] = learning[x] /\ hk'[x] = hk[x]
  /\ \A e : Due(x, e) = 0 /\ Due(x, e)' = 0
  /\ ~ Deaf(x) /\ ~ Deaf(x)' /\ Rounds(x)' = Rounds(x)
  /\ mcast'[x] \in Seq(McastPacket)
  /\ Consumed(mcast[x], mcast'[x], b, y)
  /\ Up(y) => mcast'[y] = mcast[y] \o sent
  /\ ~ Up(y) => mcast'[y] = mcast[y]

\* The handler reads an entry the other daemon has sent.
LEMMA ReadingEntry ==
  ASSUME IdlePair, PairInv, Roomy, NEW x \in Nodes, NEW y \in Nodes, x # y,
         hdl_ddhcp_block(x)
  PROVE  /\ ready' = ready /\ server' = server
         /\ pc'[x] = "run" /\ pc[x] = "run" /\ need' = need
         /\ Head(mcast[x]) \in McastPacket /\ Head(mcast[x]).sender = y
         /\ mcast[x] \in Seq(McastPacket) /\ mcast[x] # << >>
         /\ \E b \in Head(mcast[x]).payload :
              \E o \in ddhcp_block_process(x, Head(mcast[x]), b, config[x], {TRUE}) :
                Len(o.sent) <= 2 => Reads(x, y, b, o.config, o.sent)
<1> DEFINE m == Head(mcast[x])
<1>1. /\ FreshInv /\ Solo(x) /\ Pair(y, x) /\ RefreshInTime /\ Faults = {}
      /\ WellFormed(config[x]) /\ mcast \in [Nodes -> Seq(McastPacket)]
      /\ hk[x] \in Nat
  BY PairTimes, PairTypes DEF PairInv, IdlePair, FreshInv, Inv, TypeOK
<1>2. /\ pc[x] = "run" /\ MCAST \in ready[x] /\ mcast[x] # << >>
      /\ UNCHANGED <<ready, pc, need, learning, hk, loop, server>>
  BY DEF hdl_ddhcp_block, Turn, MayRead
<1>3. need[x] = TRUE
  BY <1>1, <1>2 DEF Solo
<1>4. m \in McastPacket /\ m.sender = y /\ mcast[x] \in Seq(McastPacket)
  BY <1>1, <1>2, HeadTailProperties DEF Pair, FromOnly
<1>5. PICK b \in m.payload :
        \E o \in ddhcp_block_process(x, m, b, config[x], {TRUE}) :
          /\ config' = [config EXCEPT ![x] = o.config]
          /\ Multicast(x, o.sent, AfterEntry(x, b))
  BY <1>1, SendsSucceed DEF hdl_ddhcp_block
<1>6. PICK o \in ddhcp_block_process(x, m, b, config[x], {TRUE}) :
        /\ config' = [config EXCEPT ![x] = o.config]
        /\ Multicast(x, o.sent, AfterEntry(x, b))
  BY <1>5
<1>7. b \in Blocks
  BY <1>4 DEF McastPacket
<1> HIDE DEF m
<1>8. WellFormed(o.config) /\ o.sent \in Seq(McastPacket)
  BY <1>1, <1>4, <1>6, <1>7, EntryOK, QuietWellFormed DEF WellFormed
<1>9. config'[x] = o.config
  BY <1>1, <1>6 DEF FreshInv, Inv, TypeOK
<1>10. Up(x) /\ Up(x)' /\ hk[x] > 0
  BY <1>1, <1>2 DEF Up, Busy, Solo
<1>11. ~ Deaf(x) /\ ~ Deaf(x)' /\ Rounds(x)' = Rounds(x)
  BY <1>2 DEF Deaf, Rounds
<1>12. \A e : Due(x, e) = 0 /\ Due(x, e)' = 0
  BY <1>2, <1>3 DEF Due
<1>13. ASSUME Len(o.sent) <= 2
       PROVE  Reads(x, y, b, o.config, o.sent)
  <2> DEFINE queues == AfterEntry(x, b)
             rest == [m EXCEPT !.payload = m.payload \ {b}]
             r == (IF rest.payload = {} THEN << >> ELSE <<rest>>) \o Tail(mcast[x])
  <2>0. Multicast(x, o.sent, queues)
    BY <1>6
  <2>1. queues \in [Nodes -> Seq(McastPacket)]
    BY <1>1, <1>2, AfterEntryType DEF FreshInv
  <2>2. queues[y] = mcast[y] /\ queues[x] = r
    BY <1>1 DEF AfterEntry, m
  <2>3. r \in Seq(McastPacket) /\ Consumed(mcast[x], r, b, y)
    BY <1>2, <1>4, EntryConsumed DEF m
  <2> HIDE DEF r
  <2>4. Len(queues[y]) + 2 <= QueueCapacity
    BY <2>2 DEF Roomy
  <2>5. /\ mcast'[x] = queues[x]
        /\ Up(y) => mcast'[y] = queues[y] \o o.sent
        /\ ~ Up(y) => mcast'[y] = queues[y]
    BY <1>1, <1>8, <1>13, <2>0, <2>1, <2>4, AllDelivered
  <2> QED
    BY <1>2, <1>8, <1>9, <1>10, <1>11, <1>12, <2>2, <2>3, <2>5 DEF Reads
<1> QED
  BY <1>2, <1>3, <1>4, <1>13 DEF m

\* All the invariant says of block b.
BlockInv(x, y, b) == Toward(x, y, b) /\ Toward(y, x, b)

\* What reading a packet says of all blocks.
LEMMA ReadingFacts ==
  ASSUME PairInv, NEW x \in Nodes, NEW y \in Nodes, x # y, NEW b, NEW d, NEW sent,
         Reads(x, y, b, d, sent), Still(y), NEW e \in Blocks
  PROVE  /\ BlockInv(x, y, e)
         /\ Entry(x, e)' = d.blocks[e] /\ Entry(x, e) = config[x].blocks[e]
         /\ Entry(y, e)' = Entry(y, e)
         /\ Due(x, e)' = Due(x, e) /\ Due(y, e)' = Due(y, e)
         /\ Due(x, e) \in Nat /\ Due(y, e) \in Nat
         /\ learning'[x] = learning[x] /\ learning'[y] = learning[y]
         /\ hk'[x] = hk[x] /\ hk'[y] = hk[y] /\ hk[x] \in Nat /\ hk[y] \in Nat
         /\ Up(x) /\ Up(x)' /\ (Up(y)' <=> Up(y))
         /\ ~ Deaf(x) /\ ~ Deaf(x)' /\ (Deaf(y)' <=> Deaf(y))
         /\ Rounds(x)' = Rounds(x)
         /\ mcast'[y] = mcast[y] => Rounds(y)' = Rounds(y)
         /\ (Holds(y, e)' <=> Holds(y, e)) /\ (Ours(y, e)' <=> Ours(y, e))
         /\ \A more : Early(y, e, more)' <=> Early(y, e, more)
         /\ Asked(y, x, e)' => Asked(y, x, e)
         /\ Told(y, x, e)' => Told(y, x, e)
         /\ e # b => (Asked(y, x, e) => Asked(y, x, e)') /\ (Told(y, x, e) => Told(y, x, e)')
         /\ Head(mcast[x]).command = "INQUIRE" /\ Told(y, x, e) => Told(y, x, e)'
         /\ Answered(mcast[x], y, e) => Answered(mcast[x], y, e)'
<1>1. BlockInv(x, y, e)
  BY BlockFacts DEF BlockInv, Toward
<1>2. /\ Due(x, e) \in Nat /\ Due(y, e) \in Nat /\ hk[x] \in Nat /\ hk[y] \in Nat
  BY BlockFacts
<1>3. /\ Asked(y, x, e)' => Asked(y, x, e)
      /\ Told(y, x, e)' => Told(y, x, e)
      /\ e # b => (Asked(y, x, e) => Asked(y, x, e)') /\ (Told(y, x, e) => Told(y, x, e)')
      /\ Answered(mcast[x], y, e) => Answered(mcast[x], y, e)'
      /\ Head(mcast[x]).command = "INQUIRE" /\ Told(y, x, e) => Told(y, x, e)'
  <2>1. Consumed(mcast[x], mcast'[x], b, y)
    BY DEF Reads
  <2>2. CASE e = b
    BY <2>1, <2>2 DEF Consumed, Asked, Told
  <2>3. CASE e # b
    BY <2>1, <2>3 DEF Consumed, Asked, Told
  <2> QED
    BY <2>2, <2>3
<1>4. Entry(x, e)' = d.blocks[e] /\ Entry(x, e) = config[x].blocks[e]
  BY DEF Reads, Entry
<1>5. /\ Entry(y, e)' = Entry(y, e)
      /\ (Holds(y, e)' <=> Holds(y, e)) /\ (Ours(y, e)' <=> Ours(y, e))
      /\ \A more : Early(y, e, more)' <=> Early(y, e, more)
  BY DEF Still, Holds, Claims, Ours, Early
<1> QED
  BY <1>1, <1>2, <1>3, <1>4, <1>5 DEF Reads, Still

\* A block the packet does not change at x.
LEMMA UntouchedBlock ==
  ASSUME PairInv, NEW x \in Nodes, NEW y \in Nodes, x # y, NEW b, NEW d, NEW sent,
         Reads(x, y, b, d, sent), Still(y), NEW e \in Blocks, e # b,
         d.blocks[e] = config[x].blocks[e], mcast'[y] = mcast[y]
  PROVE  BlockInv(x, y, e)'
<1>1. /\ BlockInv(x, y, e)
      /\ Entry(x, e)' = Entry(x, e)
      /\ Entry(y, e)' = Entry(y, e)
      /\ Due(x, e)' = Due(x, e) /\ Due(y, e)' = Due(y, e)
      /\ learning'[x] = learning[x] /\ learning'[y] = learning[y]
      /\ hk'[x] = hk[x] /\ hk'[y] = hk[y]
      /\ Up(x) /\ (Up(y)' <=> Up(y))
      /\ ~ Deaf(x) /\ ~ Deaf(x)' /\ (Deaf(y)' <=> Deaf(y))
      /\ Rounds(x)' = Rounds(x) /\ Rounds(y)' = Rounds(y)
      /\ (Holds(y, e)' <=> Holds(y, e)) /\ (Ours(y, e)' <=> Ours(y, e))
      /\ \A more : Early(y, e, more)' <=> Early(y, e, more)
      /\ Asked(y, x, e)' <=> Asked(y, x, e)
      /\ Told(y, x, e)' <=> Told(y, x, e)
      /\ Answered(mcast[x], y, e) => Answered(mcast[x], y, e)'
  BY ReadingFacts
<1>2. /\ Asked(x, y, e)' <=> Asked(x, y, e)
      /\ Told(x, y, e)' <=> Told(x, y, e)
      /\ Answered(mcast[y], x, e)' <=> Answered(mcast[y], x, e)
  BY SameBuffer
<1>3. /\ (Holds(x, e)' <=> Holds(x, e)) /\ (Ours(x, e)' <=> Ours(x, e))
      /\ Early(x, e, Rounds(x))' <=> Early(x, e, Rounds(x))
      /\ Early(y, e, Rounds(y))' <=> Early(y, e, Rounds(y))
      /\ Early(x, e, One(Deaf(x)))' <=> Early(x, e, One(Deaf(x)))
      /\ Early(y, e, One(Deaf(y)))' <=> Early(y, e, One(Deaf(y)))
  BY <1>1 DEF Holds, Claims, Ours, Early, One
<1>4. Known(x, y, e)' <=> Known(x, y, e)
  BY <1>1 DEF Known
<1>5. Known(y, x, e)' <=> Known(y, x, e)
  BY <1>1 DEF Known
<1>6. Learns(x, y, e)' <=> Learns(x, y, e)
  BY <1>1 DEF Learns
<1>7. Learns(y, x, e)' <=> Learns(y, x, e)
  BY <1>1 DEF Learns
<1>8. Coming(x, y, e) => Coming(x, y, e)'
  BY <1>1, <1>2, <1>3 DEF Coming
<1>9. Coming(y, x, e) => Coming(y, x, e)'
  BY <1>1, <1>2, <1>3 DEF Coming
<1>10. Heard(x, y, e)' /\ Heard(y, x, e)'
  BY <1>1, <1>2, <1>3, <1>4, <1>5, <1>6, <1>7, <1>8, <1>9 DEF BlockInv, Toward, Heard
<1>11. Yields(x, y, e)' /\ Yields(y, x, e)' /\ Contest(x, y, e)' /\ Contest(y, x, e)'
  BY <1>1, <1>2, <1>3 DEF BlockInv, Toward, Yields, Contest
<1>12. InOrder(x, y, e)' /\ InOrder(y, x, e)'
  BY <1>1, <1>2, <1>3 DEF BlockInv, Toward, InOrder
<1> QED
  BY <1>10, <1>11, <1>12 DEF BlockInv, Toward

\* x notes that b is claimed or asked for by y.
LEMMA NoticedBlock ==
  ASSUME IdlePair, PairInv, NEW x \in Nodes, NEW y \in Nodes, x # y,
         NEW b \in Blocks, NEW d, NEW sent, Reads(x, y, b, d, sent), Still(y),
         d.blocks[b].state \in {"CLAIMED", "TENTATIVE"},
         d.blocks[b].timeout \in Int, d.blocks[b].timeout >= LongestWait,
         Holds(y, b) => \/ d.blocks[b].timeout >= Entry(y, b).timeout
                        \/ Ours(y, b) /\ Told(y, x, b)',
         mcast'[y] = mcast[y]
  PROVE  BlockInv(x, y, b)'
<1>1. /\ BlockInv(x, y, b)
      /\ Entry(x, b)' = d.blocks[b]
      /\ Entry(y, b)' = Entry(y, b)
      /\ Due(y, b)' = Due(y, b) /\ Due(y, b) \in Nat
      /\ ~ Deaf(x)' /\ (Deaf(y)' <=> Deaf(y))
      /\ (Holds(y, b)' <=> Holds(y, b)) /\ (Ours(y, b)' <=> Ours(y, b))
      /\ \A more : Early(y, b, more)' <=> Early(y, b, more)
      /\ Answered(mcast[x], y, b) => Answered(mcast[x], y, b)'
  BY ReadingFacts
<1>2. /\ Asked(x, y, b)' <=> Asked(x, y, b)
      /\ Told(x, y, b)' <=> Told(x, y, b)
  BY SameBuffer
<1>3. ~ Holds(x, b)' /\ ~ Ours(x, b)'
  BY <1>1 DEF Holds, Claims, Ours
<1>4. Heard(y, x, b)'
  <2> SUFFICES ASSUME Holds(y, b) PROVE Known(y, x, b)' \/ Coming(y, x, b)'
    BY <1>1 DEF Heard
  <2>1. Due(y, b) <= LongestWait /\ LongestWait \in Nat
    BY BlockFacts, PairTimes
  <2>2. CASE d.blocks[b].timeout >= Entry(y, b).timeout
    BY <1>1, <2>1, <2>2 DEF Known
  <2>3. CASE Ours(y, b) /\ Told(y, x, b)'
    BY <1>1, <2>3 DEF Coming
  <2> QED
    BY <2>2, <2>3
<1>5. Heard(x, y, b)' /\ Yields(y, x, b)' /\ Contest(x, y, b)' /\ Contest(y, x, b)'
      /\ InOrder(x, y, b)'
  BY <1>3 DEF Heard, Yields, Contest, InOrder
<1>6. Yields(x, y, b)' /\ InOrder(y, x, b)'
  BY <1>1, <1>2 DEF BlockInv, Toward, Yields, InOrder, One
<1> QED
  BY <1>4, <1>5, <1>6 DEF BlockInv, Toward

\* x, whose id is greater, goes on claiming b.
LEMMA ContestedBlock ==
  ASSUME IdlePair, PairInv, NEW x \in Nodes, NEW y \in Nodes, x # y,
         NEW b \in Blocks, NEW d, NEW sent, Reads(x, y, b, d, sent), Still(y),
         d.blocks[b] = config[x].blocks[b], Claims(x, b), NodeId[y] < NodeId[x],
         mcast'[y] = mcast[y]
  PROVE  BlockInv(x, y, b)'
<1>1. /\ BlockInv(x, y, b)
      /\ Entry(x, b)' = Entry(x, b)
      /\ Entry(y, b)' = Entry(y, b)
      /\ Due(x, b)' = Due(x, b)
      /\ learning'[y] = learning[y] /\ hk'[y] = hk[y]
      /\ (Up(y)' <=> Up(y))
      /\ ~ Deaf(x) /\ ~ Deaf(x)' /\ (Deaf(y)' <=> Deaf(y))
      /\ Rounds(x)' = Rounds(x)
      /\ (Holds(y, b)' <=> Holds(y, b)) /\ (Ours(y, b)' <=> Ours(y, b))
      /\ \A more : Early(y, b, more)' <=> Early(y, b, more)
      /\ Asked(y, x, b)' => Asked(y, x, b)
      /\ Told(y, x, b)' => Told(y, x, b)
      /\ Answered(mcast[x], y, b) => Answered(mcast[x], y, b)'
  BY ReadingFacts
<1>2. /\ Asked(x, y, b)' <=> Asked(x, y, b)
      /\ Told(x, y, b)' <=> Told(x, y, b)
      /\ Answered(mcast[y], x, b)' <=> Answered(mcast[y], x, b)
  BY SameBuffer
<1>3. /\ (Holds(x, b)' <=> Holds(x, b)) /\ (Ours(x, b)' <=> Ours(x, b)) /\ Holds(x, b)
      /\ Early(x, b, Rounds(x))' <=> Early(x, b, Rounds(x))
      /\ Early(x, b, One(Deaf(x)))' <=> Early(x, b, One(Deaf(x)))
      /\ Early(y, b, One(Deaf(y)))' <=> Early(y, b, One(Deaf(y)))
  BY <1>1 DEF Holds, Claims, Ours, Early, One
<1>4. ~ (NodeId[x] < NodeId[y])
  BY IdsDiffer
<1>5. Known(x, y, b)' <=> Known(x, y, b)
  BY <1>1 DEF Known
<1>6. Learns(x, y, b)' <=> Learns(x, y, b)
  BY <1>1 DEF Learns
<1>7. Coming(x, y, b) => Coming(x, y, b)'
  BY <1>1, <1>2, <1>3 DEF Coming
<1>8. Heard(x, y, b)'
  BY <1>1, <1>3, <1>4, <1>5, <1>6, <1>7 DEF BlockInv, Toward, Heard
<1>9. Holds(y, b) => Asked(x, y, b)
  BY <1>1, <1>3 DEF BlockInv, Toward, Contest
<1>10. Heard(y, x, b)'
  BY <1>1, <1>2, <1>9 DEF Heard
<1>11. Yields(x, y, b)' /\ Yields(y, x, b)' /\ Contest(x, y, b)' /\ Contest(y, x, b)'
  BY <1>1, <1>2, <1>3, <1>4 DEF BlockInv, Toward, Yields, Contest
<1>12. InOrder(x, y, b)' /\ InOrder(y, x, b)'
  BY <1>1, <1>2, <1>3 DEF BlockInv, Toward, InOrder
<1> QED
  BY <1>8, <1>10, <1>11, <1>12 DEF BlockInv, Toward

\* The table stays tidy when a claim or an interest is noticed.
LEMMA NoticedTidy ==
  ASSUME NEW c, Tidy(c), NEW b \in Blocks, NEW d, NEW state \in {"CLAIMED", "TENTATIVE"},
         NEW timeout, Noticed(c, d, b, state, timeout), c.blocks[b].state # "OURS",
         c.blocks[b].state = "CLAIMING" => c.blocks[b].claiming_counts <= 2
  PROVE  Tidy(d)
<1>1. Owned(d) = Owned(c)
  BY DEF Noticed, Owned, InState
<1>2. Modest(d)
  BY <1>1 DEF Tidy, Modest, Noticed
<1>3. ASSUME NEW e \in Blocks, e # b PROVE TidyEntry(d, e)
  BY <1>3 DEF Tidy, TidyEntry, Noticed
<1>4. TidyEntry(d, b)
  <2>1. TidyEntry(c, b)
    BY DEF Tidy
  <2> QED
    BY <2>1 DEF TidyEntry, Noticed, Unleased
<1> QED
  BY <1>2, <1>3, <1>4 DEF Tidy

\* The first packet of a buffer is in it.
LEMMA FirstPacket ==
  ASSUME NEW q \in Seq(McastPacket), q # << >>, NEW b, NEW x,
         b \in Head(q).payload, Head(q).sender = x
  PROVE  /\ Head(q).command = "INQUIRE" =>
              HasInquiry(q, x, b) /\ (Answered(q, x, b) => HasUpdate(q, x, b))
         /\ Head(q).command = "UPDATECLAIM" => HasUpdate(q, x, b)
<1>1. 1 \in DOMAIN q /\ Head(q) = q[1]
  BY HeadTailProperties
<1>2. Head(q).command = "INQUIRE" => Inquiry(q[1], x, b)
  BY <1>1 DEF Inquiry
<1>3. Head(q).command = "UPDATECLAIM" => Update(q[1], x, b)
  BY <1>1 DEF Update
<1> QED
  BY <1>1, <1>2, <1>3 DEF HasInquiry, HasUpdate, Answered

\* What the entry does to the tables, case by case.
LEMMA ReadingBlocks ==
  ASSUME IdlePair, PairInv, NEW x \in Nodes, NEW y \in Nodes, x # y,
         Still(y), mcast[x] # << >>, Head(mcast[x]) \in McastPacket,
         Head(mcast[x]).sender = y, NEW b \in Head(mcast[x]).payload,
         NEW o \in ddhcp_block_process(x, Head(mcast[x]), b, config[x], {TRUE}),
         Len(o.sent) <= 2 => Reads(x, y, b, o.config, o.sent)
  PROVE  /\ Reads(x, y, b, o.config, o.sent)
         /\ o.sent = << >> /\ mcast'[y] = mcast[y]
         /\ Tidy(o.config)
         /\ \A e \in Blocks : o.config.blocks[e].state \in {"OURS", "CLAIMING"}
                                => o.config.blocks[e].state = config[x].blocks[e].state
         /\ \A e \in Blocks : BlockInv(x, y, e)'
<1> DEFINE m == Head(mcast[x])
           c == config[x]
           d == o.config
<1>1. /\ WellFormed(c) /\ c \in Config /\ TableOK(c.blocks) /\ Tidy(c) /\ Steadfast
      /\ mcast[x] \in Seq(McastPacket) /\ mcast[y] \in Seq(McastPacket)
  BY PairTypes DEF PairInv, Solo, WellFormed, IdlePair
<1>2. m.command \in {"UPDATECLAIM", "INQUIRE"} /\ b \in Blocks
  BY DEF McastPacket
<1>3. BlockInv(x, y, b) /\ Entry(x, b).claiming_counts \in 0 .. 3
  BY <1>2, BlockFacts DEF BlockInv, Toward
<1>4. /\ m.command = "INQUIRE" => Asked(y, x, b) /\ (Answered(mcast[x], y, b) => Told(y, x, b))
      /\ m.command = "UPDATECLAIM" => Told(y, x, b)
  BY <1>1, FirstPacket DEF Asked, Told
<1>5. /\ LongestWait \in Nat /\ TentativeTimeout \in Nat /\ BlockTimeout \in Nat
      /\ LongestWait <= TentativeTimeout /\ TentativeTimeout <= BlockTimeout
  BY PairTimes
<1>6. /\ Entry(y, b).timeout \in Int
      /\ Claims(y, b) => Entry(y, b).timeout <= TentativeTimeout
      /\ Ours(y, b) => Entry(y, b).timeout <= BlockTimeout
  BY <1>2, BlockFacts
<1>7. ASSUME o.sent = << >>, Len(o.sent) <= 2 => Reads(x, y, b, d, o.sent)
      PROVE  Reads(x, y, b, d, o.sent) /\ mcast'[y] = mcast[y]
  <2>1. Len(<< >>) <= 2 /\ mcast[y] \o << >> = mcast[y]
    BY <1>1
  <2> QED
    BY <1>7, <2>1 DEF Reads
<1>8. CASE m.command = "UPDATECLAIM"
  <2>1. ~ Ours(x, b) /\ (Claims(x, b) => Entry(x, b).claiming_counts <= 2)
    BY <1>3, <1>4, <1>8 DEF BlockInv, Toward, Yields, Holds, Early, One, Claims, Ours
  <2>2. c.blocks[b].state # "OURS"
    BY <2>1 DEF Ours, Entry
  <2>3. Noticed(c, d, b, "CLAIMED", BlockTimeout) /\ o.sent = << >>
    BY <1>1, <1>2, <1>8, <2>2, ReadUpdate
  <2>4. Reads(x, y, b, d, o.sent) /\ mcast'[y] = mcast[y]
    BY <1>7, <2>3
  <2>5. Tidy(d)
    BY <1>1, <1>2, <2>1, <2>2, <2>3, NoticedTidy DEF Claims, Entry
  <2> HIDE DEF d, c
  <2>6. BlockInv(x, y, b)'
    <3>1. d.blocks[b].state = "CLAIMED" /\ d.blocks[b].timeout = BlockTimeout
      BY <2>3 DEF Noticed
    <3>2. Holds(y, b) => d.blocks[b].timeout >= Entry(y, b).timeout
      BY <1>5, <1>6, <3>1 DEF Holds
    <3> QED
      BY <1>2, <1>5, <2>4, <3>1, <3>2, NoticedBlock
  <2>7. \A e \in Blocks \ {b} : d.blocks[e] = c.blocks[e]
    BY <2>3 DEF Noticed
  <2>8. ASSUME NEW e \in Blocks, e # b PROVE BlockInv(x, y, e)'
    BY <2>4, <2>7, <2>8, UntouchedBlock DEF c
  <2>9. d.blocks[b].state = "CLAIMED"
    BY <2>3 DEF Noticed
  <2> QED
    BY <2>3, <2>4, <2>5, <2>6, <2>7, <2>8, <2>9 DEF c, d
<1>9. ~ (m.command = "INQUIRE" /\ Ours(x, b))
  BY <1>3, <1>4 DEF BlockInv, Toward, Yields, Holds, Early, Claims, Ours
<1>10. CASE m.command = "INQUIRE" /\ Claims(x, b) /\ ~ SenderWins(x, m)
  <2>1. NodeId[y] < NodeId[x]
    BY <1>10, NodesAssumption, IdsDiffer DEF SenderWins
  <2>2. d = c /\ o.sent = << >>
    BY <1>10, ReadContested DEF Claims, Entry
  <2>3. Reads(x, y, b, d, o.sent) /\ mcast'[y] = mcast[y]
    BY <1>7, <2>2
  <2>4. BlockInv(x, y, b)'
    BY <1>2, <1>10, <2>1, <2>2, <2>3, ContestedBlock
  <2>5. ASSUME NEW e \in Blocks, e # b PROVE BlockInv(x, y, e)'
    BY <2>2, <2>3, <2>5, UntouchedBlock
  <2> QED
    BY <1>1, <2>2, <2>3, <2>4, <2>5
<1>11. CASE m.command = "INQUIRE" /\ ~ Ours(x, b) /\ ~ (Claims(x, b) /\ ~ SenderWins(x, m))
  <2>1. c.blocks[b].state # "OURS" /\ ~ (c.blocks[b].state = "CLAIMING" /\ ~ SenderWins(x, m))
    BY <1>11 DEF Ours, Claims, Entry
  <2>2. Claims(x, b) => Entry(x, b).claiming_counts <= 2
    BY <1>3, <1>4, <1>11 DEF BlockInv, Toward, Yields, Holds, Early, One
  <2>3. Noticed(c, d, b, "TENTATIVE", TentativeTimeout) /\ o.sent = << >>
    BY <1>1, <1>2, <1>11, <2>1, ReadInquiry
  <2>4. Reads(x, y, b, d, o.sent) /\ mcast'[y] = mcast[y]
    BY <1>7, <2>3
  <2>5. Tidy(d)
    BY <1>1, <1>2, <2>1, <2>2, <2>3, NoticedTidy DEF Claims, Entry
  <2> HIDE DEF d, c
  <2>6. BlockInv(x, y, b)'
    <3>1. d.blocks[b].state = "TENTATIVE" /\ d.blocks[b].timeout = TentativeTimeout
      BY <2>3 DEF Noticed
    <3>2. Told(y, x, b) => Told(y, x, b)'
      BY <1>2, <1>11, <2>4, ReadingFacts
    <3>3. Holds(y, b) => \/ d.blocks[b].timeout >= Entry(y, b).timeout
                         \/ Ours(y, b) /\ Told(y, x, b)'
      <4>1. CASE Claims(y, b) \/ Entry(y, b).timeout <= TentativeTimeout
        BY <1>5, <1>6, <3>1, <4>1
      <4>2. CASE Ours(y, b) /\ Entry(y, b).timeout > TentativeTimeout
        BY <1>3, <1>4, <1>11, <3>2, <4>2 DEF BlockInv, Toward, InOrder
      <4> QED
        BY <1>5, <1>6, <4>1, <4>2 DEF Holds
    <3> QED
      BY <1>2, <1>5, <2>4, <3>1, <3>3, NoticedBlock
  <2>7. \A e \in Blocks \ {b} : d.blocks[e] = c.blocks[e]
    BY <2>3 DEF Noticed
  <2>8. ASSUME NEW e \in Blocks, e # b PROVE BlockInv(x, y, e)'
    BY <2>4, <2>7, <2>8, UntouchedBlock DEF c
  <2>9. d.blocks[b].state = "TENTATIVE"
    BY <2>3 DEF Noticed
  <2> QED
    BY <2>3, <2>4, <2>5, <2>6, <2>7, <2>8, <2>9 DEF c, d
<1> QED
  BY <1>2, <1>8, <1>9, <1>10, <1>11

\* Reading an entry keeps the invariant.
LEMMA BlockPacketPair ==
  ASSUME IdlePair, PairInv, Roomy, NEW x \in Nodes, NEW y \in Nodes, x # y,
         hdl_ddhcp_block(x)
  PROVE  Solo(x)' /\ Solo(y)' /\ Pair(x, y)' /\ Pair(y, x)'
<1>1. /\ ready' = ready /\ server' = server /\ pc'[x] = "run" /\ pc[x] = "run" /\ need' = need
      /\ Head(mcast[x]) \in McastPacket /\ Head(mcast[x]).sender = y
      /\ mcast[x] \in Seq(McastPacket) /\ mcast[x] # << >>
  BY ReadingEntry
<1>2. PICK b \in Head(mcast[x]).payload :
        \E o \in ddhcp_block_process(x, Head(mcast[x]), b, config[x], {TRUE}) :
          Len(o.sent) <= 2 => Reads(x, y, b, o.config, o.sent)
  BY ReadingEntry
<1>3. PICK o \in ddhcp_block_process(x, Head(mcast[x]), b, config[x], {TRUE}) :
        Len(o.sent) <= 2 => Reads(x, y, b, o.config, o.sent)
  BY <1>2
<1>4. Bystander(y) /\ Still(y)
  BY OthersStand, BystanderStill DEF PairInv, Daemon
<1>5. Solo(x) /\ Solo(y) /\ Pair(x, y) /\ Pair(y, x) /\ mcast[y] \in Seq(McastPacket)
  BY PairTypes DEF PairInv
<1>6. /\ Reads(x, y, b, o.config, o.sent)
      /\ mcast'[y] = mcast[y]
      /\ Tidy(o.config)
      /\ \A e \in Blocks : o.config.blocks[e].state \in {"OURS", "CLAIMING"}
                             => o.config.blocks[e].state = config[x].blocks[e].state
      /\ \A e \in Blocks : BlockInv(x, y, e)'
  BY <1>1, <1>3, <1>4, ReadingBlocks
<1>7. Solo(y)'
  BY <1>1, <1>4, <1>5, <1>6, BystanderSolo DEF Reads
<1>8. Solo(x)'
  <2>1. /\ config'[x] = o.config /\ Up(x) /\ Up(x)' /\ hk[x] > 0
        /\ learning'[x] = learning[x] /\ hk'[x] = hk[x]
    BY <1>6 DEF Reads
  <2>2. ASSUME NEW e \in Blocks, Holds(x, e)' PROVE learning'[x] = FALSE
    <3>1. Holds(x, e)
      BY <1>6, <2>1, <2>2 DEF Holds, Claims, Ours, Entry
    <3> QED
      BY <1>5, <2>1, <3>1 DEF Solo
  <2> QED
    BY <1>1, <1>5, <1>6, <2>1, <2>2 DEF Solo
<1>10. FromOnly(mcast[x], y)'
  BY <1>5, <1>6 DEF Reads, Consumed, Pair, FromOnly
<1>11. FromOnly(mcast[y], x)'
  BY <1>5, <1>6, SameBuffer DEF Pair
<1> QED
  BY <1>6, <1>7, <1>8, <1>10, <1>11, PairKept DEF BlockInv

-----------------------------------------------------------------------------
(* The other steps of a daemon *)

\* A step of x that changes nothing but where x is in its loop: no house
\* keeping comes later than before, and with packets in the buffer none comes
\* up that will not read them.
Idles(x, y) ==
  /\ config'[x] = config[x] /\ mcast' = mcast
  /\ Up(x) /\ Up(x)'
  /\ Deaf(x)' => Deaf(x) \/ mcast[x] = << >>
  /\ Rounds(x)' <= Rounds(x)
  /\ \A b \in Blocks :
       /\ Holds(x, b) => Due(x, b)' <= Due(x, b)
       /\ Due(x, b)' \in Nat
  /\ learning[x] = TRUE /\ hk[x] > 0 => learning'[x] = TRUE /\ hk'[x] = hk[x]

\* Such a step keeps what relates the two.
LEMMA IdlesPair ==
  ASSUME PairInv, NEW x \in Nodes, NEW y \in Nodes, x # y,
         Idles(x, y), Bystander(y)
  PROVE  Pair(x, y)' /\ Pair(y, x)'
<1>1. Still(y)
  BY BystanderStill
<1>2. /\ mcast' = mcast /\ Up(x) /\ Up(x)'
      /\ Deaf(x)' => Deaf(x) \/ mcast[x] = << >>
      /\ Rounds(x)' <= Rounds(x)
  BY DEF Idles
<1>3. /\ Up(y)' <=> Up(y)
      /\ Deaf(y)' <=> Deaf(y)
      /\ Rounds(y)' = Rounds(y)
      /\ learning'[y] = learning[y] /\ hk'[y] = hk[y]
  BY <1>1, <1>2 DEF Still
<1>4. Pair(x, y) /\ Pair(y, x)
  BY DEF PairInv
<1>5. FromOnly(mcast[x], y)' /\ FromOnly(mcast[y], x)'
  BY <1>2, <1>4, SameBuffer DEF Pair
<1>6. /\ Rounds(x) \in 0 .. 2 /\ Rounds(x)' \in 0 .. 2
      /\ One(Deaf(x)) \in 0 .. 1 /\ One(Deaf(x)') \in 0 .. 1
      /\ (Deaf(x)' => Deaf(x)) => One(Deaf(x)') <= One(Deaf(x))
  <2>1. Rounds(x) \in 0 .. 2 /\ One(Deaf(x)) \in 0 .. 1
    BY RoundsType
  <2>2. Rounds(x)' \in 0 .. 2
    BY DEF Rounds, One
  <2> QED
    BY <2>1, <2>2 DEF One
<1>7. ASSUME NEW b \in Blocks PROVE BlockInv(x, y, b)'
  <2>1. BlockInv(x, y, b)
    BY BlockFacts DEF BlockInv, Toward
  <2>2. /\ Entry(x, b)' = Entry(x, b) /\ Entry(y, b)' = Entry(y, b)
        /\ Due(y, b)' = Due(y, b)
        /\ Due(x, b) \in Nat /\ Due(y, b) \in Nat /\ hk[x] \in Nat /\ hk[y] \in Nat
        /\ Entry(x, b).timeout \in Int /\ Entry(y, b).timeout \in Int
        /\ Entry(x, b).claiming_counts \in 0 .. 3
    BY <1>1, BlockFacts DEF Idles, Entry, Still
  <2>3. /\ Holds(x, b)' <=> Holds(x, b)
        /\ Holds(y, b)' <=> Holds(y, b)
        /\ Ours(x, b)' <=> Ours(x, b)
        /\ Ours(y, b)' <=> Ours(y, b)
        /\ Early(x, b, Rounds(x)) => Early(x, b, Rounds(x))'
        /\ (Deaf(x)' => Deaf(x)) /\ Early(x, b, One(Deaf(x)))
             => Early(x, b, One(Deaf(x)))'
        /\ Early(y, b, Rounds(y))' <=> Early(y, b, Rounds(y))
        /\ Early(y, b, One(Deaf(y)))' <=> Early(y, b, One(Deaf(y)))
    <3>1. /\ Holds(x, b)' <=> Holds(x, b)
          /\ Holds(y, b)' <=> Holds(y, b)
          /\ Ours(x, b)' <=> Ours(x, b)
          /\ Ours(y, b)' <=> Ours(y, b)
          /\ Claims(x, b)' <=> Claims(x, b)
      BY <2>2 DEF Holds, Claims, Ours
    <3>2. Early(x, b, Rounds(x)) => Early(x, b, Rounds(x))'
      BY <1>2, <1>6, <2>2, <3>1 DEF Early
    <3>3. (Deaf(x)' => Deaf(x)) /\ Early(x, b, One(Deaf(x))) => Early(x, b, One(Deaf(x)))'
      BY <1>6, <2>2, <3>1 DEF Early
    <3>4. /\ Early(y, b, Rounds(y))' <=> Early(y, b, Rounds(y))
          /\ Early(y, b, One(Deaf(y)))' <=> Early(y, b, One(Deaf(y)))
      BY <1>3, <2>2 DEF Early, Claims, One
    <3> QED
      BY <3>1, <3>2, <3>3, <3>4
  <2>4. /\ Asked(x, y, b)' <=> Asked(x, y, b)
        /\ Asked(y, x, b)' <=> Asked(y, x, b)
        /\ Told(x, y, b)' <=> Told(x, y, b)
        /\ Told(y, x, b)' <=> Told(y, x, b)
        /\ Answered(mcast[y], x, b)' <=> Answered(mcast[y], x, b)
        /\ Answered(mcast[x], y, b)' <=> Answered(mcast[x], y, b)
    BY <1>2, SameBuffer
  <2>5. Asked(y, x, b) \/ Told(y, x, b) => (Deaf(x)' => Deaf(x))
    BY <1>2, NothingComes
  <2>6. Holds(x, b) /\ Known(x, y, b) => Known(x, y, b)'
    BY <2>2 DEF Known, Idles
  <2>7. Holds(x, b) /\ Learns(x, y, b) => Learns(x, y, b)'
    BY <1>3, <2>2 DEF Learns, Idles
  <2>8. Coming(x, y, b) => Coming(x, y, b)'
    BY <1>3, <2>2, <2>3, <2>4 DEF Coming
  <2>9. Known(y, x, b) => Known(y, x, b)'
    BY <2>2 DEF Known
  <2>10. Learns(y, x, b) => Learns(y, x, b)'
    BY <2>2 DEF Learns, Idles
  <2>11. Coming(y, x, b) => Coming(y, x, b)'
    BY <2>2, <2>3, <2>4, <2>5 DEF Coming
  <2>12. Heard(x, y, b)'
    BY <1>3, <2>1, <2>3, <2>4, <2>6, <2>7, <2>8 DEF BlockInv, Toward, Heard
  <2>13. Heard(y, x, b)'
    BY <1>2, <2>1, <2>3, <2>4, <2>9, <2>10, <2>11 DEF BlockInv, Toward, Heard
  <2>14. Yields(x, y, b)' /\ Yields(y, x, b)'
    BY <2>1, <2>3, <2>4, <2>5 DEF BlockInv, Toward, Yields
  <2>15. Contest(x, y, b)' /\ Contest(y, x, b)'
    BY <1>3, <2>1, <2>3, <2>4, <2>5 DEF BlockInv, Toward, Contest
  <2>16. InOrder(x, y, b)' /\ InOrder(y, x, b)'
    BY <2>1, <2>2, <2>3, <2>4 DEF BlockInv, Toward, InOrder
  <2> QED
    BY <2>12, <2>13, <2>14, <2>15, <2>16 DEF BlockInv, Toward
<1> QED
  BY <1>5, <1>7, PairKept DEF BlockInv

\* epoll_wait returns.
LEMMA WakePair ==
  ASSUME IdlePair, PairInv, NEW x \in Nodes, NEW y \in Nodes, x # y, Wake(x)
  PROVE  Solo(x)' /\ Solo(y)' /\ Pair(x, y)' /\ Pair(y, x)'
<1>1. /\ FreshInv /\ Solo(x) /\ Solo(y) /\ Clients = {} /\ Faults = {}
      /\ HouseKeepingInterval >= 1 /\ HouseKeepingInterval \in Nat
  BY TimesType DEF PairInv, IdlePair
<1>2. /\ hk[x] \in Nat /\ loop[x] \in Nat /\ learning[x] \in BOOLEAN
      /\ Grace(x) \in Nat
  BY <1>1, PairTypes
<1>3. PICK e \in SUBSET Events(x) :
        /\ Delays \/ Events(x) \ {DHCP} \subseteq e
        /\ ready' = [ready EXCEPT ![x] = e]
        /\ need' = [need EXCEPT ![x] = hk[x] = 0 \/ MCAST \in e]
  BY DEF Wake
<1>4. /\ pc[x] = "wait"
      /\ hk' = [hk EXCEPT ![x] = IF @ = 0 THEN HouseKeepingInterval ELSE @]
      /\ learning' = [learning EXCEPT ![x] = @ /\ hk[x] # 0]
      /\ pc' = [pc EXCEPT ![x] = "run"]
      /\ UNCHANGED <<config, mcast, server>>
  BY DEF Wake, netVars
<1>5. /\ ready'[x] = e /\ pc'[x] = "run"
      /\ need'[x] = (hk[x] = 0 \/ MCAST \in e)
      /\ hk'[x] = IF hk[x] = 0 THEN HouseKeepingInterval ELSE hk[x]
      /\ learning'[x] = (learning[x] /\ hk[x] # 0)
  BY <1>1, <1>3, <1>4 DEF FreshInv, Inv, TypeOK
<1>6. e \subseteq {MCAST} /\ (MCAST \in e <=> mcast[x] # << >>)
  <2>1. Events(x) \subseteq {MCAST, SERVER}
    BY <1>1 DEF Events
  <2>2. \A s \in {MCAST, SERVER} : s \in Events(x) => Queue(x, s) # << >>
    BY DEF Events, MCAST, SERVER, DHCP
  <2>3. Queue(x, SERVER) = << >> /\ Queue(x, MCAST) = mcast[x]
    BY <1>1 DEF Solo, Queue, MCAST, SERVER
  <2>4. mcast[x] # << >> => MCAST \in Events(x) \ {DHCP}
    BY <2>3 DEF Events, MCAST, SERVER, DHCP
  <2>5. ~ Delays
    BY <1>1 DEF Delays
  <2> QED
    BY <1>3, <2>1, <2>2, <2>3, <2>4, <2>5
<1>7. Up(x) /\ Up(x)' /\ hk'[x] > 0
  BY <1>1, <1>2, <1>4, <1>5 DEF Up, Busy
<1>8. (Deaf(x)' => mcast[x] = << >>) /\ Rounds(x)' <= Rounds(x)
  <2>1. Deaf(x)' => mcast[x] = << >> /\ hk[x] = 0
    BY <1>5, <1>6 DEF Deaf
  <2>2. Rounds(x) = IF hk[x] = 0 THEN 1 ELSE One(mcast[x] # << >>)
    <3>1. ~ Deaf(x)
      BY <1>4 DEF Deaf
    <3> QED
      BY <1>4, <3>1 DEF Rounds, One
  <2>3. Rounds(x)' = IF mcast[x] # << >> THEN 1 ELSE One(Deaf(x)')
    BY <1>4, <1>5, <1>6 DEF Rounds, One
  <2> QED
    BY <2>1, <2>2, <2>3 DEF One
<1>9. ASSUME NEW b PROVE Due(x, b)' \in Nat /\ Due(x, b)' <= Due(x, b)
  <2>1. Due(x, b) = Grace(x)
    BY <1>4 DEF Due
  <2>2. CASE hk[x] = 0
    <3>1. need'[x] = TRUE /\ pc'[x] = "run"
      BY <1>5, <2>2
    <3>2. Due(x, b)' = 0
      BY <3>1 DEF Due
    <3> QED
      BY <1>2, <2>1, <3>2
  <2>3. CASE hk[x] # 0
    <3>1. Grace(x)' = Grace(x)
      BY <1>5, <2>3 DEF Grace
    <3>2. Due(x, b)' = 0 \/ Due(x, b)' = Grace(x)
      BY <3>1 DEF Due
    <3> QED
      BY <1>2, <2>1, <3>2
  <2> QED
    BY <2>2, <2>3
<1>10. Idles(x, y)
  <2>1. learning[x] = TRUE /\ hk[x] > 0 => learning'[x] = TRUE /\ hk'[x] = hk[x]
    BY <1>2, <1>5
  <2> QED
    BY <1>4, <1>7, <1>8, <1>9, <2>1 DEF Idles
<1>11. Bystander(y)
  BY <1>1, OthersStand DEF Daemon
<1>12. Solo(y)'
  BY <1>1, <1>4, <1>11, BystanderSolo
<1>13. Solo(x)'
  <2>1. config'[x] = config[x] /\ mcast'[x] = mcast[x] /\ server'[x] = server[x]
    BY <1>4
  <2>2. \A b \in Blocks : Holds(x, b)' <=> Holds(x, b)
    BY <2>1 DEF Holds, Claims, Ours, Entry
  <2>3. learning[x] = FALSE => learning'[x] = FALSE
    BY <1>5
  <2> QED
    BY <1>1, <1>5, <1>6, <1>7, <2>1, <2>2, <2>3 DEF Solo
<1> QED
  BY <1>10, <1>11, <1>12, <1>13, IdlesPair

\* The multicast socket is empty.
LEMMA HandlerReturnsPair ==
  ASSUME IdlePair, PairInv, NEW x \in Nodes, NEW y \in Nodes, x # y,
         HandlerReturns(x)
  PROVE  Solo(x)' /\ Solo(y)' /\ Pair(x, y)' /\ Pair(y, x)'
<1>1. FreshInv /\ Solo(x) /\ Solo(y)
  BY DEF PairInv
<1>2. PICK s \in Sockets :
        /\ MayRead(x, s) /\ Queue(x, s) = << >>
        /\ ready' = [ready EXCEPT ![x] = @ \ {s}]
  BY DEF HandlerReturns
<1>3. UNCHANGED <<config, pc, need, learning, hk, loop, mcast, server>>
  BY DEF HandlerReturns, netVars
<1>4. pc[x] = "run" /\ s = MCAST /\ MCAST \in ready[x]
  BY <1>1, <1>2 DEF MayRead, Solo
<1>5. mcast[x] = << >> /\ ready'[x] = ready[x] \ {MCAST}
  BY <1>1, <1>2, <1>4 DEF Queue, MCAST, SERVER, FreshInv, Inv, TypeOK
<1>6. Up(x) /\ Up(x)' /\ Busy(x)
  BY <1>3, <1>4 DEF Up, Busy
<1>7. Rounds(x)' <= Rounds(x)
  <2>1. Rounds(x) = 1
    BY <1>4 DEF Rounds
  <2>2. Rounds(x)' = One(Deaf(x)') + One(mcast'[x] # << >>)
    BY <1>3, <1>4, <1>5 DEF Rounds
  <2> QED
    BY <1>3, <1>5, <2>1, <2>2 DEF One
<1>8. ASSUME NEW b \in Blocks PROVE Due(x, b)' = Due(x, b) /\ Due(x, b) \in Nat
  BY <1>1, <1>3, PairTypes DEF Due, Grace, Ours, Entry
<1>9. Idles(x, y)
  BY <1>3, <1>5, <1>6, <1>7, <1>8 DEF Idles
<1>10. Bystander(y)
  BY <1>1, OthersStand DEF Daemon
<1>11. Solo(y)'
  BY <1>1, <1>3, <1>10, BystanderSolo
<1>12. Solo(x)'
  <2>1. \A b \in Blocks : Holds(x, b)' <=> Holds(x, b)
    BY <1>3 DEF Holds, Claims, Ours, Entry
  <2> QED
    BY <1>1, <1>3, <1>4, <1>5, <1>6, <2>1 DEF Solo, Busy
<1> QED
  BY <1>9, <1>10, <1>11, <1>12, IdlesPair

\* A round without house keeping.
LEMMA NoHouseKeepingPair ==
  ASSUME IdlePair, PairInv, NEW x \in Nodes, NEW y \in Nodes, x # y,
         NoHouseKeeping(x)
  PROVE  Solo(x)' /\ Solo(y)' /\ Pair(x, y)' /\ Pair(y, x)'
<1>1. FreshInv /\ Solo(x) /\ Solo(y)
  BY DEF PairInv
<1>2. /\ hk[x] \in Nat /\ loop[x] \in Nat /\ learning[x] \in BOOLEAN /\ need[x] \in BOOLEAN
      /\ Grace(x) \in Nat
  BY <1>1, PairTypes
<1>3. /\ pc[x] = "run" /\ (~ need[x] \/ learning[x]) /\ ready[x] = {}
      /\ UNCHANGED <<config, learning, hk, loop, mcast, server>>
  BY DEF NoHouseKeeping, RoundOver, netVars
<1>4. pc'[x] = "wait" /\ ready'[x] = {} /\ need'[x] = FALSE
  BY <1>1 DEF NoHouseKeeping, BackToEpoll, FreshInv, Inv, TypeOK
<1>5. Up(x) /\ Up(x)' /\ hk[x] > 0
  BY <1>1, <1>3, <1>4 DEF Up, Busy, Solo
<1>6. ~ Deaf(x)' /\ Rounds(x)' <= Rounds(x)
  <2>1. ~ Deaf(x) /\ ~ Deaf(x)'
    BY <1>2, <1>3, <1>4 DEF Deaf
  <2>2. Rounds(x) = One(Deaf(x)) + One(mcast[x] # << >>)
    BY <1>3 DEF Rounds
  <2>3. Rounds(x)' = One(Deaf(x)') + One(mcast[x] # << >>)
    BY <1>2, <1>3, <1>4, <1>5 DEF Rounds, One
  <2> QED
    BY <2>1, <2>2, <2>3 DEF One
<1>7. ASSUME NEW b PROVE Due(x, b)' = Grace(x) /\ Grace(x) \in Nat
  BY <1>2, <1>3, <1>4 DEF Due, Grace
<1>8. ASSUME NEW b \in Blocks, Holds(x, b) PROVE Due(x, b)' <= Due(x, b)
  <2>1. need[x] # TRUE
    BY <1>1, <1>2, <1>3, <1>8 DEF Solo
  <2>2. Due(x, b) = Grace(x)
    BY <1>3, <2>1 DEF Due
  <2>3. Due(x, b)' = Grace(x) /\ Grace(x) \in Nat
    BY <1>7
  <2> QED
    BY <2>2, <2>3
<1>9. Idles(x, y)
  BY <1>3, <1>5, <1>6, <1>7, <1>8 DEF Idles
<1>10. Bystander(y)
  BY <1>1, OthersStand DEF Daemon
<1>11. Solo(y)'
  BY <1>1, <1>3, <1>10, BystanderSolo
<1>12. Solo(x)'
  <2>1. \A b \in Blocks : Holds(x, b)' <=> Holds(x, b)
    BY <1>3 DEF Holds, Claims, Ours, Entry
  <2> QED
    BY <1>1, <1>3, <1>4, <1>5, <2>1 DEF Solo
<1> QED
  BY <1>9, <1>10, <1>11, <1>12, IdlesPair

\* The table of a daemon that starts.
LEMMA InitTidy ==
  ASSUME NEW marks
  PROVE  /\ Tidy(ddhcp_block_init(marks))
         /\ \A b \in Blocks : ddhcp_block_init(marks).blocks[b].state = "FREE"
<1> DEFINE c == ddhcp_block_init(marks)
<1>1. c.claiming_blocks = {} /\ \A b \in Blocks : c.blocks[b] = InitialBlock
  BY DEF ddhcp_block_init
<1>2. Owned(c) = {}
  BY <1>1 DEF Owned, InState, InitialBlock
<1>3. Cardinality({}) = 0
  BY FS_EmptySet
<1> HIDE DEF c
<1>4. Modest(c)
  BY <1>1, <1>2, <1>3, TargetType DEF Modest
<1>5. Unleased(InitialBlock) /\ InitialBlock.alloc = FALSE /\ InitialBlock.state = "FREE"
  BY FreshLeases DEF InitialBlock, Unleased
<1>6. \A b \in Blocks : TidyEntry(c, b)
  BY <1>1, <1>5 DEF TidyEntry
<1> QED
  BY <1>1, <1>4, <1>5, <1>6 DEF Tidy, c

\* x starts or ends: it holds nothing, and when it runs it learns first.
LEMMA BlankPair ==
  ASSUME IdlePair, PairInv, NEW x \in Nodes, NEW y \in Nodes, x # y, Bystander(y),
         mcast'[x] = << >>, mcast'[y] = mcast[y], \A b \in Blocks : ~ Holds(x, b)',
         Up(x)' => learning'[x] = TRUE /\ hk'[x] = BlockTimeout
  PROVE  Pair(x, y)' /\ Pair(y, x)'
<1>1. Still(y) /\ Pair(x, y)
  BY BystanderStill DEF PairInv
<1>3. FromOnly(mcast[y], x)' /\ FromOnly(mcast[x], y)'
  BY <1>1, SameBuffer, EmptyBuffer DEF Pair, FromOnly
<1>4. ASSUME NEW b \in Blocks PROVE BlockInv(x, y, b)'
  <2>1. /\ Entry(y, b)' = Entry(y, b) /\ Due(y, b)' = Due(y, b) /\ (Deaf(y)' <=> Deaf(y))
    BY <1>1 DEF Still
  <2>2. /\ Holds(y, b)' <=> Holds(y, b)
        /\ Early(y, b, One(Deaf(y)))' <=> Early(y, b, One(Deaf(y)))
    BY <2>1 DEF Holds, Claims, Ours, Early, One
  <2>3. ~ Holds(x, b)' /\ ~ Ours(x, b)'
    BY DEF Holds
  <2>4. /\ Yields(x, y, b)
        /\ Due(y, b) \in Nat /\ Entry(y, b).timeout \in Int
        /\ Holds(y, b) => Due(y, b) <= LongestWait
        /\ Claims(y, b) => Entry(y, b).timeout <= TentativeTimeout
        /\ Ours(y, b) => Entry(y, b).timeout <= BlockTimeout
    BY BlockFacts
  <2>5. /\ LongestWait \in Nat /\ TentativeTimeout \in Nat /\ BlockTimeout \in Nat
        /\ LongestWait < BlockTimeout /\ TentativeTimeout <= BlockTimeout
    BY PairTimes
  <2>6. Heard(x, y, b)' /\ Contest(x, y, b)' /\ Contest(y, x, b)' /\ Yields(y, x, b)'
        /\ InOrder(x, y, b)'
    BY <2>3 DEF Heard, Contest, Yields, InOrder
  <2>7. InOrder(y, x, b)'
    BY EmptyBuffer DEF InOrder, Answered
  <2>8. Yields(x, y, b)'
    <3>1. /\ Asked(x, y, b)' <=> Asked(x, y, b)
          /\ Told(x, y, b)' <=> Told(x, y, b)
      BY SameBuffer
    <3> QED
      BY <2>1, <2>2, <2>4, <3>1 DEF Yields
  <2>9. Heard(y, x, b)'
    <3>1. ASSUME Holds(y, b), Up(x)' PROVE Learns(y, x, b)'
      <4>1. Entry(y, b).timeout <= BlockTimeout
        BY <2>4, <2>5, <3>1 DEF Holds
      <4> QED
        BY <2>1, <2>4, <2>5, <3>1, <4>1 DEF Learns
    <3> QED
      BY <2>2, <3>1 DEF Heard
  <2> QED
    BY <2>6, <2>7, <2>8, <2>9 DEF BlockInv, Toward
<1> QED
  BY <1>3, <1>4, PairKept DEF BlockInv

\* A daemon starts.
LEMMA BootPair ==
  ASSUME IdlePair, PairInv, NEW x \in Nodes, NEW y \in Nodes, x # y, Boot(x)
  PROVE  Solo(x)' /\ Solo(y)' /\ Pair(x, y)' /\ Pair(y, x)'
<1>1. FreshInv /\ Solo(x) /\ Solo(y) /\ LearningPhase = TRUE
  BY DEF PairInv, IdlePair
<1>2. PICK marks \in BOOLEAN : config' = [config EXCEPT ![x] = ddhcp_block_init(marks)]
  BY DEF Boot
<1>3. /\ pc[x] = "down" /\ UNCHANGED <<ready, mcast, server>>
      /\ pc'[x] = "wait" /\ learning'[x] = TRUE /\ hk'[x] = BlockTimeout
      /\ config'[x] = ddhcp_block_init(marks)
  BY <1>1, <1>2 DEF Boot, LearningTime, netVars, FreshInv, Inv, TypeOK
<1>4. ready[x] = {} /\ mcast[x] = << >> /\ Up(x)'
  BY <1>1, <1>3 DEF Solo, Up, Busy
<1>5. \A b \in Blocks : ~ Holds(x, b)'
  BY <1>3, InitTidy DEF Holds, Claims, Ours, Entry
<1>6. ~ Busy(x)'
  BY <1>3 DEF Busy
<1>7. Bystander(y)
  BY <1>1, OthersStand
<1>8. Solo(y)'
  BY <1>1, <1>3, <1>7, BystanderSolo
<1>9. Solo(x)'
  <2>1. Tidy(config'[x])
    BY <1>3, InitTidy
  <2> QED
    BY <1>1, <1>3, <1>4, <1>5, <1>6, <2>1 DEF Solo
<1>10. Pair(x, y)' /\ Pair(y, x)'
  BY <1>3, <1>4, <1>5, <1>7, BlankPair
<1> QED
  BY <1>8, <1>9, <1>10

\* A daemon is stopped.
LEMMA StopPair ==
  ASSUME IdlePair, PairInv, NEW x \in Nodes, NEW y \in Nodes, x # y, Stop(x)
  PROVE  Solo(x)' /\ Solo(y)' /\ Pair(x, y)' /\ Pair(y, x)'
<1>1. FreshInv /\ Solo(y) /\ mcast \in [Nodes -> Seq(McastPacket)]
      /\ server \in [Nodes -> Seq(DirectPacket)]
  BY DEF PairInv, FreshInv, Inv, TypeOK
<1>2. /\ pc'[x] = "down" /\ ready'[x] = {} /\ config'[x] = ddhcp_block_init(FALSE)
  BY <1>1 DEF Stop, Vanish, FreshInv, Inv, TypeOK
<1>3. /\ mcast'[x] = << >> /\ server'[x] = << >>
      /\ mcast'[y] = mcast[y] /\ server'[y] = server[y]
  BY <1>1 DEF Stop, Vanish
<1>4. ~ Up(x)' /\ ~ Busy(x)'
  BY <1>2 DEF Up, Busy
<1>5. \A b \in Blocks : ~ Holds(x, b)'
  BY <1>2, InitTidy DEF Holds, Claims, Ours, Entry
<1>6. Bystander(y)
  BY <1>1, OthersStand
<1>7. Solo(y)'
  BY <1>1, <1>3, <1>6, BystanderSolo
<1>8. Solo(x)'
  <2>1. Tidy(config'[x])
    BY <1>2, InitTidy
  <2> QED
    BY <1>2, <1>3, <1>4, <1>5, <2>1 DEF Solo
<1>9. Pair(x, y)' /\ Pair(y, x)'
  BY <1>3, <1>4, <1>5, <1>6, BlankPair
<1> QED
  BY <1>7, <1>8, <1>9

-----------------------------------------------------------------------------
(* The clock *)

\* A second passes: what it leaves of an entry.
LEMMA AgedEntry ==
  ASSUME NEW c, WellFormed(c), NEW b \in Blocks
  PROVE  /\ AgeConfig(c).claiming_blocks = c.claiming_blocks
         /\ AgeConfig(c).blocks[b].state = c.blocks[b].state
         /\ AgeConfig(c).blocks[b].timeout = Elapse(c.blocks[b].timeout)
         /\ AgeConfig(c).blocks[b].claiming_counts = c.blocks[b].claiming_counts
         /\ AgeConfig(c).blocks[b].alloc = c.blocks[b].alloc
         /\ Unleased(c.blocks[b]) => Unleased(AgeConfig(c).blocks[b])
<1>1. c \in Config /\ c.blocks[b] \in Block
  BY DEF WellFormed, TableOK
<1>2. AgeConfig(c).blocks[b] = AgeBlock(c.blocks[b])
  BY <1>1 DEF AgeConfig, Config
<1>3. AgeConfig(c).claiming_blocks = c.claiming_blocks
  BY <1>1 DEF AgeConfig, Config
<1>4. /\ AgeBlock(c.blocks[b]).state = c.blocks[b].state
      /\ AgeBlock(c.blocks[b]).timeout = Elapse(c.blocks[b].timeout)
      /\ AgeBlock(c.blocks[b]).claiming_counts = c.blocks[b].claiming_counts
      /\ AgeBlock(c.blocks[b]).alloc = c.blocks[b].alloc
      /\ AgeBlock(c.blocks[b]).leases = [i \in LeaseIndices |-> AgeLease(c.blocks[b].leases[i])]
  BY <1>1 DEF AgeBlock, Block
<1>5. \A i \in LeaseIndices : AgeLease(c.blocks[b].leases[i]).state = c.blocks[b].leases[i].state
  <2>1. \A i \in LeaseIndices : c.blocks[b].leases[i] \in Lease
    BY <1>1 DEF Block
  <2> QED
    BY <2>1 DEF AgeLease, Lease
<1> QED
  BY <1>2, <1>3, <1>4, <1>5 DEF Unleased

\* A tidy table stays tidy as time passes.
LEMMA AgedTidy == ASSUME NEW c, WellFormed(c), Tidy(c) PROVE Tidy(AgeConfig(c))
<1> DEFINE d == AgeConfig(c)
<1>1. 0 \in Blocks
  BY SizesAssumption DEF Blocks
<1>2. d.claiming_blocks = c.claiming_blocks
  BY <1>1, AgedEntry
<1>3. Owned(d) = Owned(c)
  BY AgedEntry DEF Owned, InState
<1>4. ASSUME NEW b \in Blocks PROVE TidyEntry(d, b)
  <2>1. /\ d.blocks[b].state = c.blocks[b].state
        /\ d.blocks[b].timeout = Elapse(c.blocks[b].timeout)
        /\ d.blocks[b].claiming_counts = c.blocks[b].claiming_counts
        /\ d.blocks[b].alloc = c.blocks[b].alloc
        /\ Unleased(c.blocks[b]) => Unleased(d.blocks[b])
    BY AgedEntry
  <2>2. c.blocks[b].timeout \in Int
    BY EntryTypes
  <2>3. TidyEntry(c, b)
    BY DEF Tidy
  <2> HIDE DEF d
  <2>4. /\ c.blocks[b].timeout <= BlockTimeout => d.blocks[b].timeout <= BlockTimeout
        /\ c.blocks[b].timeout <= TentativeTimeout => d.blocks[b].timeout <= TentativeTimeout
    BY <2>1, <2>2, TimesAssumption DEF Elapse, Expired
  <2> QED
    BY <1>2, <2>1, <2>3, <2>4 DEF TidyEntry
<1> HIDE DEF d
<1>5. Modest(d)
  BY <1>2, <1>3 DEF Tidy, Modest
<1> QED
  BY <1>4, <1>5 DEF Tidy, d

\* What a second is to one daemon.
Ages(x) ==
  /\ mcast'[x] = << >> /\ mcast[x] = << >>
  /\ learning'[x] = learning[x]
  /\ Up(x)' <=> Up(x)
  /\ hk'[x] = IF hk[x] > 0 THEN hk[x] - 1 ELSE 0
  /\ Up(x) =>
       \A b \in Blocks :
         /\ Due(x, b)' \in Nat /\ Due(x, b) > 0 /\ Due(x, b)' <= Due(x, b) - 1
         /\ Entry(x, b)'.timeout = Elapse(Entry(x, b).timeout)
  /\ \A b \in Blocks : Entry(x, b)'.state = Entry(x, b).state

\* The clock lets every daemon age.
LEMMA TickAges ==
  ASSUME IdlePair, PairInv, Tick, NEW x \in Nodes
  PROVE  Ages(x) /\ Solo(x)'
<1>1. FreshInv /\ Solo(x) /\ Faults = {} /\ Fresh(x)
  BY DEF PairInv, FreshInv, IdlePair
<1>2. WellFormed(config[x]) /\ hk[x] \in Nat /\ loop[x] \in Nat
  BY <1>1, PairTypes
<1>3. /\ ~ Busy(x) /\ pc[x] \notin {"run", "update"} /\ (pc[x] = "wait" => loop[x] > 0)
      /\ ~ Delays => mcast[x] = << >> /\ server[x] = << >>
      /\ config'[x] = IF Up(x) THEN AgeConfig(config[x]) ELSE config[x]
      /\ hk'[x] = IF hk[x] > 0 THEN hk[x] - 1 ELSE 0
      /\ loop'[x] = IF loop[x] > 0 THEN loop[x] - 1 ELSE 0
      /\ UNCHANGED <<pc, ready, need, learning, mcast, server>>
  BY DEF Tick, Busy, netVars
<1>4. mcast[x] = << >> /\ server[x] = << >> /\ ready[x] = {}
  BY <1>1, <1>3 DEF Delays, Solo
<1>5. Up(x)' <=> Up(x)
  BY <1>3 DEF Up, Busy
<1>6. ASSUME Up(x), NEW b
      PROVE  Due(x, b)' \in Nat /\ Due(x, b) > 0 /\ Due(x, b)' <= Due(x, b) - 1
  <2>1. loop[x] > 0
    BY <1>3, <1>6 DEF Up
  <2>2. Due(x, b) = Grace(x) /\ Due(x, b)' = Grace(x)'
    BY <1>3 DEF Due
  <2>3. Grace(x)' \in Nat /\ Grace(x) > 0 /\ Grace(x)' <= Grace(x) - 1
    <3>1. loop[x] <= LongestLoop /\ LongestLoop \in Nat
      BY <1>1, TimesType DEF Fresh
    <3>2. /\ hk[x] \in Nat /\ loop[x] \in Nat /\ loop[x] > 0
          /\ hk'[x] = IF hk[x] > 0 THEN hk[x] - 1 ELSE 0
          /\ loop'[x] = loop[x] - 1
      BY <1>2, <1>3, <2>1
    <3> QED
      BY <3>1, <3>2 DEF Grace
  <2> QED
    BY <2>2, <2>3
<1>7. ASSUME Up(x), NEW b \in Blocks
      PROVE  Entry(x, b)'.timeout = Elapse(Entry(x, b).timeout)
  BY <1>2, <1>3, <1>7, AgedEntry DEF Entry
<1>8. ASSUME NEW b \in Blocks PROVE Entry(x, b)'.state = Entry(x, b).state
  <2>1. CASE Up(x)
    BY <1>2, <1>3, <2>1, AgedEntry DEF Entry
  <2>2. CASE ~ Up(x)
    BY <1>3, <2>2 DEF Entry
  <2> QED
    BY <2>1, <2>2
<1>9. Ages(x)
  BY <1>3, <1>4, <1>5, <1>6, <1>7, <1>8 DEF Ages
<1>10. Tidy(config'[x])
  BY <1>1, <1>2, <1>3, AgedTidy DEF Solo
<1>11. \A b \in Blocks : Holds(x, b)' <=> Holds(x, b)
  BY <1>8 DEF Holds, Claims, Ours
<1> QED
  BY <1>1, <1>3, <1>4, <1>5, <1>9, <1>10, <1>11 DEF Solo, Busy

\* Entries of the other daemon last as long as the claims they stand for.
LEMMA TickPair ==
  ASSUME IdlePair, PairInv, Tick, NEW x \in Nodes, NEW y \in Nodes, x # y
  PROVE  Pair(x, y)'
<1>1. Ages(x) /\ Ages(y)
  BY TickAges
<1>3. FromOnly(mcast[y], x)'
  BY <1>1 DEF Ages, FromOnly
<1>4. ASSUME NEW b \in Blocks
      PROVE  Heard(x, y, b)' /\ Yields(x, y, b)' /\ Contest(x, y, b)' /\ InOrder(x, y, b)'
  <2>1. /\ Heard(x, y, b) /\ Contest(x, y, b)
        /\ Due(x, b) \in Nat /\ hk[y] \in Nat
        /\ Entry(x, b).timeout \in Int /\ Entry(y, b).timeout \in Int
        /\ Holds(x, b) => Up(x)
    BY BlockFacts
  <2>2. /\ ~ Asked(x, y, b) /\ ~ Told(x, y, b) /\ ~ Asked(y, x, b)
    BY <1>1, NothingComes DEF Ages
  <2>3. /\ ~ Asked(x, y, b)' /\ ~ Told(x, y, b)' /\ Answered(mcast[y], x, b)'
    BY <1>1 DEF Ages, Asked, Told, HasInquiry, HasUpdate, Answered
  <2>4. /\ Holds(x, b)' <=> Holds(x, b)
        /\ Holds(y, b)' <=> Holds(y, b)
    BY <1>1 DEF Ages, Holds, Claims, Ours
  <2>5. ASSUME Holds(x, b), Up(y)
        PROVE  Known(x, y, b)' \/ Learns(x, y, b)'
    <3>1. Up(x) /\ (Known(x, y, b) \/ Learns(x, y, b))
      BY <2>1, <2>2, <2>5 DEF Heard, Coming
    <3>2. /\ Due(x, b)' \in Nat /\ Due(x, b) > 0 /\ Due(x, b)' <= Due(x, b) - 1
          /\ Entry(x, b)'.timeout = Elapse(Entry(x, b).timeout)
          /\ Entry(y, b)'.timeout = Elapse(Entry(y, b).timeout)
          /\ Entry(y, b)'.state = Entry(y, b).state
          /\ hk'[y] = IF hk[y] > 0 THEN hk[y] - 1 ELSE 0
          /\ learning'[y] = learning[y]
      BY <1>1, <2>5, <3>1 DEF Ages
    <3>3. CASE Known(x, y, b)
      BY <2>1, <3>2, <3>3 DEF Known, Elapse, Expired
    <3>4. CASE Learns(x, y, b)
      BY <2>1, <3>2, <3>4 DEF Learns, Elapse, Expired
    <3> QED
      BY <3>1, <3>3, <3>4
  <2>6. Heard(x, y, b)'
    BY <1>1, <2>4, <2>5 DEF Heard, Ages
  <2>7. Contest(x, y, b)'
    BY <2>1, <2>2, <2>4 DEF Contest
  <2> QED
    BY <2>3, <2>6, <2>7 DEF Yields, InOrder
<1> QED
  BY <1>3, <1>4 DEF Pair, Toward

-----------------------------------------------------------------------------
(* The invariant *)

\* Daemons that are not running hold nothing and have nothing to read.
LEMMA InitPair == Init => PairInv
<1> SUFFICES ASSUME Init PROVE PairInv
  OBVIOUS
<1>1. ASSUME NEW n \in Nodes
      PROVE  /\ config[n] = ddhcp_block_init(FALSE) /\ pc[n] = "down" /\ ready[n] = {}
             /\ mcast[n] = << >> /\ server[n] = << >>
  BY DEF Init
<1>2. ASSUME NEW n \in Nodes PROVE ~ Up(n) /\ \A b \in Blocks : ~ Holds(n, b)
  BY <1>1, InitTidy DEF Up, Busy, Holds, Claims, Ours, Entry
<1>3. ASSUME NEW n \in Nodes PROVE Solo(n)
  BY <1>1, <1>2, InitTidy DEF Solo, Busy
<1>4. ASSUME NEW x \in Nodes, NEW y \in Nodes PROVE Pair(x, y)
  <2>2. FromOnly(mcast[y], x)
    BY <1>1, EmptyBuffer
  <2>3. ASSUME NEW b \in Blocks
        PROVE  Heard(x, y, b) /\ Yields(x, y, b) /\ Contest(x, y, b) /\ InOrder(x, y, b)
    BY <1>2 DEF Heard, Yields, Contest, InOrder, Holds
  <2> QED
    BY <2>2, <2>3 DEF Pair, Toward
<1> QED
  BY <1>3, <1>4, InitFresh DEF PairInv

\* Without clients only the multicast socket ever has an event.
LEMMA OnlyMulticast ==
  ASSUME PairInv, NEW x \in Nodes, Daemon(x)
  PROVE  \/ Wake(x) \/ hdl_ddhcp_block(x) \/ HandlerReturns(x)
         \/ HouseKeeping(x) \/ HouseKeepingEnds(x) \/ NoHouseKeeping(x)
<1>1. SERVER \notin ready[x] /\ DHCP \notin ready[x]
  BY DEF PairInv, Solo, MCAST, SERVER, DHCP
<1>2. ~ hdl_ddhcp_dhcp(x) /\ ~ hdl_dhcp(x) /\ ~ NullDereference(x)
  BY <1>1 DEF hdl_ddhcp_dhcp, hdl_dhcp, NullDereference, Turn, MayRead
<1> QED
  BY <1>2 DEF Daemon

\* The invariant is inductive.
LEMMA NextPair == ASSUME IdlePair PROVE PairInv /\ Roomy /\ [Next]_vars => PairInv'
<1> SUFFICES ASSUME PairInv, Roomy, [Next]_vars PROVE PairInv'
  OBVIOUS
<1>1. FreshInv'
  BY PairTimes, NextFresh DEF PairInv
<1>2. ASSUME NEW x \in Nodes, Boot(x) \/ Stop(x) \/ Daemon(x), NEW y \in Nodes, x # y
      PROVE  Solo(x)' /\ Solo(y)' /\ Pair(x, y)' /\ Pair(y, x)'
  BY <1>2, OnlyMulticast, BootPair, StopPair, WakePair, BlockPacketPair,
     HandlerReturnsPair, HouseKeepingPair, HouseKeepingEndsPair, NoHouseKeepingPair
<1>3. CASE \E x \in Nodes : Boot(x) \/ Stop(x) \/ Daemon(x)
  <2>1. PICK x \in Nodes : Boot(x) \/ Stop(x) \/ Daemon(x)
    BY <1>3
  <2>2. PICK y \in Nodes : y # x
    BY DEF IdlePair
  <2>3. Nodes = {x, y}
    BY <2>2 DEF IdlePair
  <2>4. Solo(x)' /\ Solo(y)' /\ Pair(x, y)' /\ Pair(y, x)'
    BY <1>2, <2>1, <2>2
  <2>5. \A n \in Nodes : Solo(n)'
    BY <2>3, <2>4
  <2>6. \A n, m \in Nodes : n # m => Pair(n, m)'
    BY <2>3, <2>4
  <2> QED
    BY <1>1, <2>5, <2>6 DEF PairInv
<1>4. CASE Tick
  BY <1>1, <1>4, TickAges, TickPair DEF PairInv
<1>5. CASE Heal \/ UNCHANGED vars
  <2>1. UNCHANGED <<config, pc, ready, need, learning, hk, loop, mcast, server>>
    BY <1>5 DEF Heal, vars, daemonVars, netVars
  <2>2. ASSUME NEW n \in Nodes PROVE Bystander(n) /\ mcast'[n] = mcast[n]
    BY <2>1 DEF Bystander
  <2>3. ASSUME NEW n \in Nodes PROVE Solo(n)'
    BY <2>1, <2>2, BystanderSolo DEF PairInv
  <2>4. ASSUME NEW x \in Nodes, NEW y \in Nodes, x # y PROVE Pair(x, y)'
    <3>1. Pair(x, y) /\ Still(x) /\ Still(y)
      BY <2>2, <2>4, BystanderStill DEF PairInv
    <3>2. FromOnly(mcast[y], x)'
      BY <2>1, <3>1, SameBuffer DEF Pair
    <3>3. ASSUME NEW b \in Blocks PROVE Toward(x, y, b)'
      <4>1. /\ Entry(x, b)' = Entry(x, b) /\ Entry(y, b)' = Entry(y, b)
            /\ Due(x, b)' = Due(x, b)
            /\ (Deaf(x)' <=> Deaf(x)) /\ (Deaf(y)' <=> Deaf(y)) /\ (Up(y)' <=> Up(y))
            /\ Rounds(x)' = Rounds(x) /\ Rounds(y)' = Rounds(y)
            /\ learning'[y] = learning[y] /\ hk'[y] = hk[y]
        BY <2>1, <3>1 DEF Still
      <4>2. /\ Asked(x, y, b)' <=> Asked(x, y, b)
            /\ Asked(y, x, b)' <=> Asked(y, x, b)
            /\ Told(x, y, b)' <=> Told(x, y, b)
            /\ Answered(mcast[y], x, b)' <=> Answered(mcast[y], x, b)
        BY <2>2, SameBuffer
      <4>3. /\ Holds(x, b)' <=> Holds(x, b)
            /\ Holds(y, b)' <=> Holds(y, b)
            /\ Ours(x, b)' <=> Ours(x, b)
            /\ Early(x, b, Rounds(x))' <=> Early(x, b, Rounds(x))
            /\ Early(y, b, Rounds(y))' <=> Early(y, b, Rounds(y))
            /\ Early(y, b, One(Deaf(y)))' <=> Early(y, b, One(Deaf(y)))
        BY <4>1 DEF Holds, Claims, Ours, Early, One
      <4>4. /\ Known(x, y, b)' <=> Known(x, y, b)
            /\ Learns(x, y, b)' <=> Learns(x, y, b)
        BY <4>1 DEF Known, Learns
      <4>5. Coming(x, y, b)' <=> Coming(x, y, b)
        BY <4>1, <4>2, <4>3 DEF Coming
      <4> QED
        BY <3>1, <4>1, <4>2, <4>3, <4>4, <4>5
           DEF Pair, Toward, Heard, Yields, Contest, InOrder
    <3> QED
      BY <3>2, <3>3 DEF Pair
  <2> QED
    BY <1>1, <2>3, <2>4 DEF PairInv
<1> QED
  BY <1>3, <1>4, <1>5 DEF Next

\* The invariant in every state.
LEMMA PairAlways == ASSUME IdlePair PROVE Spec /\ []Roomy => []PairInv
  BY InitPair, NextPair, PTL DEF Spec

\* Whoever owns a block owns it alone.
LEMMA Alone ==
  ASSUME IdlePair, PairInv, NEW x \in Nodes, NEW y \in Nodes, NEW b \in Blocks,
         Ours(x, b), Ours(y, b)
  PROVE  x = y
<1> SUFFICES ASSUME x # y, NodeId[x] < NodeId[y] \/ NodeId[y] < NodeId[x] PROVE FALSE
  BY IdsDiffer
<1>1. /\ Contest(x, y, b) /\ Contest(y, x, b) /\ Yields(x, y, b) /\ Yields(y, x, b)
  BY BlockFacts
<1>2. Holds(x, b) /\ Holds(y, b) /\ ~ Claims(x, b) /\ ~ Claims(y, b)
  BY DEF Holds, Claims, Ours
<1> QED
  BY <1>1, <1>2 DEF Contest, Yields, Early

\* Two daemons that serve no clients and start with a learning phase, on a
\* link that loses nothing and as long as no receive buffer overflows, never
\* own the same block, whatever their ids, the size of the table and the
\* times, if these leave room for a refresh (the defaults of main.c do), and
\* however restarts, events, packets and the clock interleave: block_claim,
\* ddhcp_block_process_claims and ddhcp_block_process_inquire keep the claims
\* of the two apart.  With clients they do not: the run stale_count.
THEOREM OneOwner == ASSUME IdlePair PROVE Spec /\ []Roomy => []SingleOwner
<1>1. ASSUME PairInv PROVE SingleOwner
  <2> SUFFICES ASSUME NEW b \in Blocks PROVE Cardinality(Owners(b)) <= 1
    BY DEF SingleOwner
  <2>1. \A x, y \in Owners(b) : x = y
    BY <1>1, Alone DEF Owners, Ours, Entry
  <2>2. CASE Owners(b) = {}
    <3>1. Cardinality({}) = 0
      BY FS_EmptySet
    <3> QED
      BY <2>2, <3>1
  <2>3. CASE Owners(b) # {}
    <3>1. PICK x : x \in Owners(b)
      BY <2>3
    <3>2. Owners(b) = {x}
      BY <2>1, <3>1
    <3>3. Cardinality({x}) = 1
      BY FS_Singleton
    <3> QED
      BY <3>2, <3>3
  <2> QED
    BY <2>2, <2>3
<1>2. PairInv => SingleOwner
  BY <1>1
<1> QED
  BY <1>2, PairAlways, PTL

\* Under the same hypotheses a daemon that has done its learning and has read
\* its packets knows of every block of the other one, however often either
\* was restarted: the learning phase lasts longer than an owner stays silent
\* (block_update_claims), and an entry outlives the claim it stands for.
\* With clients an entry may be freed early (block.c:475, a local copy of a
\* foreign lease that expires), which the hypotheses rule out.
THEOREM Knowledge == ASSUME IdlePair PROVE Spec /\ []Roomy => []OwnersKnown
<1>1. ASSUME PairInv PROVE OwnersKnown
  <2> SUFFICES ASSUME \A n \in Nodes : ~ Busy(n) /\ mcast[n] = << >>,
                      NEW n \in Nodes, NEW m \in Nodes, NEW b \in Blocks, n # m,
                      Up(n), ~ learning[n], config[m].blocks[b].state = "OURS"
               PROVE  config[n].blocks[b].state \in {"CLAIMED", "TENTATIVE"}
    BY DEF OwnersKnown
  <2>1. Heard(m, n, b)
    BY <1>1, BlockFacts
  <2>2. ~ Asked(n, m, b) /\ ~ Asked(m, n, b) /\ ~ Told(m, n, b)
    BY NothingComes
  <2>3. ~ Learns(m, n, b) /\ ~ Coming(m, n, b)
    BY <2>2 DEF Learns, Coming
  <2>4. Known(m, n, b)
    BY <2>1, <2>2, <2>3 DEF Heard, Holds, Ours, Entry
  <2> QED
    BY <2>4 DEF Known, Entry
<1>2. PairInv => OwnersKnown
  BY <1>1
<1> QED
  BY <1>2, PairAlways, PTL
=============================================================================
