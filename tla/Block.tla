------------------------------- MODULE Block --------------------------------
(***************************************************************************)
(* The block table of one daemon (block.c).  Every operator takes the      *)
(* block or the configuration the C function is called with and gives the  *)
(* one it leaves behind.                                                   *)
(*                                                                         *)
(* A function that chooses (rand(), equal ages) or that sends multicast    *)
(* packets gives the SET of its outcomes, records with the configuration   *)
(* left behind and the packets handed to the network, in order.  A send    *)
(* that fails is one whose packet is missing; ok ranges over the results   *)
(* sendto may have.                                                        *)
(***************************************************************************)
EXTENDS DhcpLease

\* A multicast packet: the sender, the command and the blocks listed in it.
\* An UPDATECLAIM carries the claim's life time, config->block_timeout.
McastPacket == [command : {"UPDATECLAIM", "INQUIRE"},
                sender : Nodes,
                payload : SUBSET Blocks]

new_ddhcp_packet(command, n, payload) ==
  [command |-> command, sender |-> n, payload |-> payload]

Outcome(c, sent) == [config |-> c, sent |-> sent]

-----------------------------------------------------------------------------
(* One block *)

block_alloc(blk) ==
  IF blk.alloc THEN blk
               ELSE [blk EXCEPT !.alloc = TRUE, !.leases = UnusedLeases]

\* Mutant: a block is owned without its lease array.
block_own_NoAlloc(blk) == [blk EXCEPT !.state = "OURS", !.first_claimed = 0]

\* Neither the timeout nor leases that are already there are touched.
block_own(blk) ==
  [block_alloc(blk) EXCEPT !.state = "OURS", !.first_claimed = 0]

\* Mutant: the pointer to the freed leases is left in the block.
block_free_Dangling(blk) ==
  [blk EXCEPT !.state = "FREE",
              !.needless_since = IF blk.alloc THEN NotMarked ELSE @]

block_free(blk) ==
  [blk EXCEPT !.state = "FREE",
              !.alloc = FALSE,
              !.leases = UnusedLeases,
              !.needless_since = IF blk.alloc THEN NotMarked ELSE @]

-----------------------------------------------------------------------------
(* Looking through the table *)

InState(c, s) == {b \in Blocks : c.blocks[b].state = s}

Owned(c) == InState(c, "OURS")

\* Addition over a set of blocks, written without recursion: the pairs of a
\* block of ours and a free lease in it.
block_num_free_leases(c) ==
  Cardinality({a \in Addresses : /\ a[1] \in Owned(c)
                                 /\ a[2] \in dhcp_free_leases(c.blocks[a[1]])})

\* The loop never advances its block pointer: it looks at block 0 each time.
block_num_owned(c) == IF c.blocks[0].state = "OURS" THEN NumberOfBlocks ELSE 0

\* The blocks of S that were claimed first, and last.  Blocks of equal age
\* and blocks older than MaxAge are not told apart.
Eldest(c, S) == {b \in S : \A d \in S :
                    c.blocks[b].first_claimed >= c.blocks[d].first_claimed}

Youngest(c, S) == {b \in S : \A d \in S :
                      c.blocks[b].first_claimed <= c.blocks[d].first_claimed}

\* The blocks the search may return; none when it returns NULL.
block_find_free_leases(c) ==
  Eldest(c, {b \in Owned(c) : dhcp_has_free(c.blocks[b])})

-----------------------------------------------------------------------------
(* Claiming *)

\* Mutant: one announcement too many before a claim is done.
ClaimsDone_Late(c) ==
  {b \in c.claiming_blocks : c.blocks[b].claiming_counts > 3}

\* The claims that have been announced three times.  The count is looked at
\* before the state.
ClaimsDone(c) ==
  {b \in c.claiming_blocks : c.blocks[b].claiming_counts = 3}

\* Mutant: only a claim of the other node ends ours, an inquiry does not.
ClaimsLost_Kept(c) ==
  {b \in c.claiming_blocks \ ClaimsDone(c) : c.blocks[b].state = "CLAIMED"}

\* The claims that are no longer ours to make.
ClaimsLost(c) ==
  {b \in c.claiming_blocks \ ClaimsDone(c) : c.blocks[b].state # "CLAIMING"}

\* Mutant: a lost claim leaves the list but stays in the counter.
FinishClaims_Miscount(c) ==
  [c EXCEPT
     !.blocks = [b \in Blocks |-> IF b \in ClaimsDone(c)
                                  THEN block_own(@[b]) ELSE @[b]],
     !.claiming_blocks = @ \ (ClaimsDone(c) \cup ClaimsLost(c)),
     !.claiming_blocks_amount = @ - Cardinality(ClaimsDone(c))]

\* First loop of block_claim: own what is done, forget what is lost.
FinishClaims(c) ==
  LET left == c.claiming_blocks \ (ClaimsDone(c) \cup ClaimsLost(c))
  IN [c EXCEPT
        !.blocks = [b \in Blocks |-> IF b \in ClaimsDone(c)
                                     THEN block_own(@[b]) ELSE @[b]],
        !.claiming_blocks = left,
        !.claiming_blocks_amount =
           @ - Cardinality(ClaimsDone(c)) - Cardinality(ClaimsLost(c))]

\* Mutant: the comparison with the claims under way is off by one.
BlocksToFind_OneLess(num, c) ==
  IF num > c.claiming_blocks_amount + 1
  THEN num - c.claiming_blocks_amount - 1 ELSE 0

\* How many further blocks block_claim looks for when it still needs num.
BlocksToFind(num, c) ==
  IF num > c.claiming_blocks_amount THEN num - c.claiming_blocks_amount ELSE 0

\* The sets of blocks that repeated calls of block_find_free may select:
\* that many free ones, or all of them if there are not enough.
block_find_free(num, c) ==
  LET free == InState(c, "FREE")
  IN {S \in SUBSET free : \/ Cardinality(S) = num
                          \/ Cardinality(S) < num /\ S = free}

StartClaim(blk) ==
  [blk EXCEPT !.state = "CLAIMING", !.claiming_counts = 0,
              !.timeout = TentativeTimeout]

StartClaims(c, new) ==
  [c EXCEPT
     !.blocks = [b \in Blocks |-> IF b \in new THEN StartClaim(@[b]) ELSE @[b]],
     !.claiming_blocks = @ \cup new,
     !.claiming_blocks_amount = @ + Cardinality(new)]

CountClaim(blk) == [blk EXCEPT !.claiming_counts = @ + 1]

CountClaims(c) ==
  [c EXCEPT !.blocks = [b \in Blocks |-> IF b \in c.claiming_blocks
                                         THEN CountClaim(@[b]) ELSE @[b]]]

\* Announce every block in the claiming process; only a packet that was
\* sent counts.
Inquire(n, c, ok) ==
  IF c.claiming_blocks_amount < 1 THEN {Outcome(c, << >>)}
  ELSE {IF o THEN Outcome(CountClaims(c),
                          <<new_ddhcp_packet("INQUIRE", n, c.claiming_blocks)>>)
             ELSE Outcome(c, << >>) : o \in ok}

block_claim(n, num_blocks, c, ok) ==
  LET rest == FinishClaims(c)
      num == num_blocks - Cardinality(ClaimsDone(c))
  IN UNION {Inquire(n, StartClaims(rest, new), ok) :
              new \in block_find_free(BlocksToFind(num, rest), rest)}

-----------------------------------------------------------------------------
(* Giving blocks back *)

\* Blocks of ours without a lease in use, the youngest of them.
DropCandidates(c) ==
  Youngest(c, {b \in Owned(c) : dhcp_num_free(c.blocks[b]) = BlockSize})

\* Mark the candidate, or free it once it has been marked long enough.
DropOrMark(c, b) ==
  LET blk == c.blocks[b]
  IN CASE blk.needless_since = NotMarked ->
            [c EXCEPT !.blocks[b].needless_since = 0, !.needless_marks = TRUE]
       [] blk.needless_since # NotMarked /\ blk.needless_since >= NeedlessTimeout ->
            [c EXCEPT !.blocks[b] = block_free(@), !.needless_marks = FALSE]
       [] OTHER -> c

block_drop_unused(c) ==
  IF DropCandidates(c) = {} THEN {c}
  ELSE {DropOrMark(c, b) : b \in DropCandidates(c)}

block_unmark_needless(c) ==
  [c EXCEPT !.blocks = [b \in Blocks |->
                          [@[b] EXCEPT !.needless_since = NotMarked]],
            !.needless_marks = FALSE]

-----------------------------------------------------------------------------
(* Refreshing claims *)

\* Mutant: refresh a claim when only a fraction of its life is left.
Baseline_LastFraction == BlockTimeout \div RefreshFactor

\* A claim with less than this left is due for a refresh.
Baseline == BlockTimeout - (BlockTimeout \div RefreshFactor)

\* Blocks of ours are packed into packets in the order of their indices.
PacketOf(c, b) ==
  Cardinality({d \in Owned(c) : d < b}) \div UpdateClaimMaxBlocks

InPacket(c, k) == {b \in Owned(c) : PacketOf(c, b) = k}

\* The packets that hold a block due for a refresh; the others stay unsent.
PacketsDue(c) ==
  {PacketOf(c, b) : b \in {d \in Owned(c) : c.blocks[d].timeout < Baseline}}

\* The increasing enumerations of a finite set of numbers (there is one).
Ascending(S) == {f \in [1 .. Cardinality(S) -> S] :
                   \A i, j \in DOMAIN f : i < j => f[i] < f[j]}

\* _block_update_claim_send for the packets in sent: every block listed in a
\* packet that went out has its timeout renewed.
Refresh(c, sent) ==
  [c EXCEPT !.blocks = [b \in Blocks |->
                          IF b \in Owned(c) /\ PacketOf(c, b) \in sent
                          THEN [@[b] EXCEPT !.timeout = BlockTimeout]
                          ELSE @[b]]]

UpdateClaims(n, c, sent) ==
  {Outcome(Refresh(c, sent),
           [i \in 1 .. Cardinality(sent) |->
              new_ddhcp_packet("UPDATECLAIM", n, InPacket(c, f[i]))]) :
     f \in Ascending(sent)}

block_update_claims(n, c, ok) ==
  UNION {UpdateClaims(n, c, sent) :
           sent \in {s \in SUBSET PacketsDue(c) :
                       FALSE \notin ok => s = PacketsDue(c)}}

-----------------------------------------------------------------------------
(* Timeouts *)

\* A block that is not free is freed when its deadline has passed.  Leases
\* expire in every block; a block of another node whose leases are all free
\* is freed as well, whatever is left of its deadline.
CheckBlockTimeout(blk) ==
  LET timed == IF blk.timeout < 0 /\ blk.state # "FREE"
               THEN block_free(blk) ELSE blk
      aged == IF timed.state = "OURS" \/ timed.alloc
              THEN dhcp_check_timeouts(timed) ELSE timed
  IN IF aged.state # "OURS" /\ aged.alloc /\ dhcp_num_free(aged) = BlockSize
     THEN block_free(aged) ELSE aged

block_check_timeouts(c) ==
  [c EXCEPT !.blocks = [b \in Blocks |-> CheckBlockTimeout(@[b])]]

-----------------------------------------------------------------------------
(* One second passes for the table. *)

AgeLease(lease) == [lease EXCEPT !.lease_end = Elapse(@)]

AgeBlock(blk) ==
  [blk EXCEPT !.timeout = Elapse(@),
              !.first_claimed = Older(@, MaxAge),
              !.needless_since = IF @ = NotMarked THEN NotMarked
                                 ELSE Older(@, NeedlessTimeout),
              !.leases = [i \in LeaseIndices |-> AgeLease(@[i])]]

\* ddhcp_block_init: a calloc'ed table of free blocks.
InitialBlock ==
  [state |-> "FREE", owner |-> NoNode, timeout |-> BlockTimeout,
   claiming_counts |-> 0, first_claimed |-> MaxAge,
   needless_since |-> NotMarked, alloc |-> FALSE, leases |-> UnusedLeases]

\* needless_marks is never initialised: main leaves whatever was on its
\* stack in it.
ddhcp_block_init(marks) ==
  [blocks |-> [b \in Blocks |-> InitialBlock],
   claiming_blocks |-> {},
   claiming_blocks_amount |-> 0,
   needless_marks |-> marks,
   dhcp_packet_cache |-> {}]

-----------------------------------------------------------------------------
(* What the functions above maintain; Swarm checks it for every daemon. *)

\* The lease array of a block exists while the block is ours and is gone
\* when the block is free or being claimed.
Allocated(blk) ==
  /\ blk.state = "OURS" => blk.alloc
  /\ blk.state \in {"FREE", "CLAIMING"} => ~ blk.alloc

\* The claim list and its counter agree, every block being claimed is on the
\* list, and no block of ours is.
ClaimsListed(c) ==
  /\ c.claiming_blocks_amount = Cardinality(c.claiming_blocks)
  /\ InState(c, "CLAIMING") \subseteq c.claiming_blocks
  /\ Owned(c) \cap c.claiming_blocks = {}
=============================================================================
