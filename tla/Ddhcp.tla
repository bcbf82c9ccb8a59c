-------------------------------- MODULE Ddhcp -------------------------------
(***************************************************************************)
(* The protocol between daemons (ddhcp.c): what a daemon does with one     *)
(* entry of a multicast packet and with one packet sent to it directly.    *)
(***************************************************************************)
EXTENDS Dhcp

\* Mutants: the comparison of node ids never, or always, decides.
SenderWins_Never(n, m) == FALSE

SenderLoses_Always(n, m) == TRUE

\* NODE_ID_CMP of the packet's node id with our own.
SenderWins(n, m) == NodeId[m.sender] > NodeId[n]

SenderLoses(n, m) == NodeId[m.sender] < NodeId[n]

\* timeout = 0 makes the claim look overdue, so that the update sends it.
Reclaim(n, b, c, ok) ==
  block_update_claims(n, [c EXCEPT !.blocks[b].timeout = Expired], ok)

\* The table entry of a block another node claims.  Leases stay.
NoticeClaim(blk, sender) ==
  [blk EXCEPT !.state = "CLAIMED", !.timeout = BlockTimeout, !.owner = sender]

NoticeInterest(blk) ==
  [blk EXCEPT !.state = "TENTATIVE", !.timeout = TentativeTimeout]

\* One round of the loop over the payload of an UPDATECLAIM.
ddhcp_block_process_claims(n, m, b, c, ok) ==
  IF c.blocks[b].state = "OURS" /\ SenderLoses(n, m)
  THEN Reclaim(n, b, c, ok)
  ELSE {Outcome([c EXCEPT !.blocks[b] = NoticeClaim(@, m.sender)], << >>)}

\* One round of the loop over the payload of an INQUIRE.
ddhcp_block_process_inquire(n, m, b, c, ok) ==
  CASE c.blocks[b].state = "OURS" -> Reclaim(n, b, c, ok)
    [] c.blocks[b].state = "CLAIMING" /\ ~ SenderWins(n, m) ->
         {Outcome(c, << >>)}
    [] OTHER -> {Outcome([c EXCEPT !.blocks[b] = NoticeInterest(@)], << >>)}

ddhcp_block_process(n, m, b, c, ok) ==
  IF m.command = "UPDATECLAIM"
  THEN ddhcp_block_process_claims(n, m, b, c, ok)
  ELSE ddhcp_block_process_inquire(n, m, b, c, ok)

-----------------------------------------------------------------------------
(* Direct packets *)

\* Answer with LEASEACK if the address is in a block of ours and with
\* LEASENAK if it is not; the payload goes back as it came.
ddhcp_dhcp_renewlease(n, m, c) ==
  LET answer == IF find_lease_from_address(m.address, c) = 0
                THEN "LEASEACK" ELSE "LEASENAK"
  IN UsingLeases(c, {m.address[1]} \cap Owned(c),
       {Handled(dhcp_rhdl_request(m.address, c), NoReply,
                <<[to |-> m.sender,
                   packet |-> [m EXCEPT !.command = answer, !.sender = n]]>>)})

ddhcp_dhcp_leaseack(m, c, ok) ==
  LET found == dhcp_packet_list_find(c, m.xid, m.chaddr)
  IN IF found = {} THEN {Silent(c)}
     ELSE UNION {dhcp_rhdl_ack(e.packet, Uncache(c, e), ok) : e \in found}

ddhcp_dhcp_leasenak(m, c, ok) ==
  LET found == dhcp_packet_list_find(c, m.xid, m.chaddr)
  IN IF found = {} THEN {Silent(c)}
     ELSE UNION {dhcp_nack(e.packet, Uncache(c, e), ok) : e \in found}

ddhcp_dhcp_process(n, m, c, ok) ==
  CASE m.command = "RENEWLEASE" -> ddhcp_dhcp_renewlease(n, m, c)
    [] m.command = "LEASEACK" -> ddhcp_dhcp_leaseack(m, c, ok)
    [] m.command = "LEASENAK" -> ddhcp_dhcp_leasenak(m, c, ok)
=============================================================================
