-------------------------------- MODULE Link --------------------------------
(***************************************************************************)
(* What reaches a daemon from the daemons around it: the multicast and the *)
(* unicast socket (hdl_ddhcp_block, hdl_ddhcp_dhcp), the receive buffer    *)
(* they share with the sockets for clients and control, the check that a   *)
(* packet is of this swarm, and the addresses the packet is then applied   *)
(* to.                                                                     *)
(*                                                                         *)
(* The senders have layouts and byte orders of their own: several swarms   *)
(* may use one link, and a daemon may have been started with other sizes.  *)
(***************************************************************************)
EXTENDS Packet

CONSTANTS
  Home,     \* the receiver: its node_id, layout and byte order
  Senders,  \* the daemons on the link
  Lengths,  \* lengths other than its own that a datagram may arrive with
  Timeout   \* block_timeout

\* A daemon derives the number of blocks from its other sizes (Configure).
ASSUME LinkAssumption ==
  /\ \A s \in Senders \cup {Home} : Usable(s.layout) /\ s.order \in {"little", "big"}
  /\ \A s \in Senders :
       (/\ s.layout.prefix_len = Home.layout.prefix_len
        /\ s.layout.block_size = Home.layout.block_size)
         => s.layout.number_of_blocks = Home.layout.number_of_blocks
  /\ Lengths \subseteq Nat

VARIABLES
  buffer,  \* the receive buffer
  socket,  \* the datagram that waits to be read
  last     \* the last datagram and what became of it

vars == <<buffer, socket, last>>

NoDatagram == [len |-> 0]
Nothing == [packet |-> Refused, applied |-> {}]

-----------------------------------------------------------------------------
(* Senders *)

Claim(b) == [block_index |-> b, timeout |-> Timeout, reserved |-> 0]
Inquiry(b) == [block_index |-> b, timeout |-> 0, reserved |-> 0]

\* block_claim, _block_update_claim_send, dhcp_hdl_request and the answers of
\* ddhcp_dhcp_renewlease, with the addresses they are to be applied to: an
\* answer finds its request by xid and chaddr.  Nothing sends a RELEASE.
Messages(s) ==
  LET l == s.layout
      blocks == 0 .. l.number_of_blocks - 1
      addresses(b) == {AddressOf(l, b, i) : i \in 0 .. l.block_size - 1}
      renewal(a) == [address |-> a, xid |-> 1, lease_seconds |-> 0, chaddr |-> 2]
      message(command, claims, renew, about) ==
        [packet |-> new_ddhcp_packet(command, s, claims, renew), about |-> about]
      listed(b) == IF b = 0 THEN <<0>> ELSE <<0, b>>
      both(b) == addresses(0) \cup addresses(b)
  IN {message(UPDATECLAIM, [i \in DOMAIN listed(b) |-> Claim(listed(b)[i])],
              NoRenewal, both(b)) : b \in blocks}
     \cup {message(INQUIRE, [i \in DOMAIN listed(b) |-> Inquiry(listed(b)[i])],
                   NoRenewal, both(b)) : b \in blocks}
     \cup {message(RENEWLEASE, << >>, renewal(AddressOf(l, k[1], k[2])),
                   {AddressOf(l, k[1], k[2])}) : k \in LeasesOf(l)}
     \cup {message(command, << >>, renewal(AddressOf(l, 0, 0)), {}) :
             command \in {LEASEACK, LEASENAK, RELEASE}}

-----------------------------------------------------------------------------
(* Receiver *)

\* Mutant: daemons with blocks of another size are taken for the swarm.
ddhcp_check_packet_AnySize(p) ==
  /\ p.prefix = Home.layout.prefix
  /\ p.prefix_len = Home.layout.prefix_len

ddhcp_check_packet(p) ==
  /\ p.prefix = Home.layout.prefix
  /\ p.prefix_len = Home.layout.prefix_len
  /\ p.blocksize = Home.layout.block_size

\* The addresses of the blocks a claim or an inquiry is applied to.  Blocks
\* the receiver does not have are skipped.
ddhcp_block_process(p) ==
  IF p = Refused \/ ~ ddhcp_check_packet(p) \/ p.command \notin {UPDATECLAIM, INQUIRE} THEN {}
  ELSE UNION {{AddressOf(Home.layout, p.payload[i].block_index, j) :
                 j \in 0 .. Home.layout.block_size - 1} :
              i \in {k \in 1 .. p.count :
                       p.payload[k].block_index < Home.layout.number_of_blocks}}

\* The address of the lease a renewal or a release is applied to.
ddhcp_dhcp_process(p) ==
  IF p = Refused \/ ~ ddhcp_check_packet(p) \/ p.command \notin {RENEWLEASE, RELEASE} THEN {}
  ELSE LET lease == find_lease_from_address(Home.layout, p.renew_payload.address)
       IN IF lease = NoLease THEN {} ELSE {AddressOf(Home.layout, lease[1], lease[2])}

\* recvfrom puts len bytes into the buffer and leaves the rest of it alone.
recvfrom(wire, len) ==
  LET new == {offset \in DOMAIN wire : offset < len}
      old == {offset \in DOMAIN buffer : offset >= len}
  IN [offset \in new \cup old |-> IF offset \in new THEN wire[offset] ELSE buffer[offset]]

\* The length of the datagram for a packet.
LengthOf(p) ==
  LET size == _packet_size(p.command, p.count)
  IN IF size = -1 THEN HeaderLength + RenewLength ELSE size

\* A datagram is whole, or of a length a daemon of this version never sends.
Arrive ==
  /\ socket = NoDatagram
  /\ \E s \in Senders : \E m \in Messages(s) :
       LET whole == LengthOf(m.packet)
       IN \E len \in {whole} \cup {n \in Lengths : n < whole} :
            socket' = [sender |-> s, sent |-> m, len |-> len, whole |-> len = whole]
  /\ last' = Nothing
  /\ UNCHANGED buffer

Received == recvfrom(hton_packet(socket.sent.packet, socket.sender.order), socket.len)

Decoded == ntoh_mcast_packet(Received, socket.len, Home.order)

Handle(applied) ==
  /\ buffer' = Received
  /\ last' = [sender |-> socket.sender, sent |-> socket.sent, whole |-> socket.whole,
              packet |-> Decoded, applied |-> applied]
  /\ socket' = NoDatagram

hdl_ddhcp_block ==
  /\ socket # NoDatagram
  /\ socket.sent.packet.command \in {UPDATECLAIM, INQUIRE}
  /\ Handle(ddhcp_block_process(Decoded))

hdl_ddhcp_dhcp ==
  /\ socket # NoDatagram
  /\ socket.sent.packet.command \in Renewals
  /\ Handle(ddhcp_dhcp_process(Decoded))

\* hdl_dhcp and hdl_ctrl_cmd read into the same buffer.
OtherSockets ==
  \E len \in Lengths :
    /\ buffer' = [offset \in {o \in DOMAIN buffer : o >= len} |-> buffer[offset]]
    /\ last' = Nothing
    /\ UNCHANGED socket

\* The buffer comes out of malloc: memory that may have held a packet.
Init ==
  /\ buffer \in {[offset \in {} |-> Junk]} \cup
                {hton_packet(m.packet, Home.order) : m \in Messages(Home)}
  /\ socket = NoDatagram
  /\ last = Nothing

Next == Arrive \/ hdl_ddhcp_block \/ hdl_ddhcp_dhcp \/ OtherSockets

Spec == Init /\ [][Next]_vars

-----------------------------------------------------------------------------
(* Properties *)

\* A packet is accepted only if its datagram arrived whole, whatever an
\* earlier datagram has left in the buffer behind it (ntoh_mcast_packet reads
\* the header before it looks at the length), and then it is the packet that
\* was sent.  The address of a renewal is, if both daemons have the same byte
\* order.
ReceivedAsSent ==
  last.packet # Refused =>
    LET sent == last.sent.packet
    IN /\ last.whole
       /\ \/ last.packet = sent
          \/ /\ last.sender.order # Home.order
             /\ sent.command \in Renewals
             /\ last.packet =
                  [sent EXCEPT !.renew_payload.address = Reversed(sent.renew_payload.address)]

\* A packet of this swarm that arrives whole is applied to the addresses its
\* sender meant, and to no other: the receiver's blocks and leases have the
\* addresses they have at the sender.  No other packet is applied at all,
\* whoever sent it.  This takes daemons of one byte order.
AppliedAsMeant ==
  last # Nothing /\ last.sender.order = Home.order =>
    last.applied = IF last.sender.layout = Home.layout /\ last.whole
                   THEN last.sent.about ELSE {}
=============================================================================
