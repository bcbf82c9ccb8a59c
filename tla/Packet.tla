------------------------------- MODULE Packet -------------------------------
(***************************************************************************)
(* The packets daemons send each other, as packet.c puts them into bytes   *)
(* and takes them out of its receive buffer.                               *)
(*                                                                         *)
(* A buffer is a function from offsets to what was written there as one    *)
(* field: a field is read back only at the offset where it was written.    *)
(* Numbers in it are in network byte order.                                *)
(***************************************************************************)
EXTENDS Addressing, Sequences

UPDATECLAIM == 1
INQUIRE == 2
RENEWLEASE == 16
LEASEACK == 17
LEASENAK == 18
RELEASE == 19

Renewals == {RENEWLEASE, LEASEACK, LEASENAK, RELEASE}

HeaderLength == 16
RenewLength == 28

\* What a read gives that does not start where a field was written.
Junk == -1

Read(buffer, offset) == IF offset \in DOMAIN buffer THEN buffer[offset] ELSE Junk

_packet_size(command, count) ==
  CASE command = UPDATECLAIM -> HeaderLength + count * 7
    [] command = INQUIRE -> HeaderLength + count * 4
    [] command \in {LEASEACK, LEASENAK, RENEWLEASE} -> HeaderLength + RenewLength
    [] OTHER -> -1

\* htonl and ntohl by a host with this byte order.  The address of a renewal
\* is in network byte order before hton_packet turns it once more.
InOrder(order, address) == IF order = "little" THEN Reversed(address) ELSE address

\* A packet from a daemon: new_ddhcp_packet fills in the header.
new_ddhcp_packet(command, sender, claims, renew) ==
  [node_id |-> sender.node_id,
   prefix |-> sender.layout.prefix,
   prefix_len |-> sender.layout.prefix_len,
   blocksize |-> sender.layout.block_size,
   command |-> command,
   count |-> Len(claims),
   payload |-> claims,
   renew_payload |-> renew]

NoRenewal == [address |-> 0, xid |-> 0, lease_seconds |-> 0, chaddr |-> 0]

\* The fields of a packet, each with its offset.
HeaderFields(p) ==
  {<<0, p.node_id>>, <<8, p.prefix>>, <<12, p.prefix_len>>,
   <<13, p.blocksize>>, <<14, p.command>>, <<15, p.count>>}

PayloadFields(p, order) ==
  CASE p.command = UPDATECLAIM ->
         UNION {LET at == HeaderLength + 7 * (i - 1)
                IN {<<at, p.payload[i].block_index>>,
                    <<at + 4, p.payload[i].timeout>>,
                    <<at + 6, p.payload[i].reserved>>} : i \in 1 .. p.count}
    [] p.command = INQUIRE ->
         {<<HeaderLength + 4 * (i - 1), p.payload[i].block_index>> : i \in 1 .. p.count}
    [] p.command \in Renewals ->
         {<<16, InOrder(order, p.renew_payload.address)>>,
          <<20, p.renew_payload.xid>>,
          <<24, p.renew_payload.lease_seconds>>,
          <<28, p.renew_payload.chaddr>>}
    [] OTHER -> {}

hton_packet(p, order) ==
  LET fields == HeaderFields(p) \cup PayloadFields(p, order)
  IN [offset \in {f[1] : f \in fields} |-> (CHOOSE f \in fields : f[1] = offset)[2]]

Refused == [command |-> 0]

\* Mutant: a packet may be longer than its length says, or shorter.
LengthMatches_AtMost(should_len, len) == should_len >= len

LengthMatches(should_len, len) == should_len = len

\* The packet in the first len bytes of a buffer.
ntoh_mcast_packet(buffer, len, order) ==
  LET command == Read(buffer, 14)
      count == Read(buffer, 15)
      claim(i) ==
        IF command = UPDATECLAIM
        THEN LET at == HeaderLength + 7 * (i - 1)
             IN [block_index |-> Read(buffer, at), timeout |-> Read(buffer, at + 4),
                 reserved |-> Read(buffer, at + 6)]
        ELSE [block_index |-> Read(buffer, HeaderLength + 4 * (i - 1)),
              timeout |-> 0, reserved |-> 0]
  IN IF Junk \in {command, count} \/ ~ LengthMatches(_packet_size(command, count), len)
     THEN Refused
     ELSE [node_id |-> Read(buffer, 0),
           prefix |-> Read(buffer, 8),
           prefix_len |-> Read(buffer, 12),
           blocksize |-> Read(buffer, 13),
           command |-> command,
           count |-> count,
           payload |-> IF command \in Renewals THEN << >> ELSE [i \in 1 .. count |-> claim(i)],
           renew_payload |->
             IF command \notin Renewals THEN NoRenewal
             ELSE [address |-> InOrder(order, Read(buffer, 16)), xid |-> Read(buffer, 20),
                   lease_seconds |-> Read(buffer, 24), chaddr |-> Read(buffer, 28)]]
=============================================================================
