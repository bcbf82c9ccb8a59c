----------------------------- MODULE LinkProofs -----------------------------
(***************************************************************************)
(* Packets between daemons arrive as they were sent or not at all, and are *)
(* applied to the addresses their senders meant: for every layout of every *)
(* daemon on the link, every length a datagram may have, and whatever      *)
(* earlier datagrams have left in the receive buffer.                      *)
(***************************************************************************)
EXTENDS Link, AddressingProofs

-----------------------------------------------------------------------------
(* Byte order *)

\* Four bytes, the first one most significant.
Number(w, x, y, z) == ((w * Byte + x) * Byte + y) * Byte + z

\* The bytes of a number are the ones it was made of.
LEMMA NumberReversed ==
  ASSUME NEW w \in 0 .. Byte - 1, NEW x \in 0 .. Byte - 1,
         NEW y \in 0 .. Byte - 1, NEW z \in 0 .. Byte - 1
  PROVE  Reversed(Number(w, x, y, z)) = Number(z, y, x, w)
<1> DEFINE d == w
           c == d * Byte + x
           b == c * Byte + y
           a == b * Byte + z
<1>1. Byte \in Nat \ {0} /\ d \in Int /\ w = 0 * Byte + w
  BY AddressAssumption
<1>2. c \in Int /\ c \div Byte = d /\ c % Byte = x
  BY <1>1, Division
<1>3. b \in Int /\ b \div Byte = c /\ b % Byte = y
  <2> HIDE DEF c
  <2> QED
    BY <1>1, <1>2, Division
<1>4. a \div Byte = b /\ a % Byte = z
  <2> HIDE DEF b
  <2> QED
    BY <1>1, <1>3, Division
<1>5. d % Byte = w
  BY <1>1, Division, 0 \in Int
<1>6. Number(w, x, y, z) = a
  BY DEF Number
<1> HIDE DEF a, b, c, d
<1>7. Reversed(a) = ((z * Byte + y) * Byte + x) * Byte + w
  BY <1>2, <1>3, <1>4, <1>5 DEF Reversed
<1> QED
  BY <1>6, <1>7 DEF Number

LEMMA Scaled ==
  ASSUME NEW m \in Nat, NEW n \in Nat, NEW d \in Nat, m >= n
  PROVE  m * d >= n * d
<1>1. m - n \in Nat
  OBVIOUS
<1>2. (m - n) * d \in Nat
  BY <1>1, Z3
<1>3. m * d = n * d + (m - n) * d
  BY Z3
<1>4. m * d \in Nat /\ n * d \in Nat
  OBVIOUS
<1> QED
  BY <1>2, <1>3, <1>4

\* Every address has four bytes.
LEMMA AddressBytes ==
  ASSUME NEW a \in Address
  PROVE  \E w, x, y, z \in 0 .. Byte - 1 : a = Number(w, x, y, z)
<1> DEFINE b == a \div Byte
           c == b \div Byte
           d == c \div Byte
<1>1. Byte \in Nat \ {0} /\ a \in Nat
  BY AddressAssumption, WordPositive DEF Address
<1>2. b \in Nat /\ a % Byte \in 0 .. Byte - 1 /\ a = b * Byte + (a % Byte)
  BY <1>1, DivisionAll
<1>3. c \in Nat /\ b % Byte \in 0 .. Byte - 1 /\ b = c * Byte + (b % Byte)
  <2> HIDE DEF b
  <2> QED
    BY <1>1, <1>2, DivisionAll
<1>4. d \in Nat /\ c % Byte \in 0 .. Byte - 1 /\ c = d * Byte + (c % Byte)
  <2> HIDE DEF b, c
  <2> QED
    BY <1>1, <1>3, DivisionAll
<1>5. a = Number(d, c % Byte, b % Byte, a % Byte)
  <2> HIDE DEF b, c, d
  <2> QED
    BY <1>2, <1>3, <1>4 DEF Number
<1>6. d < Byte
  <2> SUFFICES ASSUME d >= Byte PROVE FALSE
    BY <1>1, <1>4
  <2> HIDE DEF b, c, d
  <2> DEFINE B2 == Byte * Byte
             B3 == B2 * Byte
             B4 == B3 * Byte
  <2>1. B2 \in Nat /\ d * Byte >= B2
    BY <1>1, <1>4, Scaled
  <2>2. d * Byte \in Nat
    BY <1>1, <1>4
  <2>3. c >= B2
    <3> HIDE DEF B2
    <3> QED
      BY <1>4, <2>1, <2>2
  <2>4. B3 \in Nat /\ c * Byte >= B3
    <3>1. B3 \in Nat
      <4> HIDE DEF B2
      <4> QED
        BY <1>1, <2>1
    <3> HIDE DEF B2
    <3> QED
      BY <1>1, <1>3, <2>1, <2>3, <3>1, Scaled
  <2>5. c * Byte \in Nat
    BY <1>1, <1>3
  <2>6. b >= B3
    <3> HIDE DEF B3
    <3> QED
      BY <1>3, <2>4, <2>5
  <2>7. B4 \in Nat /\ b * Byte >= B4
    <3>1. B4 \in Nat
      <4> HIDE DEF B3
      <4> QED
        BY <1>1, <2>4
    <3> HIDE DEF B3
    <3> QED
      BY <1>1, <1>2, <2>4, <2>6, <3>1, Scaled
  <2>8. b * Byte \in Nat
    BY <1>1, <1>2
  <2>9. a >= B4
    <3> HIDE DEF B4
    <3> QED
      BY <1>2, <2>7, <2>8
  <2>10. a < B4
    <3>1. B4 = Word
      BY DEF Word
    <3> HIDE DEF B4
    <3> QED
      BY <2>7, <3>1 DEF Address
  <2> HIDE DEF B4
  <2> QED
    BY <1>1, <2>7, <2>9, <2>10
<1>7. d \in 0 .. Byte - 1
  <2> HIDE DEF d
  <2> QED
    BY <1>1, <1>4, <1>6
<1> HIDE DEF b, c, d
<1> QED
  BY <1>2, <1>3, <1>4, <1>5, <1>7

\* Two daemons of one byte order turn an address twice, which is not at all.
LEMMA ReversedTwice ==
  ASSUME NEW a \in Address PROVE Reversed(Reversed(a)) = a
<1>1. PICK w, x, y, z \in 0 .. Byte - 1 : a = Number(w, x, y, z)
  BY AddressBytes
<1>2. Reversed(a) = Number(z, y, x, w)
  BY <1>1, NumberReversed
<1>3. Reversed(Number(z, y, x, w)) = Number(w, x, y, z)
  BY NumberReversed
<1> QED
  BY <1>1, <1>2, <1>3

-----------------------------------------------------------------------------
(* Packets in bytes *)

\* What daemons send: claims and inquiries for blocks, or a renewal.
Shaped(p) ==
  /\ p = [node_id |-> p.node_id, prefix |-> p.prefix, prefix_len |-> p.prefix_len,
          blocksize |-> p.blocksize, command |-> p.command, count |-> p.count,
          payload |-> p.payload, renew_payload |-> p.renew_payload]
  /\ p.count \in Nat
  /\ p.payload = [i \in 1 .. p.count |-> p.payload[i]]
  /\ \/ /\ p.command \in {UPDATECLAIM, INQUIRE}
        /\ p.renew_payload = NoRenewal
        /\ \A i \in 1 .. p.count :
             /\ p.payload[i] = [block_index |-> p.payload[i].block_index,
                                timeout |-> p.payload[i].timeout,
                                reserved |-> p.payload[i].reserved]
             /\ p.command = INQUIRE => p.payload[i].timeout = 0 /\ p.payload[i].reserved = 0
     \/ /\ p.command \in Renewals
        /\ p.count = 0 /\ p.payload = << >>
        /\ p.renew_payload.address \in Address
        /\ p.renew_payload = [address |-> p.renew_payload.address,
                              xid |-> p.renew_payload.xid,
                              lease_seconds |-> p.renew_payload.lease_seconds,
                              chaddr |-> p.renew_payload.chaddr]

FieldsOf(p, order) == HeaderFields(p) \cup PayloadFields(p, order)

\* No two fields of a payload share an offset, and none is where the header is
\* or behind the end of the datagram.
LEMMA PayloadOffsets ==
  ASSUME NEW p, Shaped(p), NEW order
  PROVE  /\ \A f \in PayloadFields(p, order) :
              f[1] \in Nat /\ f[1] >= 16 /\ f[1] < LengthOf(p)
         /\ \A f, g \in PayloadFields(p, order) : f[1] = g[1] => f[2] = g[2]
<1>0. p.count \in Nat
  BY DEF Shaped
<1>1. CASE p.command = UPDATECLAIM
  <2> DEFINE at(i) == HeaderLength + 7 * (i - 1)
  <2>1. PayloadFields(p, order) =
          UNION {{<<at(i), p.payload[i].block_index>>,
                  <<at(i) + 4, p.payload[i].timeout>>,
                  <<at(i) + 6, p.payload[i].reserved>>} : i \in 1 .. p.count}
    BY <1>1 DEF PayloadFields, UPDATECLAIM, INQUIRE, Renewals, RENEWLEASE, LEASEACK, LEASENAK, RELEASE
  <2>2. LengthOf(p) = 16 + p.count * 7
    BY <1>0, <1>1 DEF LengthOf, _packet_size, UPDATECLAIM, INQUIRE, Renewals, RENEWLEASE,
                      LEASEACK, LEASENAK, RELEASE, HeaderLength
  <2>3. ASSUME NEW f \in PayloadFields(p, order)
        PROVE  \E i \in 1 .. p.count : \/ f = <<16 + 7 * (i - 1), p.payload[i].block_index>>
                                       \/ f = <<16 + 7 * (i - 1) + 4, p.payload[i].timeout>>
                                       \/ f = <<16 + 7 * (i - 1) + 6, p.payload[i].reserved>>
    BY <2>1, <2>3 DEF HeaderLength
  <2>4. ASSUME NEW f \in PayloadFields(p, order)
        PROVE  f[1] \in Nat /\ f[1] >= 16 /\ f[1] < LengthOf(p)
    BY <1>0, <2>2, <2>3, <2>4
  <2>5. ASSUME NEW f \in PayloadFields(p, order), NEW g \in PayloadFields(p, order), f[1] = g[1]
        PROVE  f[2] = g[2]
    <3>1. PICK i \in 1 .. p.count : \/ f = <<16 + 7 * (i - 1), p.payload[i].block_index>>
                                    \/ f = <<16 + 7 * (i - 1) + 4, p.payload[i].timeout>>
                                    \/ f = <<16 + 7 * (i - 1) + 6, p.payload[i].reserved>>
      BY <2>3, <2>5
    <3>2. PICK j \in 1 .. p.count : \/ g = <<16 + 7 * (j - 1), p.payload[j].block_index>>
                                    \/ g = <<16 + 7 * (j - 1) + 4, p.payload[j].timeout>>
                                    \/ g = <<16 + 7 * (j - 1) + 6, p.payload[j].reserved>>
      BY <2>3, <2>5
    <3>3. i \in Int /\ j \in Int
      BY <1>0
    <3>4. i = j
      BY <2>5, <3>1, <3>2, <3>3
    <3> QED
      BY <2>5, <3>1, <3>2, <3>3, <3>4
  <2> QED
    BY <2>4, <2>5
<1>2. CASE p.command = INQUIRE
  <2>1. PayloadFields(p, order) =
          {<<16 + 4 * (i - 1), p.payload[i].block_index>> : i \in 1 .. p.count}
    BY <1>2 DEF PayloadFields, UPDATECLAIM, INQUIRE, Renewals, RENEWLEASE, LEASEACK, LEASENAK,
                RELEASE, HeaderLength
  <2>2. LengthOf(p) = 16 + p.count * 4
    BY <1>0, <1>2 DEF LengthOf, _packet_size, UPDATECLAIM, INQUIRE, Renewals, RENEWLEASE,
                      LEASEACK, LEASENAK, RELEASE, HeaderLength
  <2> QED
    BY <1>0, <2>1, <2>2
<1>3. CASE p.command \in Renewals
  <2> DEFINE r == p.renew_payload
  <2>1. PayloadFields(p, order) = {<<16, InOrder(order, r.address)>>, <<20, r.xid>>,
                                   <<24, r.lease_seconds>>, <<28, r.chaddr>>}
    BY <1>3 DEF PayloadFields, UPDATECLAIM, INQUIRE, Renewals, RENEWLEASE, LEASEACK, LEASENAK, RELEASE
  <2>2. LengthOf(p) = 44
    BY <1>0, <1>3 DEF LengthOf, _packet_size, UPDATECLAIM, INQUIRE, Renewals, RENEWLEASE,
                      LEASEACK, LEASENAK, RELEASE, HeaderLength, RenewLength
  <2> QED
    BY <2>1, <2>2
<1> QED
  BY <1>1, <1>2, <1>3 DEF Shaped

LEMMA LengthAtLeastHeader ==
  ASSUME NEW p, Shaped(p) PROVE LengthOf(p) \in Nat /\ LengthOf(p) >= 16
<1>1. p.count \in Nat
  BY DEF Shaped
<1> QED
  BY <1>1 DEF Shaped, LengthOf, _packet_size, UPDATECLAIM, INQUIRE, Renewals, RENEWLEASE,
              LEASEACK, LEASENAK, RELEASE, HeaderLength, RenewLength

\* A field is found at its offset, within the datagram.
LEMMA FieldRead ==
  ASSUME NEW p, Shaped(p), NEW order, NEW f \in FieldsOf(p, order)
  PROVE  /\ f[1] \in DOMAIN hton_packet(p, order)
         /\ hton_packet(p, order)[f[1]] = f[2]
         /\ f[1] \in Nat /\ f[1] < LengthOf(p)
<1> DEFINE F == FieldsOf(p, order)
           g == CHOOSE h \in F : h[1] = f[1]
<1>1. ASSUME NEW x \in HeaderFields(p)
      PROVE  x[1] \in 0 .. 15
  BY <1>1 DEF HeaderFields
<1>2. ASSUME NEW x \in HeaderFields(p), NEW y \in HeaderFields(p), x[1] = y[1]
      PROVE  x[2] = y[2]
  BY <1>2 DEF HeaderFields
<1>3. ASSUME NEW x \in F, NEW y \in F, x[1] = y[1]
      PROVE  x[2] = y[2]
  BY <1>1, <1>2, <1>3, PayloadOffsets DEF FieldsOf
<1>4. g \in F /\ g[1] = f[1]
  OBVIOUS
<1>5. g[2] = f[2]
  BY <1>3, <1>4
<1>6. hton_packet(p, order) =
        [offset \in {h[1] : h \in F} |-> (CHOOSE h \in F : h[1] = offset)[2]]
  BY DEF hton_packet, FieldsOf
<1>7. f[1] \in DOMAIN hton_packet(p, order) /\ hton_packet(p, order)[f[1]] = g[2]
  BY <1>6
<1>8. f[1] \in Nat /\ f[1] < LengthOf(p)
  BY <1>1, PayloadOffsets, LengthAtLeastHeader DEF FieldsOf
<1> QED
  BY <1>5, <1>7, <1>8

-----------------------------------------------------------------------------
(* Reading a datagram *)

\* A field that is within the received bytes is read as it was sent.
LEMMA ReadReceived ==
  ASSUME NEW p, Shaped(p), NEW order, NEW f \in FieldsOf(p, order), NEW len \in Nat, f[1] < len
  PROVE  Read(recvfrom(hton_packet(p, order), len), f[1]) = f[2]
<1> DEFINE wire == hton_packet(p, order)
<1>1. f[1] \in DOMAIN wire /\ wire[f[1]] = f[2]
  BY FieldRead
<1> HIDE DEF wire
<1>2. f[1] \in DOMAIN recvfrom(wire, len) /\ recvfrom(wire, len)[f[1]] = f[2]
  BY <1>1 DEF recvfrom
<1>3. Read(recvfrom(wire, len), f[1]) = f[2]
  BY <1>2 DEF Read
<1> QED
  BY <1>3 DEF wire

\* Where the datagram has ended, the buffer is as it was.
LEMMA ReadStale ==
  ASSUME NEW wire, NEW len \in Nat, NEW offset \in Nat, offset >= len
  PROVE  Read(recvfrom(wire, len), offset) = Read(buffer, offset)
<1> DEFINE b == recvfrom(wire, len)
<1>1. (offset \in DOMAIN b <=> offset \in DOMAIN buffer)
      /\ (offset \in DOMAIN b => b[offset] = buffer[offset])
  BY DEF recvfrom
<1> HIDE DEF b
<1>2. Read(b, offset) = Read(buffer, offset)
  BY <1>1 DEF Read
<1> QED
  BY <1>2 DEF b

\* A buffer that has a count holds a number there.
Counts(b) == 15 \in DOMAIN b => b[15] \in Nat

LEMMA SizeAtLeastHeader ==
  ASSUME NEW command, NEW count \in Nat
  PROVE  \/ _packet_size(command, count) = -1
         \/ _packet_size(command, count) \in Nat /\ _packet_size(command, count) >= 16
  BY DEF _packet_size, UPDATECLAIM, INQUIRE, RENEWLEASE, LEASEACK, LEASENAK, HeaderLength, RenewLength

\* A datagram that is cut short is refused, whatever is behind it in the
\* buffer, and so is one whose command has no length.
LEMMA ShortRefused ==
  ASSUME NEW p, Shaped(p), NEW order, NEW host, Counts(buffer), NEW len \in Nat,
         len < LengthOf(p) \/ p.command = RELEASE
  PROVE  ntoh_mcast_packet(recvfrom(hton_packet(p, order), len), len, host) = Refused
<1> DEFINE b == recvfrom(hton_packet(p, order), len)
           command == Read(b, 14)
           count == Read(b, 15)
<1>0. p.count \in Nat /\ <<14, p.command>> \in FieldsOf(p, order) /\ <<15, p.count>> \in FieldsOf(p, order)
  BY DEF Shaped, FieldsOf, HeaderFields
<1>1. SUFFICES Junk \in {command, count} \/ _packet_size(command, count) # len
  BY DEF ntoh_mcast_packet, LengthMatches
<1>2. CASE len >= 16
  <2>1. command = p.command /\ count = p.count
    BY <1>0, <1>2, ReadReceived, <<14, p.command>>[1] < len, <<15, p.count>>[1] < len
  <2> HIDE DEF command, count
  <2>2. CASE p.command = RELEASE
    <3>1. _packet_size(command, count) = -1
      BY <2>1, <2>2 DEF _packet_size, UPDATECLAIM, INQUIRE, RENEWLEASE, LEASEACK, LEASENAK, RELEASE
    <3> QED
      BY <3>1
  <2>3. CASE len < LengthOf(p) /\ p.command # RELEASE
    <3>1. _packet_size(p.command, p.count) = LengthOf(p)
      BY <1>0, <2>3 DEF Shaped, LengthOf, _packet_size, Renewals, UPDATECLAIM, INQUIRE, RENEWLEASE, LEASEACK,
                     LEASENAK, RELEASE, HeaderLength, RenewLength
    <3>2. LengthOf(p) \in Nat
      BY LengthAtLeastHeader
    <3> QED
      BY <2>1, <2>3, <3>1, <3>2
  <2> QED
    BY <2>2, <2>3
<1>3. CASE len < 16
  <2>1. count = Read(buffer, 15)
    BY <1>3, ReadStale
  <2>2. count = Junk \/ count \in Nat
    BY <2>1 DEF Counts, Read
  <2> HIDE DEF command, count
  <2>3. CASE count \in Nat
    BY <1>3, <2>3, SizeAtLeastHeader
  <2> QED
    BY <2>2, <2>3
<1> QED
  BY <1>2, <1>3

\* What the receiver takes for the packet, if its datagram is whole.
Taken(p, order, host) ==
  IF p.command \in Renewals
  THEN [p EXCEPT !.renew_payload.address = InOrder(host, InOrder(order, @))]
  ELSE p

LEMMA WholeTaken ==
  ASSUME NEW p, Shaped(p), NEW order, NEW host, p.command # RELEASE
  PROVE  ntoh_mcast_packet(recvfrom(hton_packet(p, order), LengthOf(p)), LengthOf(p), host)
           = Taken(p, order, host)
<1> DEFINE len == LengthOf(p)
           b == recvfrom(hton_packet(p, order), len)
           claim(i) ==
             IF p.command = UPDATECLAIM
             THEN [block_index |-> Read(b, HeaderLength + 7 * (i - 1)),
                   timeout |-> Read(b, HeaderLength + 7 * (i - 1) + 4),
                   reserved |-> Read(b, HeaderLength + 7 * (i - 1) + 6)]
             ELSE [block_index |-> Read(b, HeaderLength + 4 * (i - 1)),
                   timeout |-> 0, reserved |-> 0]
           payload == IF p.command \in Renewals THEN << >> ELSE [i \in 1 .. p.count |-> claim(i)]
           renew == IF p.command \notin Renewals THEN NoRenewal
                    ELSE [address |-> InOrder(host, Read(b, 16)), xid |-> Read(b, 20),
                          lease_seconds |-> Read(b, 24), chaddr |-> Read(b, 28)]
<1>0. p.count \in Nat /\ len \in Nat
  BY LengthAtLeastHeader DEF Shaped
<1>1. ASSUME NEW f \in FieldsOf(p, order)
      PROVE  Read(b, f[1]) = f[2]
  BY <1>0, <1>1, FieldRead, ReadReceived
<1>2. /\ Read(b, 0) = p.node_id /\ Read(b, 8) = p.prefix /\ Read(b, 12) = p.prefix_len
      /\ Read(b, 13) = p.blocksize /\ Read(b, 14) = p.command /\ Read(b, 15) = p.count
  <2>1. \A x \in HeaderFields(p) : Read(b, x[1]) = x[2]
    BY <1>1 DEF FieldsOf
  <2> HIDE DEF b
  <2> QED
    BY <2>1 DEF HeaderFields
<1>3. _packet_size(p.command, p.count) = len
  BY <1>0 DEF Shaped, LengthOf, _packet_size, Renewals, UPDATECLAIM, INQUIRE, RENEWLEASE, LEASEACK,
              LEASENAK, RELEASE, HeaderLength, RenewLength
<1>4. p.command # Junk /\ p.count # Junk
  BY <1>0 DEF Shaped, Junk, Renewals, UPDATECLAIM, INQUIRE, RENEWLEASE, LEASEACK, LEASENAK, RELEASE
<1>5. \A x \in PayloadFields(p, order) : Read(b, x[1]) = x[2]
  BY <1>1 DEF FieldsOf
<1>6. ntoh_mcast_packet(b, len, host) =
        [node_id |-> p.node_id, prefix |-> p.prefix, prefix_len |-> p.prefix_len,
         blocksize |-> p.blocksize, command |-> p.command, count |-> p.count,
         payload |-> payload, renew_payload |-> renew]
  <2> HIDE DEF b, len
  <2> QED
    BY <1>2, <1>3, <1>4 DEF ntoh_mcast_packet, LengthMatches
<1> HIDE DEF b, len
<1>7. CASE p.command = UPDATECLAIM
  <2>0. p.command \notin Renewals
    BY <1>7 DEF Renewals, UPDATECLAIM, RENEWLEASE, LEASEACK, LEASENAK, RELEASE
  <2>1. PayloadFields(p, order) =
          UNION {{<<HeaderLength + 7 * (i - 1), p.payload[i].block_index>>,
                  <<HeaderLength + 7 * (i - 1) + 4, p.payload[i].timeout>>,
                  <<HeaderLength + 7 * (i - 1) + 6, p.payload[i].reserved>>} : i \in 1 .. p.count}
    BY <1>7 DEF PayloadFields, UPDATECLAIM, INQUIRE, Renewals, RENEWLEASE, LEASEACK, LEASENAK, RELEASE
  <2>2. ASSUME NEW i \in 1 .. p.count PROVE claim(i) = p.payload[i]
    <3>1. /\ <<HeaderLength + 7 * (i - 1), p.payload[i].block_index>> \in PayloadFields(p, order)
          /\ <<HeaderLength + 7 * (i - 1) + 4, p.payload[i].timeout>> \in PayloadFields(p, order)
          /\ <<HeaderLength + 7 * (i - 1) + 6, p.payload[i].reserved>> \in PayloadFields(p, order)
      BY <2>1
    <3>2. /\ Read(b, HeaderLength + 7 * (i - 1)) = p.payload[i].block_index
          /\ Read(b, HeaderLength + 7 * (i - 1) + 4) = p.payload[i].timeout
          /\ Read(b, HeaderLength + 7 * (i - 1) + 6) = p.payload[i].reserved
      BY <1>5, <3>1
    <3>3. p.payload[i] = [block_index |-> p.payload[i].block_index,
                          timeout |-> p.payload[i].timeout, reserved |-> p.payload[i].reserved]
      BY <2>0 DEF Shaped
    <3> QED
      BY <1>7, <3>2, <3>3
  <2> HIDE DEF claim
  <2>3. payload = p.payload
    BY <2>0, <2>2 DEF Shaped
  <2>4. renew = p.renew_payload
    BY <2>0 DEF Shaped
  <2> QED
    BY <1>6, <2>0, <2>3, <2>4 DEF Taken, Shaped, b, len
<1>8. CASE p.command = INQUIRE
  <2>0. p.command \notin Renewals /\ p.command # UPDATECLAIM
    BY <1>8 DEF Renewals, UPDATECLAIM, INQUIRE, RENEWLEASE, LEASEACK, LEASENAK, RELEASE
  <2>1. PayloadFields(p, order) =
          {<<HeaderLength + 4 * (i - 1), p.payload[i].block_index>> : i \in 1 .. p.count}
    BY <1>8, <2>0 DEF PayloadFields
  <2>2. ASSUME NEW i \in 1 .. p.count PROVE claim(i) = p.payload[i]
    <3> DEFINE at == HeaderLength + 4 * (i - 1)
               index == p.payload[i].block_index
    <3>0. <<at, index>> \in PayloadFields(p, order)
      BY <2>1
    <3> HIDE DEF at, index
    <3>1. Read(b, at) = index
      BY <1>5, <3>0
    <3> USE DEF at, index
    <3>2. p.payload[i] = [block_index |-> p.payload[i].block_index,
                          timeout |-> 0, reserved |-> 0]
      BY <1>8, <2>0 DEF Shaped
    <3> QED
      BY <2>0, <3>1, <3>2
  <2> HIDE DEF claim
  <2>3. payload = p.payload
    BY <2>0, <2>2 DEF Shaped
  <2>4. renew = p.renew_payload
    BY <2>0 DEF Shaped
  <2> QED
    BY <1>6, <2>0, <2>3, <2>4 DEF Taken, Shaped, b, len
<1>9. CASE p.command \in Renewals
  <2> DEFINE r == p.renew_payload
  <2>0. p.command \notin {UPDATECLAIM, INQUIRE}
    BY <1>9 DEF Renewals, UPDATECLAIM, INQUIRE, RENEWLEASE, LEASEACK, LEASENAK, RELEASE
  <2>1. PayloadFields(p, order) = {<<16, InOrder(order, r.address)>>, <<20, r.xid>>,
                                   <<24, r.lease_seconds>>, <<28, r.chaddr>>}
    BY <1>9, <2>0 DEF PayloadFields
  <2>2. /\ Read(b, 16) = InOrder(order, r.address) /\ Read(b, 20) = r.xid
        /\ Read(b, 24) = r.lease_seconds /\ Read(b, 28) = r.chaddr
    BY <1>5, <2>1
  <2>3. renew = [r EXCEPT !.address = InOrder(host, InOrder(order, r.address))]
    BY <1>9, <2>0, <2>2 DEF Shaped
  <2>4. payload = p.payload
    BY <1>9, <2>0 DEF Shaped
  <2>5. Taken(p, order, host) = [p EXCEPT !.renew_payload = renew]
    BY <1>9, <2>3 DEF Taken, Shaped
  <2> HIDE DEF renew, payload
  <2>6. [p EXCEPT !.renew_payload = renew] =
          [node_id |-> p.node_id, prefix |-> p.prefix, prefix_len |-> p.prefix_len,
           blocksize |-> p.blocksize, command |-> p.command, count |-> p.count,
           payload |-> p.payload, renew_payload |-> renew]
    BY DEF Shaped
  <2> QED
    BY <1>6, <2>4, <2>5, <2>6 DEF b, len
<1> QED
  BY <1>7, <1>8, <1>9 DEF Shaped

-----------------------------------------------------------------------------
(* What is sent, and what it is about *)

BlockAddresses(l, b) == {AddressOf(l, b, i) : i \in 0 .. l.block_size - 1}

ListedBlocks(b) == IF b = 0 THEN <<0>> ELSE <<0, b>>

Claims(b) == [i \in DOMAIN ListedBlocks(b) |-> Claim(ListedBlocks(b)[i])]
Inquiries(b) == [i \in DOMAIN ListedBlocks(b) |-> Inquiry(ListedBlocks(b)[i])]
Renewal(a) == [address |-> a, xid |-> 1, lease_seconds |-> 0, chaddr |-> 2]

\* A packet that names blocks is about the addresses of these blocks, a
\* renewal about its address, an answer about none.
Meant(s, m) ==
  LET p == m.packet
      l == s.layout
  IN \/ /\ p.command \in {UPDATECLAIM, INQUIRE}
        /\ \A i \in 1 .. p.count : p.payload[i].block_index \in 0 .. l.number_of_blocks - 1
        /\ m.about = UNION {BlockAddresses(l, p.payload[i].block_index) : i \in 1 .. p.count}
     \/ /\ p.command = RENEWLEASE
        /\ \E k \in LeasesOf(l) : /\ p.renew_payload.address = AddressOf(l, k[1], k[2])
                                  /\ m.about = {AddressOf(l, k[1], k[2])}
     \/ /\ p.command \in {LEASEACK, LEASENAK, RELEASE}
        /\ m.about = {}

FromSender(s, p) ==
  /\ p.node_id = s.node_id /\ p.prefix = s.layout.prefix
  /\ p.prefix_len = s.layout.prefix_len /\ p.blocksize = s.layout.block_size

\* A payload that lists these blocks, each with this timeout.
Listing(payload, blocks, timeout) ==
  /\ Len(payload) \in Nat
  /\ payload = [i \in 1 .. Len(payload) |-> payload[i]]
  /\ \A i \in 1 .. Len(payload) : payload[i].block_index \in blocks
  /\ \A b \in blocks : \E i \in 1 .. Len(payload) : payload[i].block_index = b
  /\ \A i \in 1 .. Len(payload) :
       payload[i] = [block_index |-> payload[i].block_index, timeout |-> timeout, reserved |-> 0]

LEMMA OneListed ==
  ASSUME NEW x, NEW timeout
  PROVE  Listing(<<[block_index |-> x, timeout |-> timeout, reserved |-> 0]>>, {x}, timeout)
<1> DEFINE c == [block_index |-> x, timeout |-> timeout, reserved |-> 0]
<1>1. c.block_index = x /\ c = [block_index |-> c.block_index, timeout |-> timeout, reserved |-> 0]
  OBVIOUS
<1> HIDE DEF c
<1>2. Len(<<c>>) = 1 /\ <<c>>[1] = c /\ <<c>> = [i \in 1 .. 1 |-> <<c>>[i]] /\ 1 .. 1 = {1}
  OBVIOUS
<1>3. /\ \A i \in 1 .. 1 : <<c>>[i].block_index \in {x}
      /\ \A b \in {x} : \E i \in 1 .. 1 : <<c>>[i].block_index = b
  BY <1>1, <1>2
<1>4. \A i \in 1 .. 1 : <<c>>[i] = [block_index |-> <<c>>[i].block_index, timeout |-> timeout,
                                   reserved |-> 0]
  BY <1>1, <1>2
<1>5. Listing(<<c>>, {x}, timeout)
  BY <1>2, <1>3, <1>4 DEF Listing
<1> QED
  BY <1>5 DEF c

LEMMA TwoListed ==
  ASSUME NEW x, NEW y, NEW timeout
  PROVE  Listing(<<[block_index |-> x, timeout |-> timeout, reserved |-> 0],
                   [block_index |-> y, timeout |-> timeout, reserved |-> 0]>>, {x, y}, timeout)
<1> DEFINE c == [block_index |-> x, timeout |-> timeout, reserved |-> 0]
           d == [block_index |-> y, timeout |-> timeout, reserved |-> 0]
<1>1. /\ c.block_index = x /\ c = [block_index |-> c.block_index, timeout |-> timeout, reserved |-> 0]
      /\ d.block_index = y /\ d = [block_index |-> d.block_index, timeout |-> timeout, reserved |-> 0]
  OBVIOUS
<1> HIDE DEF c, d
<1> DEFINE s == <<c, d>>
<1>2. Len(s) = 2 /\ s[1] = c /\ s[2] = d /\ s = [i \in 1 .. 2 |-> s[i]] /\ 1 .. 2 = {1, 2}
  OBVIOUS
<1> HIDE DEF s
<1>3. /\ \A i \in 1 .. 2 : s[i].block_index \in {x, y}
      /\ \A b \in {x, y} : \E i \in 1 .. 2 : s[i].block_index = b
  BY <1>1, <1>2
<1>4. \A i \in 1 .. 2 : s[i] = [block_index |-> s[i].block_index, timeout |-> timeout, reserved |-> 0]
  BY <1>1, <1>2
<1>5. Listing(s, {x, y}, timeout)
  BY <1>2, <1>3, <1>4 DEF Listing
<1> QED
  BY <1>5 DEF c, d, s

LEMMA ListingShaped ==
  ASSUME NEW s, NEW command \in {UPDATECLAIM, INQUIRE}, NEW payload, NEW blocks, NEW timeout,
         Listing(payload, blocks, timeout), command = INQUIRE => timeout = 0
  PROVE  Shaped(new_ddhcp_packet(command, s, payload, NoRenewal))
<1> DEFINE p == new_ddhcp_packet(command, s, payload, NoRenewal)
<1>1. p = [node_id |-> p.node_id, prefix |-> p.prefix, prefix_len |-> p.prefix_len,
           blocksize |-> p.blocksize, command |-> p.command, count |-> p.count,
           payload |-> p.payload, renew_payload |-> p.renew_payload]
  BY DEF new_ddhcp_packet
<1>2. /\ p.command = command /\ p.count = Len(payload) /\ p.payload = payload
      /\ p.renew_payload = NoRenewal
  BY DEF new_ddhcp_packet
<1> HIDE DEF p
<1>3. ASSUME NEW i \in 1 .. p.count
      PROVE  /\ p.payload[i] = [block_index |-> p.payload[i].block_index,
                                timeout |-> p.payload[i].timeout,
                                reserved |-> p.payload[i].reserved]
             /\ p.command = INQUIRE => p.payload[i].timeout = 0 /\ p.payload[i].reserved = 0
  BY <1>2, <1>3 DEF Listing
<1>4. p.count \in Nat /\ p.payload = [i \in 1 .. p.count |-> p.payload[i]]
  BY <1>2 DEF Listing
<1>5. Shaped(p)
  BY <1>1, <1>2, <1>3, <1>4 DEF Shaped
<1> QED
  BY <1>5 DEF p

LEMMA MessagesMeant ==
  ASSUME NEW s \in Senders \cup {Home}, NEW m \in Messages(s)
  PROVE  Shaped(m.packet) /\ Meant(s, m) /\ FromSender(s, m.packet)
<1> DEFINE l == s.layout
           p == m.packet
           blocks == 0 .. l.number_of_blocks - 1
           both(b) == BlockAddresses(l, 0) \cup BlockAddresses(l, b)
<1>0. /\ Usable(l) /\ l.number_of_blocks \in Nat \ {0} /\ l.block_size \in Nat \ {0}
      /\ 0 \in blocks /\ 0 \in 0 .. l.block_size - 1
  BY LinkAssumption, WordPositive, AddressAssumption DEF Usable, Layout
<1>1. \/ \E b \in blocks : m = [packet |-> new_ddhcp_packet(UPDATECLAIM, s, Claims(b), NoRenewal),
                                about |-> both(b)]
      \/ \E b \in blocks : m = [packet |-> new_ddhcp_packet(INQUIRE, s, Inquiries(b), NoRenewal),
                                about |-> both(b)]
      \/ \E k \in LeasesOf(l) :
           m = [packet |-> new_ddhcp_packet(RENEWLEASE, s, << >>, Renewal(AddressOf(l, k[1], k[2]))),
                about |-> {AddressOf(l, k[1], k[2])}]
      \/ \E command \in {LEASEACK, LEASENAK, RELEASE} :
           m = [packet |-> new_ddhcp_packet(command, s, << >>, Renewal(AddressOf(l, 0, 0))),
                about |-> {}]
  BY DEF Messages, Claims, Inquiries, ListedBlocks, Renewal, BlockAddresses
<1>2. ASSUME NEW b \in blocks
      PROVE  /\ Listing(Claims(b), {0, b}, Timeout)
             /\ Listing(Inquiries(b), {0, b}, 0)
  <2>1. CASE b = 0
    <3>1. Claims(b) = <<Claim(0)>> /\ Inquiries(b) = <<Inquiry(0)>>
      BY <2>1 DEF Claims, Inquiries, ListedBlocks
    <3> QED
      BY <2>1, <3>1, OneListed DEF Claim, Inquiry
  <2>2. CASE b # 0
    <3>1. Claims(b) = <<Claim(0), Claim(b)>> /\ Inquiries(b) = <<Inquiry(0), Inquiry(b)>>
      BY <2>2 DEF Claims, Inquiries, ListedBlocks
    <3> QED
      BY <2>2, <3>1, TwoListed DEF Claim, Inquiry
  <2> QED
    BY <2>1, <2>2
<1>3. ASSUME NEW b \in blocks, NEW c,
             \A i \in 1 .. c.count : c.payload[i].block_index \in {0, b},
             \E i \in 1 .. c.count : c.payload[i].block_index = 0,
             \E i \in 1 .. c.count : c.payload[i].block_index = b
      PROVE  /\ \A i \in 1 .. c.count : c.payload[i].block_index \in blocks
             /\ both(b) = UNION {BlockAddresses(l, c.payload[i].block_index) : i \in 1 .. c.count}
  BY <1>0, <1>3
<1>4. CASE \E b \in blocks : m = [packet |-> new_ddhcp_packet(UPDATECLAIM, s, Claims(b), NoRenewal),
                                  about |-> both(b)]
  <2>1. PICK b \in blocks : m = [packet |-> new_ddhcp_packet(UPDATECLAIM, s, Claims(b), NoRenewal),
                                 about |-> both(b)]
    BY <1>4
  <2>2. p = new_ddhcp_packet(UPDATECLAIM, s, Claims(b), NoRenewal) /\ m.about = both(b)
    BY <2>1
  <2> HIDE DEF p, both
  <2>3. FromSender(s, p) /\ p.command = UPDATECLAIM /\ p.payload = Claims(b)
        /\ p.count = Len(Claims(b)) /\ p.renew_payload = NoRenewal
    BY <2>2 DEF new_ddhcp_packet, FromSender
  <2>4. Shaped(p)
    <3>1. UPDATECLAIM # INQUIRE
      BY DEF UPDATECLAIM, INQUIRE
    <3>2. Listing(Claims(b), {0, b}, Timeout)
      BY <1>2
    <3> QED
      BY <2>2, <3>1, <3>2, ListingShaped, Zenon
  <2>5. /\ \A i \in 1 .. p.count : p.payload[i].block_index \in {0, b}
        /\ \E i \in 1 .. p.count : p.payload[i].block_index = 0
        /\ \E i \in 1 .. p.count : p.payload[i].block_index = b
    BY <1>2, <2>3 DEF Listing
  <2>6. /\ \A i \in 1 .. p.count : p.payload[i].block_index \in blocks
        /\ m.about = UNION {BlockAddresses(l, p.payload[i].block_index) : i \in 1 .. p.count}
    <3> HIDE DEF blocks, l
    <3> QED
      BY <1>3, <2>2, <2>5
  <2>7. Meant(s, m)
    BY <2>3, <2>6 DEF Meant, p
  <2> QED
    BY <2>3, <2>4, <2>7 DEF p
<1>5. CASE \E b \in blocks : m = [packet |-> new_ddhcp_packet(INQUIRE, s, Inquiries(b), NoRenewal),
                                  about |-> both(b)]
  <2>1. PICK b \in blocks : m = [packet |-> new_ddhcp_packet(INQUIRE, s, Inquiries(b), NoRenewal),
                                 about |-> both(b)]
    BY <1>5
  <2>2. p = new_ddhcp_packet(INQUIRE, s, Inquiries(b), NoRenewal) /\ m.about = both(b)
    BY <2>1
  <2> HIDE DEF p, both
  <2>3. FromSender(s, p) /\ p.command = INQUIRE /\ p.payload = Inquiries(b)
        /\ p.count = Len(Inquiries(b)) /\ p.renew_payload = NoRenewal
    BY <2>2 DEF new_ddhcp_packet, FromSender
  <2>4. Shaped(p)
    BY <1>2, <2>2, ListingShaped DEF UPDATECLAIM, INQUIRE
  <2>5. /\ \A i \in 1 .. p.count : p.payload[i].block_index \in {0, b}
        /\ \E i \in 1 .. p.count : p.payload[i].block_index = 0
        /\ \E i \in 1 .. p.count : p.payload[i].block_index = b
    BY <1>2, <2>3 DEF Listing
  <2>6. /\ \A i \in 1 .. p.count : p.payload[i].block_index \in blocks
        /\ m.about = UNION {BlockAddresses(l, p.payload[i].block_index) : i \in 1 .. p.count}
    <3> HIDE DEF blocks, l
    <3> QED
      BY <1>3, <2>2, <2>5
  <2>7. Meant(s, m)
    BY <2>3, <2>6 DEF Meant, p
  <2> QED
    BY <2>3, <2>4, <2>7 DEF p
<1>6. CASE \E k \in LeasesOf(l) :
             m = [packet |-> new_ddhcp_packet(RENEWLEASE, s, << >>, Renewal(AddressOf(l, k[1], k[2]))),
                  about |-> {AddressOf(l, k[1], k[2])}]
  <2>1. PICK k \in LeasesOf(l) :
          m = [packet |-> new_ddhcp_packet(RENEWLEASE, s, << >>, Renewal(AddressOf(l, k[1], k[2]))),
               about |-> {AddressOf(l, k[1], k[2])}]
    BY <1>6
  <2> DEFINE a == AddressOf(l, k[1], k[2])
  <2>2. a \in Address
    BY <1>0, AddressByOffset DEF LeasesOf
  <2>3. p = new_ddhcp_packet(RENEWLEASE, s, << >>, Renewal(a)) /\ m.about = {a}
    BY <2>1
  <2> HIDE DEF p, a
  <2>4. FromSender(s, p) /\ p.command = RENEWLEASE /\ p.renew_payload.address = a
    BY <2>3 DEF new_ddhcp_packet, FromSender, Renewal
  <2>5. Shaped(p)
    BY <2>2, <2>3 DEF Shaped, new_ddhcp_packet, Renewal, Renewals
  <2> QED
    BY <2>3, <2>4, <2>5 DEF Meant, p, a
<1>7. CASE \E command \in {LEASEACK, LEASENAK, RELEASE} :
             m = [packet |-> new_ddhcp_packet(command, s, << >>, Renewal(AddressOf(l, 0, 0))),
                  about |-> {}]
  <2>1. PICK command \in {LEASEACK, LEASENAK, RELEASE} :
             m = [packet |-> new_ddhcp_packet(command, s, << >>, Renewal(AddressOf(l, 0, 0))),
                  about |-> {}]
    BY <1>7
  <2> DEFINE a == AddressOf(l, 0, 0)
  <2>2. a \in Address
    BY <1>0, AddressByOffset
  <2>3. p = new_ddhcp_packet(command, s, << >>, Renewal(a)) /\ m.about = {}
    BY <2>1
  <2> HIDE DEF p, a
  <2>4. FromSender(s, p) /\ p.command = command
    BY <2>3 DEF new_ddhcp_packet, FromSender
  <2>5. Shaped(p)
    BY <2>2, <2>3 DEF Shaped, new_ddhcp_packet, Renewal, Renewals
  <2> QED
    BY <2>3, <2>4, <2>5 DEF Meant, p
<1> QED
  BY <1>1, <1>4, <1>5, <1>6, <1>7

-----------------------------------------------------------------------------
(* The receiver *)

\* A datagram that waits is of a sender and not longer than its packet.
Waiting ==
  socket # NoDatagram =>
    /\ socket.sender \in Senders
    /\ socket.sent \in Messages(socket.sender)
    /\ socket.len \in Nat
    /\ socket.len <= LengthOf(socket.sent.packet)
    /\ socket.whole <=> socket.len = LengthOf(socket.sent.packet)

\* The inductive invariant.  A short datagram is told by the length the
\* buffer's header asks for, so the number in the buffer matters, whoever
\* wrote it.
LinkInv == Counts(buffer) /\ Waiting /\ ReceivedAsSent /\ AppliedAsMeant

LEMMA HomeAssumption ==
  /\ Usable(Home.layout) /\ Home.order \in {"little", "big"}
  /\ \A s \in Senders : Usable(s.layout) /\ s.order \in {"little", "big"}
  BY LinkAssumption

\* Between hosts of one byte order the packet is the one that was sent.
LEMMA TakenSameOrder ==
  ASSUME NEW p, Shaped(p), NEW order
  PROVE  Taken(p, order, order) = p
<1>1. CASE p.command \in Renewals
  <2> DEFINE r == p.renew_payload
  <2>1. r.address \in Address
    BY <1>1 DEF Shaped, Renewals, UPDATECLAIM, INQUIRE, RENEWLEASE, LEASEACK, LEASENAK, RELEASE
  <2>2. InOrder(order, InOrder(order, r.address)) = r.address
    BY <2>1, ReversedTwice DEF InOrder
  <2>3. r = [address |-> r.address, xid |-> r.xid, lease_seconds |-> r.lease_seconds,
             chaddr |-> r.chaddr]
    BY <1>1 DEF Shaped, Renewals, UPDATECLAIM, INQUIRE, RENEWLEASE, LEASEACK, LEASENAK, RELEASE
  <2>4. [r EXCEPT !.address = r.address] = r
    BY <2>3
  <2>5. Taken(p, order, order) = [p EXCEPT !.renew_payload = [r EXCEPT !.address = r.address]]
    BY <1>1, <2>2 DEF Taken
  <2>6. [p EXCEPT !.renew_payload = r] = p
    BY DEF Shaped
  <2> QED
    BY <2>4, <2>5, <2>6
<1>2. CASE p.command \notin Renewals
  BY <1>2 DEF Taken
<1> QED
  BY <1>1, <1>2

\* Between hosts of different orders the address of a renewal is turned.
LEMMA TakenOtherOrder ==
  ASSUME NEW p, Shaped(p), NEW order \in {"little", "big"}, NEW host \in {"little", "big"},
         order # host
  PROVE  Taken(p, order, host) =
           IF p.command \in Renewals
           THEN [p EXCEPT !.renew_payload.address = Reversed(p.renew_payload.address)] ELSE p
<1>1. InOrder(host, InOrder(order, p.renew_payload.address)) = Reversed(p.renew_payload.address)
  BY DEF InOrder
<1> QED
  BY <1>1 DEF Taken

\* What becomes of the datagram that waits.
LEMMA DecodedOK ==
  ASSUME LinkInv, socket # NoDatagram
  PROVE  /\ ~ socket.whole \/ socket.sent.packet.command = RELEASE => Decoded = Refused
         /\ socket.whole /\ socket.sent.packet.command # RELEASE =>
              Decoded = Taken(socket.sent.packet, socket.sender.order, Home.order)
<1> DEFINE p == socket.sent.packet
<1>1. Shaped(p) /\ socket.len \in Nat
  BY MessagesMeant DEF LinkInv, Waiting
<1>2. LengthOf(p) \in Nat
  BY <1>1, LengthAtLeastHeader
<1>3. CASE ~ socket.whole \/ p.command = RELEASE
  <2>1. socket.len < LengthOf(p) \/ p.command = RELEASE
    BY <1>1, <1>2, <1>3 DEF LinkInv, Waiting
  <2>2. ntoh_mcast_packet(recvfrom(hton_packet(p, socket.sender.order), socket.len), socket.len,
                          Home.order) = Refused
    BY <1>1, <2>1, ShortRefused DEF LinkInv
  <2>3. Decoded = Refused
    BY <2>2 DEF Decoded, Received
  <2> QED
    BY <1>3, <2>3
<1>4. CASE socket.whole /\ p.command # RELEASE
  <2>1. socket.len = LengthOf(p)
    BY <1>4 DEF LinkInv, Waiting
  <2>2. ntoh_mcast_packet(recvfrom(hton_packet(p, socket.sender.order), LengthOf(p)), LengthOf(p),
                          Home.order)
          = Taken(p, socket.sender.order, Home.order)
    BY <1>1, <1>4, WholeTaken
  <2>3. Decoded = Taken(p, socket.sender.order, Home.order)
    BY <2>1, <2>2 DEF Decoded, Received
  <2> QED
    BY <1>4, <2>3
<1> QED
  BY <1>3, <1>4

LEMMA CountsKept ==
  ASSUME LinkInv, socket # NoDatagram PROVE Counts(Received)
<1> DEFINE p == socket.sent.packet
           wire == hton_packet(p, socket.sender.order)
<1>1. Shaped(p) /\ p.count \in Nat
  BY MessagesMeant DEF LinkInv, Waiting, Shaped
<1>2. <<15, p.count>> \in FieldsOf(p, socket.sender.order)
  BY DEF FieldsOf, HeaderFields
<1>3. wire[15] = p.count
  BY <1>1, <1>2, FieldRead
<1> HIDE DEF wire
<1>4. 15 \in DOMAIN recvfrom(wire, socket.len) =>
        recvfrom(wire, socket.len)[15] \in {wire[15]} \/
        (15 \in DOMAIN buffer /\ recvfrom(wire, socket.len)[15] = buffer[15])
  BY DEF recvfrom
<1> QED
  BY <1>1, <1>3, <1>4 DEF Counts, Received, wire, LinkInv

\* A daemon recognises the packets of its swarm.
LEMMA SwarmRecognised ==
  ASSUME NEW s \in Senders, NEW p, FromSender(s, p)
  PROVE  ddhcp_check_packet(p) <=> s.layout = Home.layout
<1>1. s.layout \in Layout /\ Home.layout \in Layout
  BY HomeAssumption DEF Usable
<1>2. ddhcp_check_packet(p) =>
        /\ s.layout.prefix = Home.layout.prefix /\ s.layout.prefix_len = Home.layout.prefix_len
        /\ s.layout.block_size = Home.layout.block_size
        /\ s.layout.number_of_blocks = Home.layout.number_of_blocks
  BY LinkAssumption DEF ddhcp_check_packet, FromSender
<1>3. ASSUME ddhcp_check_packet(p) PROVE s.layout = Home.layout
  BY <1>1, <1>2, <1>3 DEF Layout
<1>4. ASSUME s.layout = Home.layout PROVE ddhcp_check_packet(p)
  BY <1>4 DEF ddhcp_check_packet, FromSender
<1> QED
  BY <1>3, <1>4

\* A claim or an inquiry of this swarm is applied to the blocks it names.
LEMMA BlocksApplied ==
  ASSUME NEW s \in Senders, NEW m \in Messages(s), m.packet.command \in {UPDATECLAIM, INQUIRE}
  PROVE  ddhcp_block_process(m.packet) = IF s.layout = Home.layout THEN m.about ELSE {}
<1> DEFINE p == m.packet
           l == Home.layout
<1>1. Meant(s, m) /\ FromSender(s, p)
  BY MessagesMeant
<1>2. p # Refused
  <2>1. p.command # 0 /\ Refused.command = 0
    BY DEF Refused, UPDATECLAIM, INQUIRE
  <2> QED
    BY <2>1
<1>3. /\ \A i \in 1 .. p.count : p.payload[i].block_index \in 0 .. s.layout.number_of_blocks - 1
      /\ m.about = UNION {BlockAddresses(s.layout, p.payload[i].block_index) : i \in 1 .. p.count}
  BY <1>1 DEF Meant, UPDATECLAIM, INQUIRE, RENEWLEASE, LEASEACK, LEASENAK, RELEASE
<1>4. CASE s.layout = l
  <2>1. ddhcp_check_packet(p)
    BY <1>1, <1>4, SwarmRecognised
  <2>2. l.number_of_blocks \in Nat
    BY HomeAssumption DEF Usable, Layout
  <2> HIDE DEF p, l
  <2>3. {k \in 1 .. p.count : p.payload[k].block_index < l.number_of_blocks} = 1 .. p.count
    BY <1>3, <1>4, <2>2
  <2>4. ddhcp_block_process(p) =
          UNION {BlockAddresses(l, p.payload[i].block_index) :
                   i \in {k \in 1 .. p.count : p.payload[k].block_index < l.number_of_blocks}}
    BY <1>2, <2>1 DEF ddhcp_block_process, BlockAddresses, p, l
  <2> QED
    BY <1>3, <1>4, <2>3, <2>4 DEF p, l
<1>5. CASE s.layout # l
  <2>1. ~ ddhcp_check_packet(p)
    BY <1>1, <1>5, SwarmRecognised
  <2> QED
    BY <1>5, <2>1 DEF ddhcp_block_process
<1> QED
  BY <1>4, <1>5

\* A renewal of this swarm is applied to the lease it names, an answer to none.
LEMMA LeasesApplied ==
  ASSUME NEW s \in Senders, NEW m \in Messages(s), m.packet.command \in Renewals \ {RELEASE}
  PROVE  ddhcp_dhcp_process(m.packet) = IF s.layout = Home.layout THEN m.about ELSE {}
<1> DEFINE p == m.packet
           l == Home.layout
<1>1. Meant(s, m) /\ FromSender(s, p)
  BY MessagesMeant
<1>2. p # Refused
  <2>1. p.command # 0 /\ Refused.command = 0
    BY DEF Refused, Renewals, RENEWLEASE, LEASEACK, LEASENAK, RELEASE
  <2> QED
    BY <2>1
<1>3. CASE s.layout # l
  <2>1. ~ ddhcp_check_packet(p)
    BY <1>1, <1>3, SwarmRecognised
  <2> QED
    BY <1>3, <2>1 DEF ddhcp_dhcp_process
<1>4. CASE s.layout = l /\ p.command = RENEWLEASE
  <2>1. ddhcp_check_packet(p)
    BY <1>1, <1>4, SwarmRecognised
  <2>2. PICK k \in LeasesOf(l) : /\ p.renew_payload.address = AddressOf(l, k[1], k[2])
                                 /\ m.about = {AddressOf(l, k[1], k[2])}
    BY <1>1, <1>4 DEF Meant, UPDATECLAIM, INQUIRE, RENEWLEASE, LEASEACK, LEASENAK, RELEASE
  <2>3. find_lease_from_address(l, p.renew_payload.address) = <<k[1], k[2]>>
    BY <2>2, HomeAssumption, AddressRoundTrip DEF LeasesOf
  <2>4. <<k[1], k[2]>> # NoLease
    BY DEF NoLease
  <2> QED
    BY <1>2, <1>4, <2>1, <2>2, <2>3, <2>4 DEF ddhcp_dhcp_process
<1>5. CASE s.layout = l /\ p.command \in {LEASEACK, LEASENAK}
  <2>1. m.about = {}
    BY <1>1, <1>5 DEF Meant, UPDATECLAIM, INQUIRE, RENEWLEASE, LEASEACK, LEASENAK, RELEASE
  <2>2. p.command \notin {RENEWLEASE, RELEASE}
    BY <1>5 DEF RENEWLEASE, LEASEACK, LEASENAK, RELEASE
  <2> QED
    BY <1>5, <2>1, <2>2 DEF ddhcp_dhcp_process
<1> QED
  BY <1>3, <1>4, <1>5 DEF Renewals

\* A handler takes the datagram.  What it applies is what it makes of the
\* packet that arrived.
LEMMA HandleOK ==
  ASSUME LinkInv, socket # NoDatagram, NEW applied, Handle(applied),
         Decoded = Refused => applied = {},
         Decoded = socket.sent.packet /\ socket.sent.packet.command # RELEASE =>
           applied = IF socket.sender.layout = Home.layout THEN socket.sent.about ELSE {}
  PROVE  LinkInv'
<1> DEFINE p == socket.sent.packet
           s == socket.sender
<1>1. /\ s \in Senders /\ Shaped(p) /\ Meant(s, socket.sent)
      /\ s.order \in {"little", "big"} /\ Home.order \in {"little", "big"}
  BY MessagesMeant, HomeAssumption DEF LinkInv, Waiting
<1>2. /\ buffer' = Received /\ socket' = NoDatagram
      /\ last' = [sender |-> s, sent |-> socket.sent, whole |-> socket.whole,
                  packet |-> Decoded, applied |-> applied]
  BY DEF Handle
<1>3. Counts(buffer)' /\ Waiting'
  BY <1>2, CountsKept DEF Counts, Waiting
<1>4. /\ last'.sender = s /\ last'.sent = socket.sent /\ last'.whole = socket.whole
      /\ last'.packet = Decoded /\ last'.applied = applied
  BY <1>2
<1>5. CASE ~ socket.whole \/ p.command = RELEASE
  <2>1. Decoded = Refused /\ applied = {}
    BY <1>5, DecodedOK
  <2>2. ReceivedAsSent'
    BY <1>4, <2>1 DEF ReceivedAsSent
  <2>3. p.command = RELEASE => socket.sent.about = {}
    BY <1>1 DEF Meant, UPDATECLAIM, INQUIRE, RENEWLEASE, LEASEACK, LEASENAK, RELEASE
  <2>4. AppliedAsMeant'
    BY <1>4, <1>5, <2>1, <2>3 DEF AppliedAsMeant
  <2> QED
    BY <1>3, <2>2, <2>4 DEF LinkInv
<1>6. CASE socket.whole /\ p.command # RELEASE
  <2>1. Decoded = Taken(p, s.order, Home.order)
    BY <1>6, DecodedOK
  <2>2. CASE s.order = Home.order
    <3>1. Decoded = p
      BY <1>1, <2>1, <2>2, TakenSameOrder
    <3>2. applied = IF s.layout = Home.layout THEN socket.sent.about ELSE {}
      BY <1>6, <3>1
    <3>3. ReceivedAsSent'
      BY <1>4, <1>6, <3>1 DEF ReceivedAsSent
    <3>4. AppliedAsMeant'
      BY <1>4, <1>6, <3>2 DEF AppliedAsMeant
    <3> QED
      BY <1>3, <3>3, <3>4 DEF LinkInv
  <2>3. CASE s.order # Home.order
    <3>1. Decoded = IF p.command \in Renewals
                    THEN [p EXCEPT !.renew_payload.address = Reversed(p.renew_payload.address)]
                    ELSE p
      BY <1>1, <2>1, <2>3, TakenOtherOrder
    <3>2. ReceivedAsSent'
      BY <1>4, <1>6, <2>3, <3>1 DEF ReceivedAsSent
    <3>3. AppliedAsMeant'
      BY <1>4, <2>3 DEF AppliedAsMeant
    <3> QED
      BY <1>3, <3>2, <3>3 DEF LinkInv
  <2> QED
    BY <2>2, <2>3
<1> QED
  BY <1>5, <1>6

LEMMA InitLink == Init => LinkInv
<1> SUFFICES ASSUME Init PROVE LinkInv
  OBVIOUS
<1>1. socket = NoDatagram /\ last = Nothing
  BY DEF Init
<1>2. ReceivedAsSent /\ AppliedAsMeant /\ Waiting
  BY <1>1 DEF ReceivedAsSent, AppliedAsMeant, Waiting, Nothing
<1>3. Counts(buffer)
  <2>1. CASE buffer = [offset \in {} |-> Junk]
    BY <2>1 DEF Counts
  <2>2. ASSUME NEW m \in Messages(Home), buffer = hton_packet(m.packet, Home.order)
        PROVE  Counts(buffer)
    <3> DEFINE p == m.packet
    <3>1. Shaped(p) /\ p.count \in Nat
      BY MessagesMeant DEF Shaped
    <3>2. <<15, p.count>> \in FieldsOf(p, Home.order)
      BY DEF FieldsOf, HeaderFields
    <3>3. hton_packet(p, Home.order)[15] = p.count
      BY <3>1, <3>2, FieldRead
    <3> QED
      BY <2>2, <3>1, <3>3 DEF Counts
  <2> QED
    BY <2>1, <2>2 DEF Init
<1> QED
  BY <1>2, <1>3 DEF LinkInv

LEMMA NextLink == LinkInv /\ [Next]_vars => LinkInv'
<1> SUFFICES ASSUME LinkInv, [Next]_vars PROVE LinkInv'
  OBVIOUS
<1>1. CASE Arrive
  <2>0. PICK s \in Senders : \E m \in Messages(s) :
          \E len \in {LengthOf(m.packet)} \cup {n \in Lengths : n < LengthOf(m.packet)} :
            socket' = [sender |-> s, sent |-> m, len |-> len, whole |-> len = LengthOf(m.packet)]
    BY <1>1 DEF Arrive
  <2>1. PICK m \in Messages(s) :
          \E len \in {LengthOf(m.packet)} \cup {n \in Lengths : n < LengthOf(m.packet)} :
            socket' = [sender |-> s, sent |-> m, len |-> len, whole |-> len = LengthOf(m.packet)]
    BY <2>0
  <2>2. LengthOf(m.packet) \in Nat
    BY MessagesMeant, LengthAtLeastHeader
  <2>3. PICK len \in {LengthOf(m.packet)} \cup {n \in Lengths : n < LengthOf(m.packet)} :
          socket' = [sender |-> s, sent |-> m, len |-> len, whole |-> len = LengthOf(m.packet)]
    BY <2>1
  <2>4. Waiting'
    <3>1. len \in Nat /\ len <= LengthOf(m.packet)
      <4> DEFINE whole == LengthOf(m.packet)
      <4> HIDE DEF whole
      <4>1. Lengths \subseteq Nat
        BY LinkAssumption
      <4>2. len = whole \/ (len \in Lengths /\ len < whole)
        BY DEF whole
      <4>3. whole \in Nat
        BY <2>2 DEF whole
      <4>4. ASSUME NEW n \in Nat, NEW w \in Nat, n = w \/ n < w PROVE n <= w
        BY <4>4
      <4>5. len \in Nat
        BY <4>1, <4>2, <4>3, Zenon
      <4>6. len <= whole
        BY <4>2, <4>3, <4>4, <4>5, Zenon
      <4> QED
        BY <4>5, <4>6 DEF whole
    <3>2. /\ socket'.sender = s /\ socket'.sent = m /\ socket'.len = len
          /\ socket'.whole = (len = LengthOf(m.packet))
      BY <2>3
    <3>3. socket'.whole <=> len = LengthOf(m.packet)
      BY <3>2
    <3> QED
      BY <3>1, <3>2, <3>3 DEF Waiting
  <2>5. last' = Nothing /\ buffer' = buffer
    BY <1>1 DEF Arrive
  <2> QED
    BY <2>4, <2>5 DEF LinkInv, Counts, ReceivedAsSent, AppliedAsMeant, Nothing
<1>2. CASE hdl_ddhcp_block
  <2> DEFINE m == socket.sent
  <2>1. /\ socket # NoDatagram /\ m.packet.command \in {UPDATECLAIM, INQUIRE}
        /\ Handle(ddhcp_block_process(Decoded))
    BY <1>2 DEF hdl_ddhcp_block
  <2>2. Decoded = Refused => ddhcp_block_process(Decoded) = {}
    BY DEF ddhcp_block_process
  <2>3. ddhcp_block_process(m.packet) = IF socket.sender.layout = Home.layout THEN m.about ELSE {}
    BY <2>1, BlocksApplied DEF LinkInv, Waiting
  <2> QED
    BY <2>1, <2>2, <2>3, HandleOK
<1>3. CASE hdl_ddhcp_dhcp
  <2> DEFINE m == socket.sent
  <2>1. /\ socket # NoDatagram /\ m.packet.command \in Renewals
        /\ Handle(ddhcp_dhcp_process(Decoded))
    BY <1>3 DEF hdl_ddhcp_dhcp
  <2>2. Decoded = Refused => ddhcp_dhcp_process(Decoded) = {}
    BY DEF ddhcp_dhcp_process
  <2>3. m.packet.command # RELEASE =>
          ddhcp_dhcp_process(m.packet) = IF socket.sender.layout = Home.layout THEN m.about ELSE {}
    BY <2>1, LeasesApplied DEF LinkInv, Waiting
  <2> QED
    BY <2>1, <2>2, <2>3, HandleOK
<1>4. CASE OtherSockets
  <2>1. last' = Nothing /\ socket' = socket
    BY <1>4 DEF OtherSockets
  <2>2. Counts(buffer)'
    BY <1>4 DEF OtherSockets, LinkInv, Counts
  <2> QED
    BY <2>1, <2>2 DEF LinkInv, Waiting, ReceivedAsSent, AppliedAsMeant, Nothing
<1>5. CASE UNCHANGED vars
  BY <1>5 DEF vars, LinkInv, Counts, Waiting, ReceivedAsSent, AppliedAsMeant
<1> QED
  BY <1>1, <1>2, <1>3, <1>4, <1>5 DEF Next

LEMMA LinkInvariance == Spec => []LinkInv
  BY InitLink, NextLink, PTL DEF Spec

\* A packet is accepted only if its datagram arrived whole, and then it is
\* the packet that was sent, for datagrams of any length, daemons of any
\* sizes, and whatever was in the receive buffer before ntoh_mcast_packet
\* read its header.
THEOREM PacketsAsSent == Spec => []ReceivedAsSent
<1>1. LinkInv => ReceivedAsSent
  BY DEF LinkInv
<1> QED
  BY <1>1, LinkInvariance, PTL

\* A claim, an inquiry or a renewal of this swarm is applied to the addresses
\* its sender meant and to no other, and a packet of another swarm to none,
\* whatever the layouts of the daemons on the link are: ddhcp_check_packet
\* compares enough, and find_lease_from_address undoes addr_add.
THEOREM PacketsApplied == Spec => []AppliedAsMeant
<1>1. LinkInv => AppliedAsMeant
  BY DEF LinkInv
<1> QED
  BY <1>1, LinkInvariance, PTL
=============================================================================
