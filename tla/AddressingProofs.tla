-------------------------- MODULE AddressingProofs --------------------------
(***************************************************************************)
(* The addresses of a network are the leases of its blocks, one to one:    *)
(* what justifies that Block, Dhcp and Swarm speak of leases where the     *)
(* code has addresses.                                                     *)
(***************************************************************************)
EXTENDS Addressing, TLAPS

\* Division of a number that is given by its quotient and its remainder.
LEMMA Division ==
  ASSUME NEW q \in Int, NEW d \in Nat \ {0}, NEW r \in 0 .. d - 1
  PROVE  /\ (q * d + r) \div d = q
         /\ (q * d + r) % d = r
  BY Z3

LEMMA WordPositive == Word \in Nat \ {0}
  <1>1. Byte \in Nat \ {0}
    BY AddressAssumption
  <1>2. Byte * Byte \in Nat \ {0}
    BY <1>1, Z3
  <1>3. Byte * Byte * Byte \in Nat \ {0}
    BY <1>1, <1>2, Z3
  <1> QED BY <1>1, <1>3, Z3 DEF Word

\* Counting on from a, or back to it, in a circle of W numbers.
LEMMA Circle ==
  ASSUME NEW W \in Nat \ {0}, NEW a \in 0 .. W - 1, NEW n \in 0 .. W - 1
  PROVE  /\ (a + n) % W \in 0 .. W - 1
         /\ (a + n) % W = IF a + n < W THEN a + n ELSE a + n - W
         /\ (a - n) % W = IF n <= a THEN a - n ELSE a - n + W
  <1>1. CASE a + n < W
    <2>1. a + n \in 0 .. W - 1 /\ a + n = 0 * W + (a + n)
      BY <1>1, Z3
    <2>2. (a + n) % W = a + n
      BY <2>1, Division, 0 \in Int, Z3
    <2> QED BY <1>1, <2>1, <2>2
  <1>2. CASE ~ (a + n < W)
    <2>1. a + n - W \in 0 .. W - 1 /\ a + n = 1 * W + (a + n - W)
      BY <1>2, Z3
    <2>2. (a + n) % W = a + n - W
      BY <2>1, Division, 1 \in Int, Z3
    <2> QED BY <1>2, <2>1, <2>2
  <1>3. CASE n <= a
    <2>1. a - n \in 0 .. W - 1 /\ a - n = 0 * W + (a - n)
      BY <1>3, Z3
    <2>2. (a - n) % W = a - n
      BY <2>1, Division, 0 \in Int, Z3
    <2> QED BY <1>3, <2>2, <1>1, <1>2
  <1>4. CASE ~ (n <= a)
    <2>1. a - n + W \in 0 .. W - 1 /\ a - n = (0 - 1) * W + (a - n + W)
      BY <1>4, Z3
    <2>2. (a - n) % W = a - n + W
      BY <2>1, Division, 0 - 1 \in Int, Z3
    <2> QED BY <1>4, <2>2, <1>1, <1>2
  <1> QED BY <1>1, <1>2, <1>3, <1>4

\* Leases are numbered through the blocks of a network, from 0 up to, and not
\* including, number_of_blocks * block_size.
LEMMA Numbering ==
  ASSUME NEW n \in Nat, NEW size \in Nat \ {0}, NEW b \in 0 .. n - 1, NEW i \in 0 .. size - 1
  PROVE  b * size \in Nat /\ b * size + i \in Nat /\ b * size + i < n * size
  <1>1. b * size \in Nat /\ n * size \in Nat
    OBVIOUS
  <1>2. n - 1 - b \in Nat /\ (n - 1 - b) * size \in Nat
    <2>1. n - 1 - b \in Nat
      OBVIOUS
    <2> QED BY <2>1, Z3
  <1>3. n * size = b * size + size + (n - 1 - b) * size
    BY Z3
  <1> QED BY <1>1, <1>2, <1>3

\* The offset of a lease in its network, and its address.
LEMMA AddressByOffset ==
  ASSUME NEW l, Usable(l), NEW b \in 0 .. l.number_of_blocks - 1, NEW i \in 0 .. l.block_size - 1
  PROVE  /\ b * l.block_size + i \in Address
         /\ AddressOf(l, b, i) \in Address
         /\ AddressOf(l, b, i) = addr_add(l.prefix, b * l.block_size + i)
  <1> DEFINE W == Word
             p == l.prefix
             s == b * l.block_size
  <1>1. /\ W \in Nat \ {0} /\ p \in 0 .. W - 1
        /\ l.block_size \in Nat \ {0} /\ l.number_of_blocks \in Nat
        /\ l.number_of_blocks * l.block_size <= W
    BY WordPositive, AddressAssumption DEF Usable, Layout, Address
  <1>2. s \in Nat /\ s + i \in Nat /\ s + i < l.number_of_blocks * l.block_size
    BY <1>1, Numbering
  <1>3. l.number_of_blocks * l.block_size \in Nat
    BY <1>1
  <1>4. i \in Nat /\ s \in 0 .. W - 1 /\ s + i \in 0 .. W - 1 /\ i \in 0 .. W - 1
    <2> HIDE DEF W, s
    <2> QED BY <1>1, <1>2, <1>3
  <1> HIDE DEF W, p, s
  <1>5. /\ (p + s) % W \in 0 .. W - 1
        /\ (p + s) % W = IF p + s < W THEN p + s ELSE p + s - W
    BY <1>1, <1>4, Circle
  <1>6. /\ (p + (s + i)) % W \in 0 .. W - 1
        /\ (p + (s + i)) % W = IF p + (s + i) < W THEN p + (s + i) ELSE p + (s + i) - W
    BY <1>1, <1>4, Circle
  <1>7. LET t == (p + s) % W
        IN (t + i) % W = IF t + i < W THEN t + i ELSE t + i - W
    BY <1>1, <1>4, <1>5, Circle
  <1>8. (((p + s) % W) + i) % W = (p + (s + i)) % W
    BY <1>1, <1>2, <1>4, <1>5, <1>6, <1>7
  <1>9. AddressOf(l, b, i) = (((p + s) % W) + i) % W
    BY DEF AddressOf, Subnet, addr_add, W, p, s
  <1>10. addr_add(p, s + i) = (p + (s + i)) % W
    BY DEF addr_add, W
  <1>11. Address = 0 .. W - 1
    BY DEF Address, W
  <1>12. s + i \in Address /\ AddressOf(l, b, i) \in Address
         /\ AddressOf(l, b, i) = addr_add(p, s + i)
    BY <1>4, <1>6, <1>8, <1>9, <1>10, <1>11
  <1> QED BY <1>12 DEF p, s

\* The address a daemon gives out for lease i of block b leads
\* find_lease_from_address back to that block and that lease, whatever the
\* prefix is, also where the network goes round at the end of the address
\* space.  Hence no two leases share an address.
THEOREM AddressRoundTrip ==
  ASSUME NEW l, Usable(l), NEW b \in 0 .. l.number_of_blocks - 1, NEW i \in 0 .. l.block_size - 1
  PROVE  find_lease_from_address(l, AddressOf(l, b, i)) = <<b, i>>
  <1> DEFINE W == Word
             p == l.prefix
             B == l.block_size
             a == AddressOf(l, b, i)
             o == b * B + i
  <1>1. W \in Nat \ {0} /\ p \in 0 .. W - 1 /\ B \in Nat \ {0} /\ l.number_of_blocks \in Nat
    BY WordPositive, AddressAssumption DEF Usable, Layout, Address
  <1>2. o \in 0 .. W - 1 /\ a \in 0 .. W - 1 /\ a = (p + o) % W
    BY AddressByOffset DEF Address, addr_add
  <1>3. b \in Int /\ i \in 0 .. B - 1
    OBVIOUS
  <1>4. o \div B = b /\ o % B = i
    BY <1>1, <1>3, Division
  <1> HIDE DEF W, p, B, a, o
  <1>5. a = IF p + o < W THEN p + o ELSE p + o - W
    BY <1>1, <1>2, Circle
  <1>6. (a - p) % W = IF p <= a THEN a - p ELSE a - p + W
    BY <1>1, <1>2, Circle
  <1>7. (a - p) % W = o
    BY <1>1, <1>2, <1>5, <1>6
  <1>8. b < l.number_of_blocks
    BY <1>1
  <1>9. find_lease_from_address(l, a) =
          IF ((a - p) % W) \div B < l.number_of_blocks
          THEN <<((a - p) % W) \div B, ((a - p) % W) % B>> ELSE NoLease
    BY DEF find_lease_from_address, W, p, B
  <1>10. find_lease_from_address(l, a) = <<b, i>>
    BY <1>4, <1>7, <1>8, <1>9
  <1> QED BY <1>10 DEF a

\* Every number is given by its quotient and its remainder.
LEMMA DivisionAll ==
  ASSUME NEW x \in Nat, NEW d \in Nat \ {0}
  PROVE  /\ x \div d \in Nat
         /\ x % d \in 0 .. d - 1
         /\ (x \div d) * d + (x % d) = x
  BY Z3

\* An address in which find_lease_from_address sees a lease is the address
\* of that lease: a request, a renewal or a release for it is never applied
\* to a lease with another address.
THEOREM LeaseFoundHasAddress ==
  ASSUME NEW l, Usable(l), NEW a \in Address, find_lease_from_address(l, a) # NoLease
  PROVE  \E b \in 0 .. l.number_of_blocks - 1, i \in 0 .. l.block_size - 1 :
           find_lease_from_address(l, a) = <<b, i>> /\ AddressOf(l, b, i) = a
  <1> DEFINE W == Word
             p == l.prefix
             B == l.block_size
             o == (a - p) % W
             b == o \div B
             i == o % B
  <1>1. /\ W \in Nat \ {0} /\ p \in 0 .. W - 1 /\ a \in 0 .. W - 1
        /\ B \in Nat \ {0} /\ l.number_of_blocks \in Nat
    BY WordPositive, AddressAssumption DEF Usable, Layout, Address
  <1>2. o = IF p <= a THEN a - p ELSE a - p + W
    <2> HIDE DEF W, p
    <2> QED BY <1>1, Circle
  <1>3. o \in 0 .. W - 1
    <2> HIDE DEF W, p, o
    <2> QED BY <1>1, <1>2
  <1>4. b \in Nat /\ i \in 0 .. B - 1 /\ b * B + i = o
    <2>1. o \in Nat
      <3> HIDE DEF o, W
      <3> QED BY <1>1, <1>3
    <2> HIDE DEF o, B
    <2> QED BY <1>1, <2>1, DivisionAll
  <1>5. b < l.number_of_blocks /\ find_lease_from_address(l, a) = <<b, i>>
    BY DEF find_lease_from_address
  <1>6. b \in 0 .. l.number_of_blocks - 1
    <2> HIDE DEF b
    <2> QED BY <1>1, <1>4, <1>5
  <1>7. AddressOf(l, b, i) = addr_add(p, b * B + i)
    <2> HIDE DEF b, i, o
    <2> QED BY <1>4, <1>6, AddressByOffset
  <1>8. AddressOf(l, b, i) = (p + o) % W
    <2> HIDE DEF b, i, o
    <2> QED BY <1>4, <1>7 DEF addr_add
  <1>9. (p + o) % W = IF p + o < W THEN p + o ELSE p + o - W
    <2> HIDE DEF W, p, o
    <2> QED BY <1>1, <1>3, Circle
  <1>10. (p + o) % W = a
    <2> HIDE DEF W, p, o
    <2> QED BY <1>1, <1>2, <1>3, <1>9
  <1> HIDE DEF b, i, o
  <1> QED BY <1>4, <1>5, <1>6, <1>8, <1>10
=============================================================================
