----------------------------- MODULE Addressing -----------------------------
(***************************************************************************)
(* How the addresses of a network are dealt out to blocks and leases: the  *)
(* sizes main derives from its command line, the subnets ddhcp_block_init  *)
(* gives to blocks, the address of a lease (addr_add) and the way back     *)
(* (find_lease_from_address).  The other modules take an address for a     *)
(* pair of block and index; this one says why they may.                    *)
(*                                                                         *)
(* An address is a number in host byte order, of four bytes.               *)
(***************************************************************************)
EXTENDS Integers

CONSTANTS
  Byte,   \* values of a byte: 256
  Width   \* bits of an address: 32

Word == Byte * Byte * Byte * Byte

ASSUME AddressAssumption ==
  /\ Byte \in Nat \ {0, 1}
  /\ Width \in Nat
  /\ Word = 2 ^ Width

Address == 0 .. Word - 1

\* What the daemons of a swarm have in common.  number_of_blocks is 0 where
\* the network is smaller than a block, and ddhcp_block_init gives up.
Layout == [prefix : Address,
           prefix_len : Nat,
           block_size : 1 .. Byte - 1,
           number_of_blocks : 1 .. Word]

\* -N prefix/prefix_len -b pow, where 2 ^ pow fits into the byte block_size.
Configure(prefix, prefix_len, pow) ==
  [prefix |-> prefix,
   prefix_len |-> prefix_len,
   block_size |-> (2 ^ pow) % Byte,
   number_of_blocks |-> IF prefix_len + pow <= Width
                        THEN 2 ^ (Width - prefix_len - pow) ELSE 0]

\* The layouts daemons run with.
Usable(l) ==
  /\ l \in Layout
  /\ l.number_of_blocks * l.block_size <= Word

addr_add(subnet, add) == (subnet + add) % Word

\* The subnet ddhcp_block_init gives to block b, and the address dhcp_ack
\* and dhcp_hdl_discover make of lease i in it.
Subnet(l, b) == addr_add(l.prefix, b * l.block_size)
AddressOf(l, b, i) == addr_add(Subnet(l, b), i)

LeasesOf(l) == (0 .. l.number_of_blocks - 1) \X (0 .. l.block_size - 1)

NoLease == << >>

\* Mutant: the number of the block is taken before the prefix is taken off.
find_lease_from_address_Unbased(l, a) ==
  IF a \div l.block_size < l.number_of_blocks
  THEN <<a \div l.block_size, a % l.block_size>> ELSE NoLease

\* Block and index of the lease an address is of.
find_lease_from_address(l, a) ==
  LET offset == (a - l.prefix) % Word
  IN IF offset \div l.block_size < l.number_of_blocks
     THEN <<offset \div l.block_size, offset % l.block_size>> ELSE NoLease

\* ntohl of a host that keeps the least significant byte first.
Reversed(a) ==
  LET b == a \div Byte
      c == b \div Byte
      d == c \div Byte
  IN (((a % Byte) * Byte + (b % Byte)) * Byte + (c % Byte)) * Byte + (d % Byte)
=============================================================================
