---------------------------- MODULE DhcpOptions -----------------------------
(***************************************************************************)
(* DHCP options (dhcp_options.c): the store the operator fills, the array  *)
(* of options of a packet, and how a reply is put together from both.      *)
(*                                                                         *)
(* An option is a code and a payload, a sequence of the values in it: the  *)
(* codes of a request list, or the one value of other options.  A payload  *)
(* too short for its value is empty.                                       *)
(***************************************************************************)
EXTENDS Integers, Sequences, FiniteSets

CONSTANT Byte  \* the number of values of a uint8_t; 256, less in the runs

ASSUME ByteAssumption == Byte \in Nat \ {0}

PAD == 0
SUBNET_MASK == 1
TIME_OFFSET == 2
BROADCAST_ADDRESS == 28
ADDRESS_LEASE_TIME == 51
MESSAGE_TYPE == 53
SERVER_IDENTIFIER == 54
PARAMETER_REQUEST_LIST == 55
END == 255

DHCPDISCOVER == 1
DHCPOFFER == 2
DHCPREQUEST == 3
DHCPACK == 5
DHCPNAK == 6
DHCPRELEASE == 7
DHCPINFORM == 8

NoPayload == << >>

Option(code, payload) == [code |-> code, payload |-> payload]
Options == [code : Nat, payload : Seq(Nat)]

Padding == Option(PAD, NoPayload)

-----------------------------------------------------------------------------
(* Searching: positions in a sequence of options *)

Positions(options, codes) == {i \in DOMAIN options : options[i].code \in codes}

First(S) == CHOOSE i \in S : \A j \in S : i <= j

Last(S) == CHOOSE i \in S : \A j \in S : i >= j

has_option(options, code) == Positions(options, {code}) # {}

\* find_option in an array, find_in_option_store in the store: the first.
find_option(options, code) == options[First(Positions(options, {code}))]

\* The codes a client asks for.
find_option_parameter_request_list(options) ==
  IF has_option(options, PARAMETER_REQUEST_LIST)
  THEN find_option(options, PARAMETER_REQUEST_LIST).payload
  ELSE NoPayload

-----------------------------------------------------------------------------
(* The store *)

\* Mutant: the option is appended without looking for an old value.
set_option_in_store_Append(store, option) == Append(store, option)

\* Replace the payload in place, or append.
set_option_in_store(store, option) ==
  IF has_option(store, option.code)
  THEN [store EXCEPT ![First(Positions(store, {option.code}))] = option]
  ELSE Append(store, option)

remove_option_in_store(store, code) ==
  IF has_option(store, code)
  THEN LET i == First(Positions(store, {code}))
       IN SubSeq(store, 1, i - 1) \o SubSeq(store, i + 1, Len(store))
  ELSE store

\* What the daemon adds to the options of its command line, in this order.
\* Network stands for the values that follow from the prefix.
Network == <<10>>

\* An option that the operator has set keeps its value.
set_default(store, option) ==
  IF has_option(store, option.code) THEN store ELSE set_option_in_store(store, option)

dhcp_options_init(store) ==
  LET masked == set_default(store, Option(SUBNET_MASK, Network))
      offset == set_default(masked, Option(TIME_OFFSET, <<0>>))
      broadcast == set_default(offset, Option(BROADCAST_ADDRESS, Network))
      timed == set_default(broadcast, Option(ADDRESS_LEASE_TIME, <<300>>))
  IN set_default(timed, Option(SERVER_IDENTIFIER, Network))

-----------------------------------------------------------------------------
(* The options of a reply *)

\* Put an option into the last slot that holds its code or is empty; a code
\* that already has a slot further up is not looked for.
set_option(options, option) ==
  LET slots == Positions(options, {option.code, PAD})
  IN IF slots = {} THEN options ELSE [options EXCEPT ![Last(slots)] = option]

set_option_from_store(store, options, code) ==
  IF has_option(store, code) THEN set_option(options, find_option(store, code))
                             ELSE options

\* The options asked for that are in the store, in the order they are asked
\* for, and empty slots behind them.
fill_options(request, store, additional) ==
  LET requested == find_option_parameter_request_list(request)
      stored == {i \in DOMAIN requested : has_option(store, requested[i])}
      num_found_options(i) == Cardinality({j \in stored : j <= i})
      slotOwner(n) == CHOOSE i \in stored : num_found_options(i) = n
  IN [n \in 1 .. Cardinality(stored) + additional |->
        IF n <= Cardinality(stored) THEN find_option(store, requested[slotOwner(n)]) ELSE Padding]

\* Mutant: a slot too few is reserved.
ReservedSlots_TwoOnly == 2

\* Message type, lease time and server identifier.
ReservedSlots == 3

\* The packet has as many options as its length says, a uint8_t.
_dhcp_default_options(type, request, store, include_lease_time) ==
  LET filled == fill_options(request, store, ReservedSlots)
      options_len == Len(filled) % Byte
      typed == set_option(SubSeq(filled, 1, options_len), Option(MESSAGE_TYPE, <<type>>))
      timed == IF include_lease_time
               THEN set_option_from_store(store, typed, ADDRESS_LEASE_TIME)
               ELSE typed
  IN set_option_from_store(store, timed, SERVER_IDENTIFIER)
=============================================================================
