------------------------------ MODULE DhcpWire ------------------------------
(***************************************************************************)
(* DHCP packets between the wire and the handlers (dhcp_packet.c): the     *)
(* parser, which goes over the options twice, the serialiser, and the copy *)
(* a request is kept in while another node is asked.                       *)
(*                                                                         *)
(* A datagram is a fixed header and a list of options as they follow each  *)
(* other, padding and end included; cut tells that the datagram ends       *)
(* within one more option.  A parsed option points into the receive        *)
(* buffer: at is the position of its payload there, 0 if it has memory of  *)
(* its own.                                                                *)
(***************************************************************************)
EXTENDS DhcpOptions

Headers == {"complete", "short", "nocookie"}

\* Whoever reads a packet stops at the first end option.
UpToEnd(items) ==
  IF has_option(items, END) THEN SubSeq(items, 1, First(Positions(items, {END}))) ELSE items

Visible(d) == UpToEnd(d.items)

\* The padding the parser meets before it stops.
PaddingIn(d) == Positions(Visible(d), {PAD})

\* First pass: padding is stepped over, everything else counts.
options_count(d) == Len(Visible(d)) - Cardinality(PaddingIn(d))

ParseError(d) ==
  \/ d.header # "complete"
  \/ d.cut /\ ~ has_option(d.items, END)
  \/ ~ has_option(Visible(d), MESSAGE_TYPE)

\* Second pass: one entry for each option, padding included.
Entries(d) ==
  [i \in DOMAIN Visible(d) |->
     [code |-> Visible(d)[i].code, payload |-> NoPayload, at |-> i]]

Parsed(d, options) == [status |-> "parsed", options |-> options]
Refused == [status |-> "refused", options |-> << >>]
Aborted == [status |-> "aborted", options |-> << >>]

\* The array after the second pass: its index is a uint8_t and starts again at
\* the first slot, and so does the number of options the packet gets.
Stored(d) ==
  [j \in 1 .. options_count(d) % Byte |->
     Entries(d)[Last({i \in DOMAIN Visible(d) : i % Byte = j % Byte})]]

\* The second pass stores what the first has counted.
Intact(d) == PaddingIn(d) = {} /\ options_count(d) < Byte

\* Padding makes the second pass write past the array the first pass asked
\* for, and too many options make its index start again.  The assertion that
\* follows ends a debug build; a release build, if it survives the write, goes
\* on with what is in the array.
ntoh_dhcp_packet(d) ==
  IF ParseError(d) THEN {Refused}
  ELSE IF Intact(d) THEN {Parsed(d, Stored(d))}
  ELSE {Aborted, Parsed(d, Stored(d))}

\* The options with the payloads they have while the buffer holds d.
Dereference(options, d) ==
  [i \in DOMAIN options |->
     Option(options[i].code,
            IF options[i].at \in DOMAIN d.items THEN d.items[options[i].at].payload
                                                ELSE options[i].payload)]

\* Mutant: the copy shares the payloads with the original.
dhcp_packet_copy_Shallow(options, d) == options

\* The copy has payloads of its own.
dhcp_packet_copy(options, d) ==
  [i \in DOMAIN options |->
     [code |-> options[i].code, payload |-> Dereference(options, d)[i].payload,
      at |-> 0]]

\* The message type is that of the first option of this code, or 0.
dhcp_packet_message_type(options) ==
  IF has_option(options, MESSAGE_TYPE)
  THEN find_option(options, MESSAGE_TYPE).payload[1] ELSE 0

\* Padding, which empty slots become, and the end option are a single byte.
Written(option) ==
  IF option.code \in {PAD, END} THEN Option(option.code, NoPayload) ELSE option

\* An end option closes the packet.
dhcp_packet_send(options) ==
  Append([i \in DOMAIN options |-> Written(options[i])], Option(END, NoPayload))
=============================================================================
