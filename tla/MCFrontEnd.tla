----------------------------- MODULE MCFrontEnd -----------------------------
(* Requests and commands for FrontEnd. *)
EXTENDS FrontEnd

DNS == 6

Type(t) == Option(MESSAGE_TYPE, <<t>>)
Wants(codes) == Option(PARAMETER_REQUEST_LIST, codes)
Over == Option(END, NoPayload)

Whole(items) == [header |-> "complete", items |-> items, cut |-> FALSE]

Unpadded ==
  {Whole(<<Type(DHCPDISCOVER), Wants(<<SUBNET_MASK, DNS, ADDRESS_LEASE_TIME>>), Over>>),
   Whole(<<Type(DHCPREQUEST), Wants(<<DNS, SERVER_IDENTIFIER>>), Over, Padding>>),
   Whole(<<Type(DHCPINFORM)>>),
   Whole(<<Type(DHCPRELEASE), Over>>),
   Whole(<<Wants(<<DNS>>), Over>>),
   [header |-> "complete", items |-> <<Type(DHCPREQUEST)>>, cut |-> TRUE],
   [header |-> "short", items |-> << >>, cut |-> FALSE],
   [header |-> "nocookie", items |-> <<Type(DHCPINFORM), Over>>, cut |-> FALSE]}

\* Padding between the options, one option too many for the counter, as many
\* codes as fit into a reply, and one more.
WithPadding ==
  Unpadded \cup
  {Whole(<<Type(DHCPREQUEST), Padding, Padding, Wants(<<DNS>>), Over>>),
   Whole([i \in 1 .. Byte |-> IF i = 1 THEN Type(DHCPINFORM) ELSE Wants(<<DNS>>)]),
   Whole(<<Type(DHCPINFORM), Wants(<<END, DNS, SERVER_IDENTIFIER, PAD, DNS>>)>>),
   Whole(<<Type(DHCPREQUEST), Wants(<<DNS, DNS, DNS, DNS, DNS>>)>>)}

Set(code, payload) == [op |-> "set", code |-> code, payload |-> payload, fits |-> TRUE]
Remove(code) == [op |-> "remove", code |-> code, payload |-> NoPayload, fits |-> TRUE]

SomeCommands ==
  {Set(DNS, <<9>>), Set(END, <<1>>), Set(ADDRESS_LEASE_TIME, NoPayload), Remove(ADDRESS_LEASE_TIME),
   [op |-> "set", code |-> DNS, payload |-> <<7>>, fits |-> FALSE]}

Started == <<Option(DNS, <<8>>), Option(PAD, <<1>>)>>
=============================================================================
