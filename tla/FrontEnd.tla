------------------------------ MODULE FrontEnd ------------------------------
(***************************************************************************)
(* The side of one daemon that its clients and its operator see: requests  *)
(* are parsed, answered from the option store, or kept while another node  *)
(* is asked (dhcp.c, dhcp_packet.c), and the store is changed through the  *)
(* control socket at any moment (control.c, ddhcpctl.c), whose connections *)
(* come out of an edge triggered epoll (main.c, epoll.c).                  *)
(*                                                                         *)
(* Which leases there are is left to Swarm: here a request may be granted, *)
(* refused or forwarded.                                                   *)
(***************************************************************************)
EXTENDS DhcpWire

CONSTANTS
  Datagrams,    \* what DHCP clients may send
  Operators,    \* runs of ddhcpctl
  Commands,     \* what they may send
  CommandLine,  \* the options given with -o
  Backlog,      \* connections the listening socket holds
  CacheBound    \* bound: requests kept at the same time

ASSUME FrontEndAssumption ==
  /\ Backlog \in Nat \ {0}
  /\ CacheBound \in Nat
  /\ \A d \in Datagrams : d.header \in Headers /\ d.items \in Seq(Options)

\* -o sets one option after the other with set_option_in_store.
ASSUME OptionsAssumption ==
  /\ CommandLine \in Seq(Options)
  /\ \A i, j \in DOMAIN CommandLine : CommandLine[i].code = CommandLine[j].code => i = j
  /\ \A c \in Commands : Option(c.code, c.payload) \in Options

VARIABLES
  store,    \* config->options
  cache,    \* requests that wait for another node, and what they ask for
  reply,    \* the reply of the last step, with what it answers
  status,   \* "up" or "aborted"
  ctl,      \* where each run of ddhcpctl is
  command,  \* what it has sent and nobody has read
  backlog,  \* connections that are not accepted
  conns,    \* connections that are accepted and not closed
  pending,  \* events since epoll_wait last returned
  ready,    \* events of this round that are not handled
  lag       \* some connection met an event that was still to be reported

dhcpVars == <<cache, reply, status>>
ctlVars == <<ctl, command, backlog, conns, pending, ready, lag>>
vars == <<store, dhcpVars, ctlVars>>

LISTEN == "listen"

NoReply == [type |-> 0]

-----------------------------------------------------------------------------
(* Replies *)

\* The codes the client asks for in datagram d.
Asked(d) == find_option_parameter_request_list(Visible(d))

\* A reply of this type to the request in these options, whose client asked
\* for these codes.  intact tells that the parser handed on what it had sent.
Reply(type, options, asked, intact, timed) ==
  [type |-> type, asked |-> asked, intact |-> intact, timed |-> timed,
   wire |-> dhcp_packet_send(_dhcp_default_options(type, options, store, timed))]

\* dhcp_nack: the message type is all there is.
Refusal ==
  [type |-> DHCPNAK, asked |-> << >>, intact |-> TRUE, timed |-> FALSE,
   wire |-> dhcp_packet_send(set_option(<<Padding>>, Option(MESSAGE_TYPE, <<DHCPNAK>>)))]

\* The address is in a block of another node: keep the packet.
Forward(options, d) ==
  /\ Len(cache) < CacheBound
  /\ cache' = Append(cache, [options |-> dhcp_packet_copy(options, d),
                             asked |-> Asked(d), intact |-> Intact(d)])
  /\ reply' = NoReply

\* The handlers of dhcp_process, as far as replies go.
Answer(options, d) ==
  LET request == Dereference(options, d)
      type == dhcp_packet_message_type(request)
  IN \/ /\ type = DHCPDISCOVER
        /\ reply' \in {NoReply, Reply(DHCPOFFER, request, Asked(d), Intact(d), TRUE)}
        /\ UNCHANGED cache
     \/ /\ type = DHCPREQUEST
        /\ \/ /\ reply' \in {NoReply, Refusal, Reply(DHCPACK, request, Asked(d), Intact(d), TRUE)}
              /\ UNCHANGED cache
           \/ Forward(options, d)
     \/ /\ type = DHCPINFORM
        /\ reply' = Reply(DHCPACK, request, Asked(d), Intact(d), FALSE)
        /\ UNCHANGED cache
     \/ /\ type \notin {DHCPDISCOVER, DHCPREQUEST, DHCPINFORM}
        /\ reply' = NoReply
        /\ UNCHANGED cache

\* dhcp_process
Receive(d) ==
  /\ status = "up"
  /\ \E p \in ntoh_dhcp_packet(d) :
       \/ /\ p.status = "parsed"
          /\ Answer(p.options, d)
          /\ UNCHANGED status
       \/ /\ p.status = "refused"
          /\ reply' = NoReply
          /\ UNCHANGED <<cache, status>>
       \/ /\ p.status = "aborted"
          /\ reply' = NoReply
          /\ status' = "aborted"
          /\ UNCHANGED cache
  /\ UNCHANGED <<store, ctlVars>>

\* The other node's packet, now in the receive buffer instead of the request.
OtherDatagram == [header |-> "complete", items |-> <<Padding, Padding>>, cut |-> FALSE]

Without(s, i) == SubSeq(s, 1, i - 1) \o SubSeq(s, i + 1, Len(s))

\* ddhcp_dhcp_leaseack, ddhcp_dhcp_leasenak: the request is taken out of the
\* cache and answered.
OtherNodeAnswers(i) ==
  LET request == Dereference(cache[i].options, OtherDatagram)
  IN /\ status = "up"
     /\ reply' \in {Refusal, Reply(DHCPACK, request, cache[i].asked, cache[i].intact, TRUE)}
     /\ cache' = Without(cache, i)
     /\ UNCHANGED <<store, status, ctlVars>>

\* dhcp_packet_list_timeout
Forget(i) ==
  /\ status = "up"
  /\ cache' = Without(cache, i)
  /\ reply' = NoReply
  /\ UNCHANGED <<store, status, ctlVars>>

-----------------------------------------------------------------------------
(* ddhcpctl *)

\* The listening socket reports a new connection only if it has no event
\* that is still to be reported.
Connect(k) ==
  /\ status = "up"
  /\ ctl[k] = "idle"
  /\ Len(backlog) < Backlog
  /\ ctl' = [ctl EXCEPT ![k] = "connected"]
  /\ backlog' = Append(backlog, k)
  /\ lag' = (lag \/ LISTEN \in pending)
  /\ pending' = pending \cup {LISTEN}
  /\ reply' = NoReply
  /\ UNCHANGED <<store, cache, status, command, conns, ready>>

\* What happens to an accepted connection is an event of its own.
Signal(k) == IF k \in conns THEN pending \cup {k} ELSE pending

Send(k) ==
  /\ status = "up"
  /\ ctl[k] = "connected"
  /\ \E c \in Commands : command' = [command EXCEPT ![k] = {c}]
  /\ ctl' = [ctl EXCEPT ![k] = "sent"]
  /\ pending' = Signal(k)
  /\ reply' = NoReply
  /\ UNCHANGED <<store, cache, status, backlog, conns, ready, lag>>

\* The operator gives up waiting: the connection is closed from this side.
Interrupt(k) ==
  /\ status = "up"
  /\ ctl[k] \in {"connected", "sent"}
  /\ ctl' = [ctl EXCEPT ![k] = "gone"]
  /\ pending' = Signal(k)
  /\ reply' = NoReply
  /\ UNCHANGED <<store, cache, status, command, backlog, conns, ready, lag>>

-----------------------------------------------------------------------------
(* The control socket *)

epoll_wait ==
  /\ status = "up"
  /\ ready = {} /\ pending # {}
  /\ ready' = pending
  /\ pending' = {}
  /\ reply' = NoReply
  /\ UNCHANGED <<store, cache, status, ctl, command, backlog, conns, lag>>

\* One connection for each event.  A connection that already has something
\* to read has its event at once.
hdl_ctrl_new ==
  /\ status = "up"
  /\ LISTEN \in ready
  /\ conns' = conns \cup {Head(backlog)}
  /\ backlog' = Tail(backlog)
  /\ pending' = IF ctl[Head(backlog)] = "connected" THEN pending
                ELSE pending \cup {Head(backlog)}
  /\ ready' = ready \ {LISTEN}
  /\ reply' = NoReply
  /\ UNCHANGED <<store, cache, status, ctl, command, lag>>

\* A command that is too short for what it says, or that is unknown, changes
\* nothing; showing blocks, options and statistics does not either.
handle_command(c) ==
  CASE c.fits /\ c.op = "set" -> set_option_in_store(store, Option(c.code, c.payload))
    [] c.fits /\ c.op = "remove" -> remove_option_in_store(store, c.code)
    [] OTHER -> store

\* Mutant: a command that is not accepted keeps its connection.
Closing_AcceptedOnly(k) == {j \in {k} : \A c \in command[j] : c.fits}

\* The connection is closed whatever handle_command returns.
Closing(k) == {k}

\* One read, one command, and the connection is closed.  Nothing to read
\* means that the other side has closed it.
hdl_ctrl_cmd(k) ==
  /\ status = "up"
  /\ k \in ready
  /\ store' = IF command[k] = {} THEN store
              ELSE handle_command(CHOOSE c \in command[k] : TRUE)
  /\ conns' = conns \ Closing(k)
  /\ ctl' = [j \in Operators |-> IF j \in Closing(k) /\ ctl[j] = "sent"
                                 THEN "answered" ELSE ctl[j]]
  /\ pending' = pending \ Closing(k)
  /\ command' = [command EXCEPT ![k] = {}]
  /\ ready' = ready \ {k}
  /\ reply' = NoReply
  /\ UNCHANGED <<cache, status, backlog, lag>>

-----------------------------------------------------------------------------
(* The specification *)

Init ==
  /\ store = dhcp_options_init(CommandLine)
  /\ cache = << >>
  /\ reply = NoReply
  /\ status = "up"
  /\ ctl = [k \in Operators |-> "idle"]
  /\ command = [k \in Operators |-> {}]
  /\ backlog = << >>
  /\ conns = {}
  /\ pending = {}
  /\ ready = {}
  /\ lag = FALSE

Control == epoll_wait \/ hdl_ctrl_new \/ \E k \in Operators : hdl_ctrl_cmd(k)

Next ==
  \/ \E d \in Datagrams : Receive(d)
  \/ \E i \in DOMAIN cache : OtherNodeAnswers(i) \/ Forget(i)
  \/ \E k \in Operators : Connect(k) \/ Send(k) \/ Interrupt(k)
  \/ Control

Spec == Init /\ [][Next]_vars

\* The event loop goes on: events are fetched and their handlers return.
FairSpec == Spec /\ WF_vars(Control)

-----------------------------------------------------------------------------
(* Properties *)

\* Commands replace, append and remove options in any order, and the store
\* never holds two options of one code: what is shown, removed and sent is
\* the value that was set last (set_option_in_store, dhcp_options_init).
OneOptionPerCode ==
  \A i, j \in DOMAIN store : store[i].code = store[j].code => i = j

\* What the client of reply r asked for and store s has fits into a packet: the
\* number of options is a uint8_t, and the operator has set neither the message
\* type nor the end as if it were an option of the store.
Sendable(r, s) ==
  LET found == {i \in DOMAIN r.asked : has_option(s, r.asked[i])}
  IN /\ Cardinality(found) + ReservedSlots < Byte
     /\ \A i \in found : r.asked[i] \notin {MESSAGE_TYPE, END}

\* What a reply has to tell; a padding option tells nothing.
Promised(r) ==
  ({r.asked[i] : i \in DOMAIN r.asked} \cup {SERVER_IDENTIFIER}
     \cup (IF r.timed THEN {ADDRESS_LEASE_TIME} ELSE {})) \ {PAD}

\* A client that reads a reply up to its end finds what the daemon means: the
\* type of the message, and for each option it asked for, for the server
\* identifier and, with an address, for the lease time, the value the store
\* has at this moment.  This holds for requests that were kept while another
\* node was asked, the receive buffer was used again (dhcp_packet_copy) and
\* ddhcpctl changed the store, and however many of the three slots at the end
\* of the list are needed (fill_options, set_option).
RepliesComplete ==
  (reply.type # 0 /\ reply.intact /\ Sendable(reply, store)) =>
    LET seen == UpToEnd(reply.wire)
        Tells(code, payload) ==
          has_option(seen, code) /\ find_option(seen, code).payload = payload
    IN /\ Tells(MESSAGE_TYPE, <<reply.type>>)
       /\ reply.type # DHCPNAK =>
            \A code \in Promised(reply) :
              has_option(store, code) => Tells(code, find_option(store, code).payload)

\* A ddhcpctl that has sent its command gets its answer, however commands,
\* connections and interrupts of others come in between, unless a connection
\* met an event that was not fetched yet: epoll reports both as one, and
\* hdl_ctrl_new accepts one of them.
CommandsAnswered ==
  \/ <>(lag \/ status = "aborted")
  \/ \A k \in Operators : ctl[k] = "sent" ~> ctl[k] \in {"answered", "gone"}

\* The two passes of the parser agree, as the assertion at the end of
\* ntoh_dhcp_packet says.
RequestsParsed == status # "aborted"
=============================================================================
