# A TLA+ model of ddhcpd

ddhcpd is a distributed DHCP server. The address range is cut into *blocks*; the
daemons of a swarm agree, by multicast, which of them owns which block, and each
serves clients from its own blocks. A client that roams keeps its address: the
daemon it has come to forwards its request to the owner of the block.

This directory holds TLA+ modules translated from the C source, TLC models of
small swarms, and TLAPS proofs for swarms of any size. `PROJECT.json` maps every
definition to the lines it models and lists runs, mutants, findings, hazards and
theorems.

## 1. The system

| component | source | state | operations |
|---|---|---|---|
| block table | `block.c` | per block: state, owner, deadline, inquiry counter, age, needless mark, lease array; the claim list and its counter | claim, own, free, refresh, drop, mark, expire |
| lease arrays | `dhcp.c` 598-693 | per address: state, client, xid, end | count, pick, release, expire |
| DHCP handlers | `dhcp.c` | - | DISCOVER, REQUEST, RELEASE, INFORM; requests and answers of other nodes |
| request cache | `dhcp_packet.c` 376-455 | forwarded requests with deadlines | add, find, expire |
| swarm protocol | `ddhcp.c` | - | UPDATECLAIM, INQUIRE, RENEWLEASE, LEASEACK, LEASENAK, RELEASE |
| event loop | `main.c` | epoll timeout, house keeping timer, learning phase | wake up, drain sockets, house keeping, start, stop |
| swarm packets | `packet.c` | the receive buffer | parse, serialise, send |
| DHCP packets | `dhcp_packet.c` | pointers into the receive buffer | parse, serialise, send, copy |
| addresses | `tools.c`, `dhcp.c` 28-75, `block.c` | prefix, block size, number of blocks | address of a lease, lease of an address |
| DHCP options | `dhcp_options.c` | option store | set, remove, defaults, fill a reply |
| control socket | `control.c`, `ddhcpctl.c`, `main.c` 172-209 | backlog, connections, events | accept, read a command, close |
| hooks | `hook.c` | child processes | fork and exec, reap |
| plumbing | `epoll.c`, `netsock.c`, `netlink.c`, `statistics.c`, `logger.*`, `list.h` | sockets, counters | set-up, registration, logging |

How they interact. A daemon is one thread: `epoll_wait`, then the handlers of the
sockets that have an event, each until its socket is empty, then, if a handler or
the timer asked for it, `house_keeping`. All components work on one `ddhcp_config`
record, and all sockets are read into one buffer. Daemons interact by multicast
(claims and inquiries) and by direct packets (renewals and their answers), with
clients by DHCP, with the operator by one command per connection.

What is hard. The agreement on blocks is made of packets that may be lost or late,
three announcements, node ids as tie breaker, and timers; a claim is spread over
many rounds of the event loop, and list, counter and block state change at
different moments. A forwarded request leaves traces in a foreign block (a local
lease array) and in the cache, and its answer arrives when both may be gone. Leases
exist at several daemons at once. A restart forgets everything. Packets are judged by
a buffer that still holds earlier ones, their options point into it, and the options
of a reply are put together from a store that is changed between request and answer.
Events of edge-triggered sockets are reported once. What can go wrong where is
listed, line by line, under "hazards" in `PROJECT.json`.

What makes the components correct:

- block table: claim list, counter and states agree; lease arrays exist where they
  are indexed; a daemon takes only blocks nobody else claims, after announcing its
  claim; claims do not run out under their owner; blocks in use are not dropped;
- swarm protocol: at most one owner per block, known to the others; after a network
  failure, one owner again, and every daemon is served;
- DHCP handlers: no address used by two clients; an address in use is on record;
  no handler uses a lease array that is not there;
- packets and addresses: what is accepted is what was sent, and is applied to the
  addresses its sender meant; leases and addresses correspond one to one;
- options and control: a reply that fits into its packet tells what was asked for,
  with the values of the moment; commands are answered.

## 2. The modules

```
Ownership    what claiming promises about the possession of blocks
DdhcpTypes   records, constants and their assumptions, time       types.h
  DhcpLease  the lease array of a block                           dhcp.c
    Block    the block table                                      block.c
      Dhcp   client packets, answers of other nodes, cache        dhcp.c, dhcp_packet.c
        Ddhcp  packets between daemons                            ddhcp.c
          Swarm  event loops, network, clients, clock; properties main.c, packet.c
            MCSwarm  values for TLC

Addressing   blocks, leases and addresses modulo the word         tools.c, block.c, dhcp.c
  Packet     packets between daemons as bytes                     packet.c
    Link     a receiver among daemons of several swarms           main.c, ddhcp.c
      MCLink

DhcpOptions  the option store and the options of a reply          dhcp_options.c
  DhcpWire   the parser and the copy of a request                 dhcp_packet.c
    FrontEnd replies, kept requests, control socket               dhcp.c, control.c,
      MCFrontEnd                                                  ddhcpctl.c, main.c

BlockProofs                                                       TLAPS
  DdhcpProofs
    SwarmProofs
      LeaseProofs
        PairProofs
AddressingProofs
  LinkProofs
FrontEndProofs
```

The three trees look at one daemon program from three sides, each with the data the
others leave out. `Swarm` has the tables and the agreement between daemons; there an
address is a block and an index, and a packet arrives as the record that was sent.
`Addressing` and `Link` are about just these two abstractions, and `FrontEnd` about the
contents of the replies that `Swarm` only names.

### Swarm

The modules below `Swarm` hold operators, one per C function and under its name
where there is one: each takes the configuration the function is called with and
gives the one it leaves behind. A function that chooses (`rand()`, blocks of equal
age) or sends gives the *set* of its outcomes; an outcome carries the packets handed
to the network, and a failed `sendto` is an outcome without its packet (and without
the updates the code makes only after a send). `Swarm` composes them into actions:

| action | code |
|---|---|
| `Boot`, `Stop` | `main` up to the loop; a signal or a crash |
| `Wake` | `epoll_wait` returns; timers, learning phase (`main.c` 514-544) |
| `hdl_ddhcp_block` | one entry of one multicast packet |
| `hdl_ddhcp_dhcp` | one direct packet |
| `hdl_dhcp` | one packet of a client |
| `HandlerReturns` | a handler finds its socket empty |
| `NullDereference` | a handler uses a NULL lease array: the process dies |
| `HouseKeeping`, `HouseKeepingEnds` | `house_keeping` up to `block_update_claims`, and the rest |
| `NoHouseKeeping` | the end of a round in which nobody asked for house keeping |
| `Tick` | a second passes |
| `Heal` | the network becomes reliable |

Decisions worth knowing:

- *Time.* Deadlines are what is left of them, so that states repeat; `Expired` is any
  time in the past, and `timeout = 0`, which forces a refresh, is `Expired`. The
  clock moves only when every daemon is back in `epoll_wait` and none has overslept,
  and, unless packets may be late, when all packets have been read: computing and
  delivering take no time, as measured in seconds. With the fault "delay" packets
  stay under way for any time.
- *Data.* An address is a block and an index in it, a client its hardware address,
  a packet a record of the fields the handlers look at. Two equal requests cached in
  the same second are one element of the cache.
- *Rounds.* A handler returns when it finds its socket empty; what comes in after that,
  even before the house keeping of the same round, is left for the next `epoll_wait`.
- *House keeping* has two sends, the inquiry of `block_claim` and the refreshes of
  `block_update_claims`, and other daemons may run between them: `pc = "update"`. If
  there is more to refresh than one packet holds, the packets of `block_update_claims`
  leave in one step.
- *Timeout of `epoll_wait`.* Half the tentative timeout, in milliseconds. Half a second
  may or may not see the clock of `time()` move on, so that an odd tentative timeout
  leaves `get_loop_timeout` a choice of two numbers of ticks.
- *Lease arrays.* Nothing in `dhcp.c` looks whether a block has one. `UsingLeases` gives
  the end of the process for every handler that reads or writes the leases of a block
  without: the search of DISCOVER through the blocks of ours and of a REQUEST without an
  address, REQUEST, RELEASE, a renewal for another node, the copy of a forwarded request,
  and the answer to it. `types.h` 84 says "Only iff state is equal to CLAIMED lease_block
  is not equal to NULL"; the code does otherwise in both directions
  (`AllocationDiscipline` states what it does keep).
- *Multicast entries.* One entry per step, in any order; the code goes through them
  in the order of the packet. Other daemons may act in between, as they may while
  the C loop runs.
- *Clients* may send any packet at any time to the daemons in `Access`, for any
  address, whether it was offered to them or not. They use an address from the ACK
  until the lease time is over, a NAK arrives or they release it.
- *Undefined values.* `needless_marks` is never initialised, so `Boot` chooses it.
  `node_id` is never assigned either: it is the constant `NodeId`, distinct in all
  runs. The passing runs therefore assume what the docs say of node ids and the code
  does not establish; so do the theorems of `PairProofs`, and no others.

`Ownership` is the abstract specification: the blocks each daemon owns, how often it
has announced each claim, and which claims nobody has contested. A round of claiming
may turn claims with three announcements into possession; possession and claims may
be lost at any time; a daemon that stops forgets. `Swarm!Possession` is the instance
of it whose variables are read off the tables (a claim is announced as often as the
`claiming_counts` of a block on the claim list says, and is live while the block is
CLAIMING), and `OwnershipEarned` says that `Swarm` implements it. What `Ownership`
does not forbid is telling: a claim may be contested after its third announcement and
still become possession. That is what the code does (run `claim_race`).

### Link

| action | code |
|---|---|
| `Arrive` | the kernel has a datagram: a packet of some daemon, whole or short |
| `hdl_ddhcp_block`, `hdl_ddhcp_dhcp` | the datagram is read, checked, decoded and applied |
| `OtherSockets` | `hdl_dhcp` and `hdl_ctrl_cmd` read into the same buffer |

- *Bytes.* A buffer is a function from offsets to fields; a field is read back only at
  the offset where it was written, and anything else is `Junk`. A datagram replaces
  its own length of the buffer and leaves what is behind it, which is what a short
  datagram is judged by.
- *Numbers.* A byte has `Byte` values and an address `Width` bits, with four bytes to
  an address; the run takes 4 values and 8 bits, so that the address space has an end
  that can be reached. Other fields do not have the width of their C types.
- *Byte order.* Everything is converted once, except the address of a renewal, which
  is in network order before it is converted: for daemons of one order this is undone
  on arrival, otherwise it is reversed.
- *Layouts.* The number of blocks follows from prefix length and block size
  (`main.c` 411), and `LinkAssumption` says so for the daemons of the model.
- *About.* A message carries the addresses its sender means; the receiver computes
  the addresses it applies it to, from its own layout.

### FrontEnd

| action | code |
|---|---|
| `Receive` | `dhcp_process`: parse, then the handler of the message type |
| `OtherNodeAnswers`, `Forget` | a kept request is answered, or times out |
| `Connect`, `Send`, `Interrupt` | a run of `ddhcpctl` |
| `epoll_wait` | the events since the last call are fetched |
| `hdl_ctrl_new` | one connection is accepted |
| `hdl_ctrl_cmd` | one command is read and carried out, the connection is closed |

- *Leases* are left to `Swarm`: a request may be granted, refused or forwarded, and
  what it is granted for does not matter here.
- *Pointers.* A parsed option has no payload but a position in the receive buffer, and
  is dereferenced in the step that uses it: for a kept request, when another packet is
  in the buffer. The copy has payloads of its own.
- *Options set by the operator.* `-o` and `ddhcpctl` may set any code, padding and end
  included. The options of the command line have distinct codes, since `main` collects
  them with `set_option_in_store` (`OptionsAssumption`).
- *Counters.* Three numbers of options are a byte: that of a parsed packet, the index of
  the pass that stores it, and that of a reply (`dhcp.c` 124). They are taken modulo
  `Byte`. A request with more options than that fails the assertion at the end of the
  parser, or overwrites its first ones; a reply with more keeps what is left over.
- *Padding* in front of the end option is counted by one pass of the parser and not by
  the other. A debug build stops at the assertion; a release build writes past its
  array (undefined) and, in the model, goes on without the last options.
- *Reading a reply.* Padding and end options of the store are sent as one byte, and a
  client reads up to the first end option (`UpToEnd`), wherever it comes from.
- *What a reply is judged by.* It carries the codes its client has sent (`asked`) and
  whether the parser handed them on (`intact`). `RepliesComplete` promises nothing about
  requests that were not parsed as sent, replies that found more options than the byte
  counts, and clients that asked for option 53 or 255 while the operator has set it
  (`Sendable`).
- *The lease time* in the table is looked up in the handler that also builds the reply,
  and nothing runs in between; an offer is recorded for `DHCP_OFFER_TIMEOUT` whatever it
  tells. Both are in `Dhcp` (`SetLease`), and `FrontEnd` has the option only.
- *Edges.* The listening socket has an event or not, however many connections there
  are; `lag` remembers that a connection met an event that was not fetched yet.

## 3. Runs

Passing runs:

| run | instance | checks |
|---|---|---|
| `claims` | 2 daemons, no clients, 2 blocks, learning phase, foreign wake-ups, 1 restart | `TypeOK`, `SingleOwner`, `ClaimListConsistent`, `OwnedStaysFresh`, `OwnersKnown`, `Roomy`, `OwnershipEarned` (refinement) |
| `rough_network` | 2 daemons, 1 block, a client at one of them; loss, failing sends, the shortest timeouts | `AllocationDiscipline`, `ClaimListConsistent`, `OwnershipEarned` |
| `heal` | 2 daemons, 2 blocks, no learning phase, loss until `Heal` | `Converges`, `EveryoneServed` (liveness) |
| `one_server` | 1 daemon, 2 blocks, 2 clients that may share a transaction id | `AddressExclusive`, `LeaseRecorded` |
| `forwarding` | 2 daemons, 1 block, a client at one of them | `NoNullDereference`, `ClientHandlersSafe` |
| `link` | 1 receiver; 5 senders: its swarm, the other byte order, another block size, prefix length, prefix | `ReceivedAsSent`, `AppliedAsMeant` |
| `front_end` | 1 daemon, 12 shapes of requests, 2 runs of `ddhcpctl` | `OneOptionPerCode`, `RepliesComplete`, `CommandsAnswered` (liveness) |

Runs that show a disagreement between the code and its documentation (each is a
"finding" in `PROJECT.json`, with the line it quotes):

| run | shows |
|---|---|
| `claim_race` | three daemons, no clients: a claim is completed after it was lost, because the counter is tested before the state |
| `stale_count` | two daemons and a client: the same after a lease has come to an end, and two owners |
| `remote_renew` | a renewal is acknowledged whoever the lease belongs to: two clients, one address |
| `late_ack` | the answer to a forwarded request is written through NULL after its block was freed |
| `padded_request` | padding between options makes the two passes of the parser disagree |

`claims`, `claim_race` and `stale_count` belong together. Between two daemons without
clients the three inquiries and the tie breaker keep owners apart (for every size, by
the theorems of `PairProofs`). Neither "two" nor "without clients" can be left out, even
on a perfect network: `block_claim` completes whatever is on its list with a count of 3.
With three daemons a claim is lost after its third inquiry (`claim_race`). With a client,
a lease that comes to an end in the right round makes the daemon need no further block:
its claim stays on the list with a finished count over any number of idle rounds, times
out, is inquired by the other daemon, and is completed when the client is back
(`stale_count`): both own the block.

Some smaller disagreements are in the models as the code has them, with no run of their
own (see the hazards): `block_num_owned` looks at block 0 only; a foreign block with a
fresh claim is freed when the local copy of a lease in it expires (`block.c` 475); the
comment on lease arrays at `types.h` 84; node ids are never set, and with equal ids two
daemons may own one block.

Bounds of `Swarm`. Two daemons are the least that compete, forward and answer; two
blocks let them evade each other, one block makes every step a conflict.
`BlockSize = 1` makes "full" and "unused" happen at once, and with
`SpareLeasesNeeded = 1` a daemon needs a block as soon as its last lease is given. The
timeouts are the smallest that keep the order of the defaults (block timeout above the
house keeping interval, refresh before expiry; `main` refuses a tentative timeout
below 2); `rough_network`, `late_ack` and `stale_count` take them to the edge, so that
every expiry can hit every step. In the first and the last the lease time is 0, as an operator may
set it, so that a lease ends by itself a second after it was taken; a RELEASE of the client
frees one just as well. `MaxAge` bounds how far ages of blocks are told
apart (0: equal ages, any choice), `MaxStops` the restarts and `QueueCapacity` the
receive buffers, where a full buffer drops packets as the kernel does; `claims` has room
for six packets, of which at most four are ever used (`Roomy`). `Access`
says which daemons a client reaches: one of the two in `rough_network`,
`forwarding`, `late_ack` and `stale_count`, both in `remote_renew`. Packets that are overtaken by
the clock ("delay") are in `late_ack` only: with them no passing run with a client ends in minutes,
while the theorems of `SwarmProofs` have them.

Bounds of `Link`. The network is four addresses in two blocks, beginning at 254 of
256, so that it crosses the end of the address space; each foreign sender differs from
the receiver in one thing. The lengths 14, 15 and 16 end before the command, before
the count and after the header: the three cases in which the length is judged by
different remains. One datagram is in the socket at a time; what matters of earlier
ones is what they leave in the buffer.

Bounds of `FrontEnd`. The requests cover every message type the daemon looks at,
options it has and has not, its own reserved codes among those asked for, and every
way the parser refuses. `CacheBound = 1`: kept requests do not act on each other.
Two runs of `ddhcpctl` are the least that meet in one event; `Backlog = 3` is what
`listen(fd, 2)` allows. The commands set an option, set one without
a value, set the end option, remove one, and fail; the store starts with a padding
option. `Byte = 8` puts the end of the counters within reach: one request has that many
options, one asks for as many codes as a reply has room for, one for one more.

Deadlock is checked in every run of `Swarm` and in `link`: these systems never stop.
It is not in `front_end` and `padded_request`, where a daemon that hit its assertion
has stopped.

Fairness. In `heal`, weak fairness of: starting daemons; some running daemon
taking a step (a process that can run is scheduled; one condition for all of them,
since daemons must be idle before the clock moves on); the clock; and the recovery of
the network, which is the hypothesis of "after the network has recovered". Nothing
is assumed about which block `rand()` picks or who inquires first. In `front_end`, weak
fairness of `Control`: the loop fetches events and its handlers return. Nothing is
assumed about operators, who may connect and never send.

Mutants. For every property of a passing run, a definition is changed the way a
plausible bug would change it, and TLC must find the property violated; the mutated
forms stand before the definitions, marked `Mutant`.

## 4. Proofs

`SwarmProofs` proves, for all values of the constants allowed by the assumptions in
`DdhcpTypes` and `Swarm` (positive sizes, natural timeouts, any set of daemons and
clients, any faults, any node ids, equal ones included):

| theorem | statement |
|---|---|
| `TypeCorrectness` | `Spec => []TypeOK` |
| `Allocation` | `Spec => []AllocationDiscipline` |
| `ClaimBookkeeping` | `Spec => []ClaimListConsistent` |
| `ClientSafety` | `Spec => []ClientHandlersSafe` |

All follow from `Invariance`: `Spec => []Inv`, where `Inv` is `TypeOK` and
`WellFormed(config[n])` for every daemon: the types, `Allocated` for every block,
and `ClaimsListed`. The parts need each other. That the inquiry counter stays below
four needs every counter of a listed claim to be typed and claims to leave the list
at three; that blocks being claimed have no lease array is what makes `block_own`
allocate a fresh one; that no block of ours is on the claim list needs that nothing
but `block_claim` turns a block into ours.

The last is the idea of the proof. A function is *quiet* (`BlockProofs!Quiet`) if it
makes no block ours and none being claimed that was not so before, and leaves claim
list, counters and announcements alone. Quiet steps compose and preserve `WellFormed`.
`BlockProofs` shows that all functions of `block.c` but `block_claim` are quiet and
that `block_claim` preserves `WellFormed`, `DdhcpProofs` that all handlers are quiet,
and `SwarmProofs` has one lemma for each action. `ClientSafety` goes through the handlers
of client packets: each of them has an outcome that ends the process if a block it uses
has no lease array (`UsingLeases`), and `Inv` excludes that outcome, because what they
index is ours, or has just been allocated (`ForwardRequest`).

`SwarmProofs` also proves `Refinement`: `Spec => OwnershipEarned`, the refinement of
`Ownership` by `Swarm`, under the same assumptions. A quiet step loses possession or
live claims and announces nothing (`Ownership!Lose` or a stutter); `block_claim` is
taken apart into the loop that owns finished claims, the one that starts new ones and
the one that counts the inquiry, which together are one `ClaimRound`, with `sent` = 1
or 0 as the send succeeded or failed; house keeping is that round between quiet
steps. Every other daemon stays where it is.

`LeaseProofs` has three theorems with hypotheses on the constants:

| theorem | hypothesis | statement |
|---|---|---|
| `Freshness` | `RefreshInTime` | `Spec => []OwnedStaysFresh` |
| `SingleServerRecords` | `SingleServer(s)` | `Spec => []LeaseRecorded` |
| `SingleServerExclusive` | `SingleServer(s)` | `Spec => []AddressExclusive` |

`RefreshInTime` says that `sendto` does not fail and that the longest time between
two house keepings, the interval and one wait of the loop, is not longer than what a
claim has left when house keeping leaves it alone (`Baseline`). The defaults (tentative timeout 15, block timeout 60,
refresh factor 4) give 14 and 45; in run `claims` they are 2 and 3. The code does not check
it (hazard at `main.c:275`). `FreshInv` adds to `Inv` the timers and, for each daemon
outside house keeping, that every claim of its own outlives the time until the next
house keeping (`Grace`): a wake-up in between restarts the wait of `epoll_wait`, but
not the timer, and the first wake-up after the timer has run out brings house keeping.

`SingleServer(s)` says that `s` is the only daemon, does not restart (a restarted
daemon has forgotten its leases) and `RefreshInTime`. The number of clients, blocks
and leases is arbitrary, and so is what clients send. `ServerInv` says that no packet
of another daemon is under way and no block is another's, and relates clients and
table: an address in use is a lease of a block of ours, LEASED to that client, with at
least the client's time left. It is kept by everything that *keeps leases* (`Keeps`:
a lease in use stays as it is and in place): expiry, because the server's end comes
after the client's; freeing a block, because by `Freshness` its claim does not run out;
`block_drop_unused`, because it only takes blocks without leases; offers, because they
go to free leases; acknowledgements, because a lease in use is acknowledged to its own
client only; a release, because it has to come from the client itself. With more
daemons both properties fail (run `remote_renew`).

`PairProofs` is about the agreement between two daemons, the heart of the protocol:

| theorem | hypothesis | statement |
|---|---|---|
| `OneOwner` | `IdlePair` | `Spec /\ []Roomy => []SingleOwner` |
| `Knowledge` | `IdlePair` | `Spec /\ []Roomy => []OwnersKnown` |

for any number of blocks, leases and spare leases, any times and ids, any number of
restarts, and any order of wake-ups, packets and ticks. Both are theorems about daemons
that serve no clients. `IdlePair` has the instance of run `claims` and, but for the
clients, the defaults of `main.c` among its models. What it says, and what goes wrong
otherwise:

- no clients. With them `OneOwner` is false: run `stale_count`. Without them the number of
  leases changes with the number of blocks alone, so that a finished claim never stays
  on the list over rounds in which no block is needed. `Knowledge` could fail as well: a
  forwarded request may make a daemon forget a foreign claim early (`block.c` 475);
- two daemons: with three, a claim is completed after it was lost (`claim_race`);
- different node ids: with equal ones neither gives way (hazard at `main.c:213`);
- both start with a learning phase: without it a daemon may claim and announce while
  the other starts, and TLC finds a block with two owners; that such a swarm recovers
  is what run `heal` checks;
- a network that loses and delays nothing, and sends that succeed. That no receive buffer
  overflows is a hypothesis of its own, `[]Roomy`, about the behaviour: run `claims`
  checks it for a buffer of six packets (those of the kernel hold hundreds), and it is
  not proved;
- times (`Steadfast`): the longest time between two house keepings is less than
  `Baseline` (with the defaults 14 and 45), and the blocks a daemon needs for its spare
  leases (`Target`, 1 with the defaults) fit into one UPDATECLAIM (32), so that a
  refresh is one packet; and a tentative timeout that makes the timer at least 1.

The invariant, `PairInv`, adds to `FreshInv`

- `Solo`, about one daemon. Its table is `Tidy`: leases are free, a claim on the list
  was announced, and is CLAIMING or was lost before its third announcement, and blocks
  and claims together are never more than are needed (`Modest`), which is why every
  claim on the list moves in every house keeping. Whoever holds a block has finished
  learning;
- `Heard`, the centre: if x claims or owns b, then y, unless a claim of y with the
  greater id is about to end that of x, either has an entry for b that outlives both
  the claim of x and the time until x does house keeping (`Known`), or only listens for
  longer than that (`Learns`), or has a packet of x about b to read (`Coming`);
- `Yields`: a packet of x about a block that y holds finds the claim of y before its
  third announcement; `Contest`: of two claimants the one with the smaller id has an
  inquiry of the other to read. Together they exclude two owners;
- `InOrder`: an announcement under way is followed by the refresh of the same block, if
  the claim has become possession and was refreshed since, so that reading it late does
  not shorten what y knows.

What makes these parts delicate is the loop. A packet that comes in after the handler of
its socket has returned waits for the next round, and the daemon does its house keeping
first, without knowing of it (`Deaf`). Then it may announce its own claim to the same
block once more, or begin one. So `Heard`, `Yields` and `Contest` say what is known of a
daemon that is deaf: either its entry already keeps it from the block, or the claim it
is deaf to has been announced so seldom that it has not become possession before both
daemons have read what is under way. `Early(n, b, more)` says that `more` further rounds
leave the claim of n to b at two announcements, and `Rounds(n)` how many rounds of house
keeping n may still do before the clock moves on or a new packet comes in. `Due` is the
time until the next house keeping or, between its two halves, until the refresh of b.
All of it was checked by TLC, part by part, on the instance of run `claims` before it
was proved.

The proof has a lemma for each action and, below the two halves of house keeping and the
handler, one for each case of an entry. House keeping is summarised first, for a daemon
without clients, by what it does to an entry and what it sends: one inquiry for all
claims (`Adjusting`), then one UPDATECLAIM for all blocks if one of them is due
(`Refreshing`); a packet that is read by what it takes out of the buffer (`Consumed`).
The counting behind `Modest`, rounding spare leases up to blocks, is `RoundUp` and
`Missing`. Part of the result is that in such a pair no inquiry ever reaches the owner of
its block (`Yields`): the immediate answer in `ddhcp_block_process_inquire` is needed
only where packets are lost, learning is skipped, more daemons take part or clients
come and go.

`AddressingProofs` proves, for every number of values of a byte, every prefix and
every layout whose addresses fit into a word (`Usable`):

| theorem | statement |
|---|---|
| `AddressRoundTrip` | `find_lease_from_address` of the address of a lease is that lease |
| `LeaseFoundHasAddress` | an address in which it finds a lease is the address of that lease |

Together: leases and addresses correspond one to one, also where the network crosses
the end of the address space. This is what allows the other modules to speak of
leases. The proof goes through the number of a lease in its network (`Numbering`:
block times size plus index is below blocks times size), addition and subtraction
modulo the word as steps in a circle (`Circle`), and the uniqueness of quotient and
remainder (`Division`).

`LinkProofs` proves `PacketsAsSent` (`Spec => []ReceivedAsSent`) and `PacketsApplied`
(`Spec => []AppliedAsMeant`) for any set of senders with any usable layouts, any
lengths a datagram is cut to and everything that may be in the buffer, with messages
of up to two blocks as `Messages` has them. The inductive invariant `LinkInv` adds that
what waits in the socket is a message of its sender of at most its length, and that
the byte where the count is read holds a number. `ShortRefused` is the heart of the
first theorem: a short datagram leaves the length it is compared with to the remains
behind it, and is refused for all of them; `WholeTaken` says that a whole one decodes
to what was sent, and `ReversedTwice` that an address converted twice by one byte
order is itself. The second theorem uses `AddressRoundTrip` for renewals, and that
`ddhcp_check_packet` compares all that a layout consists of.

`FrontEndProofs` proves, for every command line, every set of requests and commands:

| theorem | hypothesis | statement |
|---|---|---|
| `OneValue` | - | `Spec => []OneOptionPerCode` |
| `CompleteReplies` | - | `Spec => []RepliesComplete` |

The exceptions of `RepliesComplete` are part of the property (`Sendable`, `intact`): a
reply whose options the byte at `dhcp.c` 124 does not count, a request that the parser
did not hand on as it was sent, and a client that asks for option 53 or 255 when the
operator has set it (hazards at `dhcp.c:124` and `control.c:79`). The store is
`IsStore(store, T)`, a sequence of options out of `T` with distinct codes; `StoreInit`
and `StoreStep` hold for every `T` that allows for what the operator can set.
`CacheKept` says that a kept request, read while another packet is in the buffer, still
lists the codes that were asked for: `CopyReads` for the copy, `ReadAsSent` for the
parser. `Filled` says that `fill_options` has all options asked for and none else
before its empty slots; `Defaults`, that the three values the daemon adds find these
slots from the last one down, so that three are enough, padding options of the store
notwithstanding; `OnWire`, `ReadFromWire` and `ReplyRead`, that a client that stops at
the first end option has seen the first entry of every code, and that it is the one that
was meant. The two steps that look like induction are an appeal to the least element of
a set (`FirstOf`) and to a counting argument (`Numbered`).

Only model-checked: `NoNullDereference`, which fails when refreshes are lost
(`late_ack`) and holds for the network and the times of run `forwarding`; a proof
would need an invariant like that of `PairProofs` for pairs with clients, and a relation
between cached requests, requests and answers under way, and the time left of foreign
claims; `Roomy`, which is a hypothesis of the theorems about pairs. Liveness
under fairness (`Converges`, `EveryoneServed`, `CommandsAnswered`) is out of the reach
of this prover. What the violation runs show are counterexamples, which TLC finds. No module uses
RECURSIVE operators, and no proof needs induction over data.

## 5. Not modelled

- Hooks: processes outside the daemon, which do not act on its state.
- Netlink messages, which are only logged; the wake-ups they cause are in `Swarm`. An
  error of the netlink socket asks for house keeping; the model has its ordinary
  wake-ups only.
- Socket set-up, statistics, log levels and messages, the vendored list.
- `parse_option` and the rest of the command line: text, before the daemon runs. The
  sizes that follow from `-N` and `-b` are in `Addressing`; `-b 8`, which makes the
  block size 0, is excluded by its assumptions.
- Failing memory allocations, failing `epoll_ctl` and `fork`.
- Empty datagrams, which end the draining of a socket: no daemon sends them.
- A lease time for each daemon: in `Swarm` all have one. `FrontEnd` has a store that
  changes, and one daemon.
- The effect of a direct RELEASE on leases (`dhcp_release_lease`): nothing sends the
  packet, and `Link` shows that it would not be accepted.
- A daemon that shuts down on a signal finishes its round first, while `Stop` may
  strike at any point, as a crash does.

## 6. Plan

Done: the core, the abstract specification of ownership, packets and addresses, the
front end. Every safety property of the passing runs but two (`NoNullDereference` and
`Roomy`) is proved, for all constants or under stated hypotheses. Left:

1. What does hold of pairs with clients: `OneOwner` for claims whose count is not stale,
   and how early a foreign claim may be forgotten.
2. `NoNullDereference` from it, when claims outlive the request cache.
3. `Roomy` for pairs without clients, as a bound on the packets of a daemon that is deaf.
