# A TLA+ model of RyanW5500

RyanW5500 puts a BSD socket API on a WIZnet W5500, an Ethernet chip that runs
TCP and UDP itself in eight hardware sockets, for RT-Thread. This directory
holds TLA+ modules translated from that code, the TLC configurations that check
them, and theorems proved with TLAPS. Line numbers below are those of the
repository's files.

## 1. The system

| component | state | operations | interacts with |
|---|---|---|---|
| Socket table (`W5500Client/RyanW5500Socket.c`) | `RyanW5500Sockets[]`: type, state, port, owner, poll counters, `serviceInfo` (backlog, client list, accept queue) | `wiz_socket` ... `wiz_shutdown`, options, resolver calls | application threads call it; the W5500 task calls its callbacks; it drives the chip through the wizchip layer |
| W5500 task (`W5500Client/RyanW5500.c`) | `netDevFlag`, the network timer | interrupt loop, `RyanW5500NetWorkInit` | woken by the pin's event, wakes receivers by an event bit per socket, fills the accept queue |
| wizchip sockets (`ioLibrary/wizchip/wizchip_socket.c`) | `sock_io_mode`, `sock_is_sending`, `sock_remained_size`, `sock_pack_info` | socket, close, listen, connect, disconnect, send, recv, sendto, recvfrom | the chip's registers, polled |
| Registers (`ioLibrary/W5500`), control (`wizchip_conf.c`), SPI port (`platformW5500Hardware.c`) | the bus lock, the chip select | frames of register reads and writes, double readings of sizes, copies into and out of the chip's rings | the chip; every thread |
| Timer (`platform/RT-Thread/platformTimer.c`) | start and length of a timeout | arm, read the time left | receive path, DHCP, DNS, task |
| DHCP client (`ioLibrary/DHCP`) | client state, transaction id, lease timer | `DHCP_run` and its messages | the task; hardware socket of its own while it runs |
| DNS client (`ioLibrary/DNS`) | message buffer, id | `DNS_run` | `wiz_gethostbyname` under `dnsMutexHandle` |
| netdev glue and `poll` (`RyanW5500netDev.c`) | none: sets `netDevFlag` | set address, DHCP, DNS server; `wiz_poll` | task, socket table's counters |
| Ping (`RyanW5500Ping.c`) | a raw socket for the length of a call | `RyanW5500Ping`, `wiz_checksum` | socket table, resolver |
| List (`common/RyanList.c`) | the clients of a server | add, delete, move, the safe loop | socket table, the task |
| Log, example | - | - | - |

Threads: any number of application threads, the W5500 task, the interrupt
handler (which only sets an event), and the chip, which changes its registers
at any time. `socketMutexHandle` (recursive) covers the creation and the
destruction of a socket, `recvLock` one call of `wizchip_recv`, the SPI driver's
lock one frame; everything else is shared without a lock, `gWIZNETINFO` and
`netDevFlag` among it.

### What is hard here

* A server's state is spread over the backlog counter, the client list, the one
  client that listens, the accept queue and the chip, and is changed by two
  threads (`RyanListenServiceAddClient` in the task, close in the application).
* Every creation can fail in several places, each with its own cleanup.
* Between two register reads the chip goes on: data, FIN and reset arrive
  between a check and its use; interrupts are read and then cleared by a mask.
* The receive path looks at the buffer outside the lock and inside it again.
* Poll counters, events and the receive buffer tell of the same bytes and are
  changed in separate steps.
* Timeouts are `uint32_t` milliseconds and wrap.
* DHCP and DNS exchange datagrams that may be lost, late, doubled or foreign.
* A UDP receiver reads a stream of headers and payloads whose place is known from
  one word, `sock_remained_size`; one interrupt may stand for several datagrams.
* The network device's setters and the task change the same flags and addresses
  in several unlocked steps, while the link and the lease change too.
* Sizes of 16 bits are read byte by byte from registers that change meanwhile.

`PROJECT.json` lists these at their lines under "hazards", with the properties
that would notice.

### What makes each component correct

* Socket table: an open descriptor stays what it is until it is closed; clients
  and servers point at each other; backlog, queue and list agree; one client
  listens while the backlog lasts; connections reach `accept`.
* Receive path: bytes come out once each and in full; the end is reported when
  there is one, after the data; a waiting thread is woken; `poll` is truthful.
* UDP: datagrams come out whole, in order, with their sender; none is taken for the
  header of the next; what arrives wakes a receiver.
* Supervision: what was set last reaches the chip and the device; no interrupt is
  missed; the device follows the link.
* Registers: an access is atomic whatever other threads do; a size that is believed
  was the size; bytes keep their order in the rings.
* List: a ring, in the order of insertion; a loop that deletes visits all, once.
* Options are read back as they were set (of TTL and TOS one byte); resolver results belong to their caller; a
  ping ends and gives its socket back.
* Timer: expires on time wherever the counter wraps.
* Send path: one SEND command at a time, `send` is not stuck busy, a datagram
  reported as sent has left, unsent bytes are never overwritten.
* DHCP: what the client takes for leased is leased; every run ends and gives the
  task back to the sockets.
* DNS: an address returned is that of the host asked for, unless a reply to another
  query is late; every path gives the socket back; every lookup ends.

## 2. Modules

| module | models | state |
|---|---|---|
| `ListenPool` | the socket table, listening sockets, the task's part in them | `slot` (table entry and hardware socket), `fault`, `fds` (descriptors the application holds), `sweep` (the closing loop of `RyanW5500NetWorkInit`) |
| `RecvPath` | `wiz_recvfrom` for TCP, `wizchip_recv`, the task's loop for one socket | chip registers, event bit, poll counters, lock, program counters, byte counts |
| `UdpRecv` | `wiz_recvfrom` for UDP, `wizchip_recvfrom`, the task's loop, `IP_ADD_MEMBERSHIP` | read and write pointer, the datagrams stored, `sock_remained_size`, event bit, `rcvevent`, program counters |
| `DatagramQueue` | abstract: what a UDP socket promises one receiver | a queue of datagrams, what the last call returned |
| `SendPath` | `wiz_sendto`, `wizchip_send`, `wizchip_sendto`, the word `sock_is_sending` | chip registers, send buffers, SEND commands under way, the word, and for each sending thread its place, its length and the copy of the word it has loaded |
| `NetTask` | `wizIntDataTask`, `RyanW5500NetWorkInit`, the setters of `wiz_netdev_ops` | `gWIZNETINFO`, `netDevFlag`, the chip's address and interrupt registers, the event, the PHY's link, the lease, the device as shown, program counters of task and caller |
| `DhcpClient` | `DHCP_run`, and `RyanW5500NetWorkInit` in DHCP mode | place in the task, `dhcp_state`, chosen server, `gWIZNETINFO.ip`, lease timer, the address on the chip; outside: replies under way, what the servers have promised |
| `DnsClient` | `RyanW5500_gethostbyname`, `DNS_run` | `dnsMutexHandle`, `DNS_SOCKET`, what the open sockets have received, the threads; outside: queries and replies under way |
| `SpiBus` | `WIZCHIP_READ`, `WRITE`, `READ_BUF`, `WRITE_BUF` over the port's lock, chip select and bursts | the chip's cells and decoder, the holder of the bus, each thread's frame |
| `RegisterFile` | abstract: registers accessed in one step | cells, requests, what was read |
| `SocketBuffer` | `getSn_RX_RSR`, `getSn_TX_FSR`, `wiz_recv_data`, `wiz_send_data` | a ring, its pointers, a thread's local variables |
| `RyanList` | `RyanList.c` and `RyanListForEachSafe` | next and prev of every node, the loop |
| `ClientLists` | abstract: sequences of entries | a sequence for each head |
| `SocketOptions` | `wiz_setsockopt`, `wiz_getsockopt` and what they call | the descriptors' option fields, the option registers |
| `Resolver` | `wiz_gethostbyname`, `_r`, `wiz_getaddrinfo`, `wiz_freeaddrinfo` | the static result, the heap, threads and results |
| `Ping` | `RyanW5500Ping`, `wiz_checksum` | program counter, the raw socket, request and message |
| `PlatformTimer` | the countdown timer | tick, timer, time really elapsed (a ghost) |
| `MCListenPool`, `MCRecvPath`, `MCUdpRecv`, `MCSendPath`, `MCNetTask`, `MCDhcpClient`, `MCParts` | values for TLC; which actors act in a behaviour; claims of comments that the code does not keep | |
| `ListenPoolProofs`, `RecvPathProofs`, `UdpRecvProofs`, `SendPathProofs`, `NetTaskProofs`, `DhcpClientProofs`, `DnsClientProofs` | theorems about the module of that name; `RecvPathProofs` also about `MCRecvPath` | |
| `PartsProofs` | theorems about `PlatformTimer`, `RyanList`, `SpiBus`, `SocketBuffer`, `SocketOptions`, `Resolver`, `Ping` | |

How they fit together. A step of the upper modules is one access of a register:
`SpiBus` shows that it may be taken for one step, and `SocketBuffer` that a size
and a copy of a buffer, which are several, mean what `RecvPath`, `UdpRecv` and
`SendPath` take them to mean. `ListenPool` uses the client list as a set, for which
`RyanList` shows that lists stay lists. `NetTask` takes `DHCP_run` for a step that
succeeds or fails, whose inside is `DhcpClient`; the clients count in seconds or
ticks what `PlatformTimer` shows to be exact in milliseconds. `Resolver` takes
`RyanW5500_gethostbyname` for the lookup that `DnsClient` is about.

**ListenPool.** One operator per C function; each returns the *set of outcomes*
of the call (the table left behind, the value returned, the fault that stopped
the program), so that a caller composes the callee's outcomes the way the C
code does: `wiz_closesocket` -> `RyanW5500SocketDestory` ->
`RyanW5500ListenSocketDestory` -> `RyanW5500CreateListenClient` ->
`RyanW5500SocketCreate`. The order of the code is kept where it matters: a
client's replacement is created before its own slot is freed. A record of
`slot` joins a `RyanW5500Socket`, its `serviceInfo` and the hardware socket
with the same number. `fault` names the failed `RT_ASSERT` or the misuse of a
pointer at which a run ends. `Env` switches on what the environment may do, so
that a run says under which conditions it holds. A call is one step, so this
module does not speak of races inside a call. Reading through NULL
(`sock->socket` at line 431, with a full table) is undefined and both outcomes are
always possible: it stops the program (`fault = "nullSocket"`), or it reads a
number that is no socket, which `wiz_closesocket` refuses. `NoFault` allows that
one fault and no other; `TableSuffices` is the claim that there is room enough for it not to happen.

**RecvPath.** Every read of a register whose value is used, every kernel call
and every change of a counter is a step; the chip and the peer act in between.
A receiver's `pc` names the place in `wiz_recvfrom` or `wizchip_recv`; `final`
tells the second call of `wizchip_recv` from the first, whose errors are
ignored. `rt_event_send` wakes every thread that waits for the bit and clears
it. In SOCK_CLOSE_WAIT the loop may spin (bytes of ours unsent) or close.
Bytes are counted, not told apart.

**UdpRecv.** Positions in the receive buffer are absolute; a datagram lies there
behind a header of `Header` bytes. A read of a register whose value is used, a
copy, a kernel call and a change of `rcvevent` is a step. When no header begins at
the read pointer, `ReadHeader` takes any length for the datagram's: that never
happens, which is `Aligned`. `IP_ADD_MEMBERSHIP` closes the hardware socket and opens
it anew, between two calls of the receiving thread. `merged` and `short` are ghosts
that count datagrams that came under a pending signal and reads shorter than a
datagram. The datagrams of which bytes are still to come are mapped to
`DatagramQueue!queue`.

**NetTask.** A load and a store of `netDevFlag` are two steps for the setters; the
task's clearing of a flag is its load and its store. A setter is the list of its
steps (`UserLoad`, `UserStore`, `UserWrite`, `UserLink`, `UserStatus`) in the order of
the code, which is not the same in all of them: `RyanW5500NetdevSetDnsServer` raises
the flag before it writes. `wizchip_setnetinfo` copies one address at a time, so a
setter may write between two. `RyanW5500NetDevInfoUpdate` shows the addresses, then
the link. The lease has three grades (`lease`). `Drain` and `After` are the loop that
reads SIR until it is zero.

**SpiBus.** A step is a call of the port. The chip takes what follows its select
for a header and then for data, whoever sends it, and moves on by itself; a
thread that reads while nothing is selected reads anything. `Registers` maps a
thread's frame to a request until the burst with its data.

**SocketBuffer.** Each reading of a byte of a size register is a step, and the chip may
let the size grow in between. Bytes carry their number in the stream.

**RyanList.** `heap` holds the pointers; a node that was never added has zeros. What
the code does on a deleted node (`RyanListDel` twice) is kept out by `on`, the list an
entry belongs to. A round of the loop is the body's deletion and the step to the
next entry; the task's `RyanListAddTail` may come between rounds. `Lists` maps each list
to the sequence of entries that next leads through, which `ClientLists` specifies.

**SocketOptions.** A call is one step; options that the code answers alike are one
(`"not supported"`). Registers outlive descriptors, as `wizchip_socket` does not write
them. `asked` remembers what the owner of a descriptor has set. TTL and TOS are read
into one byte of the caller's int (`WithByte`), which may hold anything before.

**Resolver.** A thread that has a result uses it until `Forget` or `FreeAddrInfo`; other
threads go on meanwhile. Memory that is a thread's own is not looked at step by step.

**Ping.** The socket calls are one step each; any ICMP message may arrive while the raw
socket is open; of a message longer than the buffer its first bytes are received
(`Received`, `PingWords`: 18 words behind the type and the checksum). `wiz_checksum` works on
words of `Half * Half` values; a request has at most `Half * Half - 2` words behind its first.

**PlatformTimer.** `Mod` is 2^32; sums wrap. `elapsed` is the truth the reading
is compared with; it stays below one turn of the counter.

**DhcpClient.** A tick is a second, the granularity of every timeout of the
client. One pass of the loop of `DHCP_run` is three steps: what `parseDHCPMSG`
takes from the socket, the switch over `dhcp_state`, and the count of timeouts;
between two passes a second may or may not go by. After a failed run the task waits
one second (`pause`), otherwise for interrupts (`idle`), of which one that comes shortly
before the second is over makes it wait for another. The check for a conflict waits for
ARP (four times 200 ms), in which a second may end. `lease` and `recvTimer` hold
what is left, as `platformTimerRemain` reads it; the multiplication of the lease
time by 1000 wraps (`Armed`). The servers are external. Each keeps one address
for this client, takes another one when the client declines it, and may answer
any message with an offer, an ACK or a NAK, or not at all; `promise` is for how
long an address is leased by the last ACK sent. The network (`net`) loses,
duplicates and reorders replies and keeps them for at most `MaxDelay` seconds.
The transaction id is absent because `parseDHCPMSG` never compares it, and a
reply of the chosen server is taken whatever it answers. `Env` adds a new start
with no address (link down, DHCP enabled again), a start that fails for want of
a socket or of memory, and servers that do not answer ARP requests, so that
sending to them takes about a second.

**SendPath.** One thread sends on each socket (`th[s]`); reads of registers are
steps of their own, and so are the load and the store of `sock_is_sending |= bit`
and `&= ~bit`, which several threads do at the same time. A thread remembers the
word it has loaded. `Reopen` is the path by which an application gives a closed
socket up and connects it anew; `wizchip_socket` clears the bit on the way, under
`socketMutexHandle`, which keeps other openings out and no sender. The chip sends
(`Deliver`), ends a command with SENDOK, for TCP perhaps before the peer has
acknowledged every byte, or gives the connection up with TIMEOUT. The task's
`ClearIR` uses the mask `RyanW5500SnIMR`, without SENDOK and TIMEOUT, which are
the sender's. The waits of 1000 delays do not run out (the header of the module
says why), and bytes are counted.

**DnsClient.** Threads take `dnsMutexHandle`, open a UDP socket, send one query and
poll. A message is the list of its records and whether it reports an error; the
host it is about is there for the properties only, since neither the id (every run
sets it to DNS_MSG_ID) nor the question is compared. `Parse` is what `parseDNSMSG`
leaves in `ip_from_dns`: the address of the last A record, nothing if a name is too
long or the server reports an error. After a timeout nothing is sent, as in the
code: `len` holds the received size, 0, and `wizchip_sendto` refuses it. Packets may
be under way for any time, beyond the end of the run that caused them: a run ends with
its timeouts whatever is still to come. `stale` is a ghost, the hosts that packets under
way were about when the last socket was opened. `Env` adds failing creations, aliases too
long for their buffer, and duplication.

A definition that a comment calls a mutant (`ReturnIfListening` of
`ReturnToBacklog`) is a plausible bug of that operator: put in its place, the
property named in `PROJECT.json` fails.

## 3. Runs

Passing:

| run | instance | shows |
|---|---|---|
| `pool_two_servers` | 4 slots, 2 open sockets, backlogs 1 and 2, failing creations, handshake timeouts | `NoFault`, `BacklogAccounts`, `DescriptorsKept`, `AcceptGivesConnection` for two servers, or a server and a connecting socket, at once, until the full table stops the program |
| `pool_backlog` | 4 slots, one server, backlog 1 and 2, fairness | `QueueHoldsUnaccepted`, `OneListener`, `ConnectionServed` when no creation fails; with backlog 2 the four slots are all in use while a client is replaced |
| `pool_anything` | 3 slots, every behaviour but failing malloc | `ClientListsOwn` until a fault |
| `recv_threads` | one receiver, SO_RCVTIMEO possible, fairness; or two on a connection that may be reset | `BytesConserved`; for the one alone `EndIsTrueAlone`, `ReceiverWokenAlone` |
| `udp_recv` | one receiver, two peers, three datagrams of 0 or 2 bytes, reads of 1 and 3, timeouts, membership that may fail, fairness | `ImplementsQueue` (refinement), `ReadingAligned` (types, `Aligned`, `ReadsOneDatagram`), `UnreadAccounted`, `ArrivalWakes` |
| `net_task` | two calls of the setters, or interrupts of two sockets; the link, the lease and `DHCP_run` do as they like; fairness | `AddressTakenOver`, `ModeTakenOver`, `TaskInvariant` (types, `InterruptSeen`), `LinkFollows` |
| `dhcp_client` | two servers, one with an address in use elsewhere, leases of 16 and of 19, which wraps, restarts, failing starts, ARP failures, fairness | `LeaseHeld`, `RunEnds` |
| `send_one` | one TCP and one UDP socket, buffer of 2, lengths 1 and 3, fairness | `NothingOverwritten`, `OneSendAtATime`, `SentHasLeft`, `BusyEnds` |
| `dns_lookup` | two threads, two hosts, one socket left, loss, late packets, duplicates, failing creations, long aliases, fairness | `AddressIsHosts`, `SocketGivenBack`, `LookupEnds` |
| `parts` | one part per behaviour, see below | timer: `RemainIsLeft`, `RemainNeverGrows`; list: `ImplementsLists` (refinement), `Linked`, `VisitsOnce`; bus: `ImplementsRegisters` (refinement); buffers: `SizeIsTrue`, `InOrder`; options: `OptionsKept` (`OptionReadsBack`, `StaysInGroup`); resolver: `ResultsOwn` (with `BlocksHeld`); ping: `ChecksumExact`, `PingEnds` |

Most type invariants are not in a run: section 4 proves them for every value of the
constants. The same holds for `CopyIsBacked` and `ExpiresExactly`, which stand in the
inductive invariants or follow from `RemainIsLeft`.

Bounds. Four slots hold a server with a backlog of 2, its queue full and one
connection accepted, so the counter takes every kind of value (0, 1, more); two
servers, or a server and a connecting socket, fill the table in
`pool_two_servers`, so there creations also fail for want of a slot. Buffers of
2 bytes with reads of 1 or 2 give empty, partly read and full buffers.
Where two threads receive, both use the shorter buffer, which leaves bytes for
each other's second look; the lone receiver uses both.

In `udp_recv` a datagram is empty, fits or does not fit into what is read; three of
them make one that waits behind one that is read in part, with a third that arrives
under the pending signal; a buffer of 8 holds two with their headers of 2, so the
chip also drops. One receiver, because `sock_remained_size` is what the refinement
is about; two receivers share it without a lock, and datagrams of one are then
continued by the other. In `net_task` two calls are a setting and another one that
comes before, during or after its being taken over; two sockets are one whose
interrupt is handled and one whose interrupt comes meanwhile. Setters and socket
interrupts are apart, since together they have too many states; they meet only in
the task's order of steps, which is the same in both.

The times of `dhcp_client` keep the proportions that matter. A renewal that
begins just before the margin fails after MAX_DHCP_RETRY timeouts of
DHCP_WAIT_TIME; a second later the task sees that less than the margin is left
and starts anew; the timer runs late by the age of the reply that armed it; and an
ARP request that is not answered adds a second to each message. The run is tight:
with a margin of 6 in place of 7 `LeaseHeld` fails. The longer wait for interrupts does
not add to it, since after a failed renewal the task waits exactly a second. The code's own margin is tight too:
ten seconds against 8 timeouts, each noticed up to 100 ms late, and the second
after them leave next to nothing for a late reply, and with ARP failures they do not
suffice. A lease of 16 lets the client renew at half of it, fail, wait and renew
again; one of 19 wraps the timer, whose modulus is 17. With one reply under way at
a time it is an offer, a reply or a stale predecessor of either.

In `send_one` lengths of 1 and 3 in a buffer of 2 give sends that fit, that are
clamped and that find no room; the UDP socket shares `sock_is_sending`'s chip and
task with the TCP socket, but not the word. In `dns_lookup` two threads are one that
looks up and one that waits; two hosts are what an answer can be confused with;
MaxRetry is the code's own 2; a single slot makes a socket that is not given back
fail the next run. `MaxPackets` = 1 reply is under way and one datagram in the socket at a
time, with a query of each host: a reply of the last run meets the socket of the next, which is
all that a late one can do, since the first datagram is the answer.

`parts`: a counter of 24 ticks with all 24 timeouts puts the wrap before, between and
after arming, end and reading. Two lists and three entries give lists in which
an entry is first, last, both or in the middle, and moves between lists. Two
threads on two cells with bursts of both lengths, one cell changed by the network,
make every pair of frames that could be mixed up. A byte of a size register has 4
values, a ring 8 cells and a pointer 16 values, so that chunks of 3 and 4 carry
from the low byte to the high one, lie across the end of the ring and wrap the
pointer. Timeouts of two magnitudes wrap a word of 16 or do not; an int fits an
octet or does not, and the caller's int is 0, small or has a second byte. Two threads resolve two names and one that is too long, on a heap of two
blocks. Words of four values in messages of up to three words and an odd byte, of which one
word is received, give sums that carry not at all, once and twice, and messages cut short.

Deadlock is checked except where the program may stop: after a fault (`pool_two_servers`,
`pool_anything` and the violation runs of the pool) and in `recv_threads`, where both
receivers may wait for bytes that never come (the interrupt that would tell them of
the end can be cleared by `wizchip_close`).

Violations. These runs state what a comment or the example says, and TLC shows
how the code departs from it; "findings" quotes the lines.

| run | claim | what happens |
|---|---|---|
| `pool_deaf` | a server always has a socket that listens | none, for ever, once its replacement could not be created |
| `send_two` | SOCK_BUSY means that the socket is busy with an operation | with two TCP sockets a bit of `sock_is_sending` comes back: one thread has loaded the word, another closes and opens its socket, the first stores; `send` on the new connection returns SOCK_BUSY for ever |

Other departures were met while modelling. The models reach them, the properties
above are stated so that they stay clear of them, and "hazards" names most of
their lines:

* `listen` on a UDP socket frees its service twice;
  `listen(fd, 0)` lets a client listen that the assertion of line 446 then refuses;
  `bind` on a listening socket leads to the port assertion; a client whose
  list entry cannot be allocated (line 260) stays on the chip as an orphan.
* `backlog` limits the connections that are open, not those that wait;
  `connect` on a socket already in use is reported as success; after a handshake
  timeout nothing listens; a connection that ends before the task has looked at
  it makes `accept` return -1; a closing sweep that meets a fresh server leaves
  it deaf with a counter above its backlog (`RyanW5500.c:53`).
* `recv` reports the end of a live stream to the second of two receivers,
  refuses the bytes that came before a FIN, may leave the poll counter at 0 with
  bytes in the buffer, and may sleep through a reset.
* `wizchip_recv` leaves its loop with the size of the whole buffer if the socket is
  SOCK_CLOSED when it enters (`wizchip_socket.c:462`), and `recv` returns bytes
  nobody sent: `MCRecvPath!ReturnsReceived` fails with one receiver and `Env` =
  `{"reset"}`. An interrupt raised between the reading and the clearing of Sn_IR is
  cleared unseen (`RyanW5500.c:233`) when another was pending: `ReceiverWokenAlone` fails
  with `Env` = `{"connectPending"}`.
* DHCP_run that fails after an OFFER leaves the offered address in
  `gWIZNETINFO.ip`, and it goes to the chip, which then uses an address that no server
  has leased (`RyanW5500.c:133`); `LeaseHeld` speaks of the leased states only.
* DNS: after a timeout the query is not sent again (`wizchip_dns.c:488`, `len` is 0 by
  then), though MAX_DNS_RETRY counts retries.
* `platformTimerRemain` reads one too many when end and present are both past
  the wrap (line 74), and expires early with a tick rate other than 1000.
* DHCP: an address declined in the last retry is configured; with a server that
  moves its reservation a stale ACK makes the client use the address taken back;
  when ARP to the server fails a renewal outlasts the margin of ten seconds.
* UDP: a datagram that comes under another's signal, or the rest of one, waits
  until the next datagram arrives, since `recvfrom` waits before it looks
  (`RyanW5500Socket.c:923`); a continuation names no sender.
* Settings: a static address set before the first look at a link that is up is shown
  and never written to the chip, and the masks of the sockets' interrupts stay closed
  (`RyanW5500.c:107`): `AddressTakenOver` fails with `Env` = `{"linkAtStart"}`. A DNS server
  is flagged before it is written (`RyanW5500netDev.c:71`). When DHCP is switched
  while an earlier setting is pending, device and task may differ in the mode. The
  test for a change of mode (`RyanW5500.c:66`) follows the assignment it should precede.
  While DHCP fails, the task serves no socket interrupts (`RyanW5500.c:203`), and while
  interrupts keep coming it does not look at the link. Two threads in the setters may
  lose each other's flag.
* Sizes: no property says that the loops of `w5500.c:190` and `w5500.c:206` end: while the
  chip keeps changing the size they may go on.
  0 is believed at the first reading, so a size that goes from 255 to 256
  between its bytes reads as nothing (`w5500.c:195`, `w5500.c:211`); a socket closed
  by another thread between the two readings keeps `getSn_TX_FSR` in its loop.
* A full table: `sock` is still NULL where the error path of `RyanW5500SocketCreate` reads
  `sock->socket` (`RyanW5500Socket.c:431`); a call that should answer EMFILE may end the program.
* DNS: queries all have the same number and replies are not matched to them, so the reply
  to a lookup that has timed out is taken for the answer to the next and the address of
  the other host is returned. `AddressIsHosts` names the hosts this can be; with `stale` left
  out TLC finds it violated.
* Options: of TTL and TOS one byte of the caller's int is written and `sizeof(int)` reported
  (`RyanW5500Socket.c:1328`); a keepalive of 1440 units is stored in one byte (160, 800 s, where the comment of
  `RyanW5500Socket.c:1102` has two hours); less than a millisecond becomes no timeout; seconds
  times 1000 wrap; `SO_SNDTIMEO` is never used; `getsockopt(SO_BROADCAST)` answers
  the socket's type; TTL and TOS of a hardware socket are inherited by the next
  descriptor; a membership that fails leaves the hardware socket closed; `bind` to
  another port leaves the group.
* Resolver: the static result of `wiz_gethostbyname` may be another thread's or torn,
  and `RyanW5500Ping` uses it; a name that is too long is looked up before its length
  is tested.
* Ping: id and sequence number are not compared and any ICMP message ends the wait; a
  request with checksum 0 counts as success; a timeout of 0 blocks for ever.
* DHCP is matched by server and MAC (`wizchip_dhcp.c:436`), and the address declined in the
  last retry is configured (`wizchip_dhcp.c:728`). Backlog 0
  lets a client listen all the same (`RyanW5500Socket.c:649`); data that comes with a FIN is
  refused (`RyanW5500Socket.c:881`).

### Fairness

`ListenPool!FairSpec`: the W5500 task waits at most a second for its event and
then handles every pending interrupt, so `HandleInterrupt(s)` is weakly fair; a
server thread calls `accept` again and again, so `Accept(v)` is. No call is
obliged to happen otherwise, and no peer to connect. `RecvPath!FairSpec`: the
task and the threads inside `recv` are scheduled; `Call`, `TimeOut` and the peer
are not fair. RT-Thread's scheduler serves equal priorities in turn, and the
waits of the driver are blocking kernel calls, which gives weak fairness for
threads that can run. `DhcpClient!FairSpec`: the task goes on (nothing in `DHCP_run`
blocks but bounded delays), and time passes: of infinitely many delays of 100 ms
some end a second, which is strong fairness of `Tick`. Servers and network owe
nothing; `RunEnds` holds though nobody answers. `SendPath!FairSpec`: each sending
thread goes on (and sends again), and the chip goes on with a command it has; a
connection need not fail. `DnsClient!FairSpec`: a thread inside `DNS_run` goes on and
its timer expires; `dnsMutexHandle` is a FIFO mutex, so a thread that waits for it
gets it in its turn, which is strong fairness of `Lock`; the network owes nothing. `UdpRecv!FairSpec`
is that of `RecvPath`. `NetTask!FairSpec`: the task goes on, its timer runs down (`Due`
is strongly fair: it is enabled again and again, each time the task is there a
second later), and a thread inside a setter finishes it; the link, DHCP and the
sockets owe nothing, and `LinkFollows` is about behaviours in which the sockets leave
the task time to look. `Ping!PingSpec`: the one thread goes on; the network
owes nothing.

## 4. What is proved

For every value of the constants (tables, backlogs, receivers, buffer sizes,
counter widths), with the assumptions named in the modules:

* `PoolTypeCorrect`, `PoolListsOwnTheirClients` (`ListenPoolProofs`), when malloc
  does not fail: `Spec => []TypeOK` and `Spec => []ClientListsOwn`. The inductive
  invariant is the conjunction of the two. Neither is inductive alone: closing a
  client writes to the server it names, which is a server only by `ClientListsOwn`,
  and what a call returns is a slot only by the types. The argument follows the call
  tree: a lemma per operator says that every outcome of it is a well-typed table in
  which clients and servers still own each other, or a fault; the actions then
  compose them. The hypothesis on malloc is needed: the orphan that a failing
  allocation leaves (`RyanW5500Socket.c:260`) is in no list.
* `ServiceNeverFaults`, `BacklogAlwaysAccounts`, `DescriptorsAlwaysKept`,
  `AcceptAlwaysGivesConnection` (`ListenPoolProofs`), under `Tame`: creations may fail and
  handshakes time out, backlogs are positive; malloc does not fail, `listen` is called once on
  a TCP socket that is not connected, and no setting sweeps the table. What the behaviours
  left out break is in section 3. `ServiceNeverFaults` says that no assertion fails, nothing
  is freed twice and the task finds its sockets; it leaves out the one read through NULL that a
  full table leads to under these hypotheses too (`RyanW5500Socket.c:431`), after which
  the program has stopped. `AcceptAlwaysGivesConnection` says of every entry that `accept` takes
  from the queue, whether it is returned or closed because its peer has gone, that it is a
  live client of that server and that the application does not hold it already. `ServiceInv`
  says that nothing else has failed and that, while the program runs, the table is `Good`: clients and servers own each other (as above); a client has its
  connect interrupt still to come exactly as long as its state is Listen (`SocketOK`); the
  backlog and the clients that have had one add up, at most one client waits, and the queue
  holds only clients of the server that the application does not have (`ServerOK`). None of
  the four properties is inductive without the others: an assertion fails in `listen` of a
  client when the counter is off, and the counter is kept because a client is replaced once.
* `QueueAlwaysHoldsUnaccepted`, `AlwaysOneListener` (`ListenPoolProofs`), under `Roomy(B)`:
  nothing fails, backlogs are at most B, and the table has a hardware socket for every client
  of every server and one more, because a client is replaced before its socket is freed.
  `QueueInv` adds to `ServiceInv` that the queue holds all that has not been given out,
  without a -1 (`Filled`), and that a free slot is there (`Full`, by counting the clients of
  all servers). From the same invariant `RoomyTableSuffices`: the table is never full when a socket is
  asked for and nothing is read through NULL (`TableSuffices`). `pool_deaf` shows that without
  the room `AlwaysOneListener` is false.
* `RecvTypeCorrect`, `RecvConservesBytes`, `RecvCopiesBacked` (`RecvPathProofs`):
  `RecvInvariant` adds to the types that a thread inside `wizchip_recv` is the one
  that holds the lock (`LockHeld`), and that the size it has read is no more than
  what the buffer holds (`SizeBacked`). `BytesConserved` alone is not inductive: the
  step that copies keeps it only because of `SizeBacked`, which survives other
  threads only because of `LockHeld`, and the peer only because the buffer grows.
* `EndAlwaysTrueAlone` (`RecvPathProofs`), about `MCSpec` when the lone thread is one of the
  receivers. `LoneInv` adds that the end, once noticed or signalled, has been reached
  (`EndNoticed`), and that what a lone thread has seen in the buffer stays there from its
  look at Sn_RX_RSR to its copy (`OnItsOwn`), so that it never waits in `wizchip_recv` nor
  copies nothing. With a second receiver `OnItsOwn` fails, and so does the property.
* `TimerTypeCorrect`, `TimerExpiresExactly`, `TimerRemainIsLeft`, `TimerNeverGrows`
  (`PartsProofs`), when RT_TICK_PER_SECOND is 1000: the
  invariant ties `elapsed` to the distance from the arming to the present tick around
  the counter.
* `DhcpTypeCorrect`, `DhcpRetriesLeft` (`DhcpClientProofs`), for any number of servers
  and any times: types alone are not inductive, because the count of retries is
  bounded only by the test that follows its increment. `RetriesLeft` (a run that goes
  on has a retry left) is the strengthening, and by itself says that no pass of the
  loop begins with the limit reached.
* `LeaseAlwaysHeld` (`DhcpClientProofs`), under `MarginOutlasts(Low)`: leases are of `Low` ticks at
  least, no less than the delay of a reply and four more, and the timer counts `Low` at most; the margin outlasts the timeouts of all retries
  with their ARP, the second until the task looks at the timer again, and the delay of a reply;
  no server changes the address it offers. With the code's own constants (timeouts of one
  second, 8 retries, a margin of 10) the one on the margin is met exactly: without ARP
  failures and with replies that come within the second. `HeldInv` bounds what the server
  still promises from below by what the run may still take (`Lasts`; `Todo` counts it down),
  and ties the client's timer to it up to the delay (`Backed`); an ACK under way is backed
  but for its age (`NetBacked`), and the offers that could arm the timer with a lease nobody
  granted are gone when half of a lease is over (`NoOffers`).
* `SendTypeCorrect`, `SendOverwritesNothing`, `SendDatagramLeft` (`SendPathProofs`), for
  any number of sockets: `SendInv` says of each socket that the length its thread
  holds still fits (`RoomLeft`: between the reading of the free size and the writing
  only the chip touches the buffer, and only empties it), and that a datagram, its
  command and its interrupt exist only while its thread is in `wizchip_sendto`
  (`DatagramOK`). A step of one socket leaves the others alone (`OneSocket`), so the
  proof is a lemma per action about one socket.
* `LoneSocketSendsOnce`, with one TCP socket and any number of UDP sockets: the
  invariant `MarkInv` says that a socket is quiet wherever its thread takes it to be,
  past the check of `sock_is_sending` or anywhere with the bit clear. The hypothesis
  cannot go: with two TCP sockets another thread's store changes the bit, which is
  the race `send_two` shows.
* `DnsTypeCorrect`, `DnsSocketGivenBack` (`DnsClientProofs`): `DnsInv` ties mutex, socket and
  place of the threads together. `DnsAddressIsHosts`, without any hypothesis on the network: what
  is under way or received is about the host that is being asked for or one that was under way
  when the socket was opened (`Matched`), which survives because the socket starts empty and
  one thread asks at a time. With nothing under way then, the address is the host's; in
  general it is not (section 3).
* `ListsStayLinked`, `ListTypeCorrect` (`PartsProofs`), for any heads and entries. The
  invariant `ListInv` says that the head of every list and its entries form a ring
  (`Ring`: next and prev are inverse and stay inside), that pointers that are not zero
  lead to nodes whose pointers are not zero (`Closed`), and that the loop stands on such
  nodes (`LoopOK`). `Linked` alone is not inductive: a deletion writes to the neighbours the entry
  names, also when those have been deleted since. `InsertRing` and `DeleteRing` say what
  `_RyanListAdd` and `_RyanListDel_entry` do to one ring and to those disjoint from it; the operations
  compose them.
* `BusHasOneOwner`, `BusImplementsRegisters` (`PartsProofs`), for any threads, cells, contents
  and lengths: `BusInv` says that a thread between select and exit is the one that
  holds the bus, that outside a frame the chip is deselected, and that in the data
  part the chip has that thread's address and direction. From it every step maps to a
  step of `RegisterFile` or to a stutter: the data burst carries out the request, all
  else changes nothing that counts. This is a refinement for every value of the
  constants; the run shows it for two threads. Without the lock it fails, which is the
  mutant.
* `LoopAlwaysVisitsOnce` (`PartsProofs`), for lists of any length: besides `ListInv`, a list is
  `Whole` (no proper part of it is closed under next), so that a loop that comes back to the
  head has met every entry; `LoopAt` says that the entries met and the head are closed but for
  the entry the loop stands on, and that the entry it has loaded ahead is the next one.
* `ListImplementsLists` (`PartsProofs`), for any heads and finitely many entries: `ListSpec`
  implements `ClientLists`. `SequenceInv` adds to the invariants above that every list has an
  order, a sequence that holds each of its entries once and in which next leads from the head
  through all and back (`Leads`). There is only one (`OneOrder`: two would differ at a least
  place, and next is a function), so that `Lists` is determined, and an addition at the head
  or the tail and a deletion from anywhere can be read off the pointers (`AddedAtHead`,
  `AddedAtTail`, `RemovedAt`); what is done to one list leaves the order of the others alone.
  The lemmas that walk along a list are inductions through the least number at which they
  would fail.
* `SizeAlwaysTrue`, `BytesAlwaysInOrder` (`PartsProofs`), for any base of a byte, ring and pointer:
  `BufferInv` keeps, of a size that is being read, that its bytes are those of sizes that
  followed one another (`SizeRead`: of two mixtures that agree, the first is a size), and where
  the bytes of the stream lie in the ring, across its end and across the wrap of the pointer
  (`InRing`, `AtHand`, `InMoved`).
* `OptionsAlwaysKept`, `ResultsAlwaysOwn` (`PartsProofs`), for all option values, contents of the
  caller's int (of which one byte is written, `ByteIsWritten`), threads, names and blocks: the fields of a descriptor and its socket's registers agree with what its owner
  asked for (`Agrees`); every block of the heap belongs to one result (`Owned`).
* `ChecksumAlwaysExact` (`PartsProofs`), for words of any width, messages of any length and
  requests shorter than a word has values: W being the number of values of a word, a sum s is W a + b, and a + b is s
  up to multiples of W - 1. Because what is received of a message is no longer than a request (`ReceivedFits`, `SumBounded`: s is at most W W - 2), a + b
  stays below 2 (W - 1), so that adding the carry once gives all ones exactly for the multiples
  of W - 1 other than 0 (`AllOnes`). `PingInv` says that a request sent has the checksum
  computed for it; it is right if a + b is below W (`WithComplement`).
* `InterruptNeverMissed` (`NetTaskProofs`): `Basics` says that with an interrupt pending and the
  masks open, the pin has fallen after the flag of the event was last cleared, unless the task
  is reading SIR until it is empty.
* `AddressesTakenOver` (`NetTaskProofs`), when `"linkAtStart"` is not in `Env` (with it the property
  fails, section 3): `AddressInv` says that no load and store of `netDevFlag` loses the flag of
  an address (`InfoKept`), and that an address differs from the chip's only while a flag is
  pending or the pass is under way (`Written`, `IsShown`). `ModeAlwaysTakenOver`: the same for
  the DHCP mode; `ModeKept` says that the bit of the other mode is nowhere, neither in the word
  nor in a copy of it. The condition that calls do not come before earlier settings have been
  taken over (`hurried`) is in the property.
* `UdpTypeCorrect` (`UdpRecvProofs`), for any number of receivers; `ReadingAlwaysAligned` and
  `UnreadAlwaysAccounted` for one, since two share `sock_remained_size` without a lock (section
  3). `PlaceInv` says that what is stored is contiguous, that a header begins at the read pointer
  when nothing remains (`Aligned`), and otherwise whose rest lies there (`Begun`). `AccountInv`
  is sharper than the property: a signal counts once on its way from the interrupt to the
  event, and a call only until it has read the last byte; otherwise a call that has just
  finished a datagram would count for the next.
* `RecvFromImplementsQueue` (`UdpRecvProofs`), for one receiver: each step of `UdpRecv` is a step
  of `DatagramQueue` or changes nothing of it. `QueueInv` adds to `PlaceInv` that the datagrams
  lie behind one another in the order of `grams` (`InOrder`) and that nothing remains behind a
  header that was read only when its datagram is empty (`EmptyBegun`). From it the datagrams that
  still wait are those from the read pointer on (`HeadDone`, `SomeAreDone`), so that the queue is
  what lies behind the first k (`QueueIs`). A header that is read changes neither k nor what is
  left of any; the copy of the bytes is `Receive` (`PayloadIsReceive`), a datagram stored is
  `Arrive`, closing the socket is `Flush`.

Three things came out of the attempts at these proofs. `VisitsOnce` had been
checked with an entry appended during a loop that the loop had already deleted, but only with
three entries; with five it failed, and `RyanListAddTail` now takes an entry that the loop has
not met, as the task does, which appends what it has just allocated. `LeaseHeld` needs that
no server changes its offer: with two addresses and one of them taken, a late ACK for the
address declined is taken for that of the next one, because neither the transaction id nor
the address of a reply is compared (`wizchip_dhcp.c:436`); TLC then finds the property violated after
24 steps. And with the code's own constants and an ARP that is not answered `LeaseHeld` fails
as well (59 steps): the client renews with a lease that has run out.

Checked with TLC only: the liveness properties (`ConnectionServed`, `ReceiverWokenAlone`,
`ArrivalWakes`, `RunEnds`, `BusyEnds`, `LookupEnds`, `LinkFollows`, `PingEnds`), which need
ENABLED and fairness.

## 5. Not modelled

* Logging and formatting. Commands to the chip are taken to succeed (`wizchip_close` ends
  in SOCK_CLOSED). The branches of `w5500.c` that send single bytes are dead, since the
  port registers bursts.
* The interleavings inside `wiz_closesocket`, `RyanW5500SocketCreate` and
  `RyanListenServiceAddClient`: two closing threads, a task that uses a socket being
  destroyed, `accept` on a queue that is deleted. `ListenPool` takes each call for a step;
  what a deleted queue or a freed service does afterwards is the kernel's.
* `RyanW5500LinkCheck`, which refuses calls while the link is down, and the
  failures of `rt_mq_create` and of the `serviceInfo` allocation, which return
  before anything has changed.
* The branch of `wiz_accept` for RT_VER_NUM >= 0x50001 (line 703), whose meaning
  depends on what the kernel's `rt_mq_recv` returns.
* `wiz_poll`, which reads the counters; registration with netdev and SAL; the parts of
  `wizchip_conf.c` that set up the PHY and dispatch by number; `w5500.h`, addresses and
  macros; the example. Together these are more than a third of the repository's lines.
* Options whose code is the same refusal, the options of a socket in use by another
  thread.
* DHCP: the bytes of the messages, the options subnet, router and DNS server
  (copied as the address is), the hardware socket that `DHCP_run` takes from the
  table for its duration.
* Send: several threads that send on one socket, raw sockets, broadcast addresses,
  the errors of a send as poll events.
* DNS: the bytes of a message (`parse_name`, `dns_makequery`), and the port of the socket.
* UDP: a socket closed under a receiver by another thread; ping: the same.
* Ports are not told apart beyond equal and different; `wiz_port` is constant.

## 6. What could follow

1. `SocketRace`: creation, destruction and `RyanListenServiceAddClient` step by
   step with `socketMutexHandle`, two closing threads and the task; `accept` on a
   queue that is deleted.
2. `ListenService`, the abstract server (a set of connections that wait, are open
   or are free, and whether one can arrive), implemented by `ListenPool`; an
   abstract byte stream implemented by `RecvPath` and `SendPath`.
3. `parse_name` against a reference decoder.
4. Theorems about these refinements, step by step, and the argument for the liveness
   properties with rankings, of which the safety part (a step never raises the rank) can be
   proved.
