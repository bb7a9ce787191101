# A TLA+ model of the eltex programs

The repository is a collection of small C programs: socket servers, ICMP
tools, a terminal file manager and Linux kernel modules. They share no code,
but each has a core that is hard to test: threads and System V queues, a mutex
whose owner is cancelled, an event loop over reused descriptors, netfilter hooks
that run on every CPU, two processes that wait for each other without a timeout.
There is one module for each such core, `MC` modules and `.cfg` files for TLC, and a
module of proofs for each core (the smaller programs share one). Paths below are
relative to `src/`.

## Inventory

| component | source | state | operations | interacts through | what makes it correct |
|---|---|---|---|---|---|
| UDP time server | `udp_client_server/main.c` | `running`, `state`, one shared `msgbuf`, two System V queues, worker buffers | start-up, a three-state machine, worker loop, shutdown, signal handler | queues, signals, the socket; the queues survive a crash | each request answered at most once, to its sender; nothing lost unnoticed; shutdown ends |
| file copy | `text_manager/copy.c` | mutex, condition variable, `percent_coplete` | `copy`, `_copy`, `show_progress` | three threads, cancellation | whole file copied, `copy()` returns, one thread draws at a time |
| file manager | `text_manager/{navigate,print_files,ui,main}.c` | two panels with path, region and line; entry array; working directory | one per key, `print_files`, `clear_path`, `popup` | shared array and working directory; other processes change directories | cursor on an entry, array of the focused panel, ENTER enters what was selected |
| UDP time client | `udp_client_server/main.c` | `running`, the server's address | send, receive, signal handler | the socket | an answer or a lost datagram ends each wait |
| event loop | `select_poll_epoll/main.c` | select: `rset`, `tset`, `max`; poll: `pfds`, `nfds`; epoll: the set in the kernel | wait, scan, accept, recvfrom, recv, disconnect | peers connect, send, close and reset at any time | all open descriptors watched, the thread never blocks, nobody starves, all builds give one service |
| ping, traceroute | `ping/main.c`, `traceroute/main.c` | `seq`, `total` | send, wait with timeout, filter, print | raw sockets that each get every packet | answers belong to the process and the round; rounds end |
| DNS proxy | `core/netfilter/proxy_server` | `dns_tree` | `hook_in_packets`, `hook_out_packets`, `search`, `insert`, `create_packet` | hooks on all CPUs, no lock | one fate per query, stable cache, nodes accounted for |
| ioctl device | `core/ioctldev` | `Device_Open`, `msg`, `msg_ptr` | open, release, read, write, three ioctls; client `main.c` | processes, no lock | one opener, whole messages |
| proc file | `core/procdev/procfs.c` | `msg`, static `f_read` and `f_write` | load, read, write, unload | processes, no lock | end of file is reported to the reader it belongs to |
| netlink programs | `core/netlinkdev/netlink_kernel` | the ports sockets are bound to | one request, one reply, load, unload | kernel socket, module use count | the reply reaches the requester |
| route monitor | `core/netlinkdev/netlink_rt` | a stack frame | one dump, printed row by row | kernel socket | a row is one route |
| port block | `core/netfilter/port_block` | loaded or not | load, hook, unload | netfilter | what it drops, its clients wait for |
| echo programs | `udp_tcp_client_server`, `sctp`, `pipe`, `raw_socket`, `broadcast_multicast` | socket buffers | send, receive, echo, close | streams, datagrams, fork | neither side waits for ever |
| sniffer, raw socket, kernel ping | `sniffer`, `raw_socket`, `core/netfilter/ping` | one packet | checksum, send, verify | raw sockets, the kernel's own checksum | the checksum verifies |
| daemon | `daemon/main.c` | - | fork, detach, sleep | - | sequential start-up |
| chat | `chat_tcp/main.c` | - | - | - | does not compile as it stands |
| credential demo | `core/shadow` | - | - | - | out of scope |

`PROJECT.json` lists every component with its status, and under `hazards` each
place where the code is exposed to interleaving, failure, staleness or a limit,
with the properties that watch it.

## Modules

Conventions: one action per step another actor can observe; a result the code
ignores is a disjunct; a value the code never initialises is a choice; variables
marked `history` exist for the properties only and no action's guard reads them
(the exceptions are `started` and `arrived`, which say that a client sends a datagram
once). An operator whose
comment begins with *Mutant* is a wrong version of the definition after it. No
action uses it; it is there to be put in place of that definition and to show
that a property notices.

**UdpTimeServer.** `mpc` is the place of the main thread in `server()`, `state`
its `state`, `wpc` that of each worker. `Receive`, `Timeout`, `SendReply`,
`EmptyQueue`, `SendStale` and `ResponseHandler` are the cases of the switch.
`msgrcv` and `msgsnd` are modelled from their use: type 1 only, a capacity, and
the errors the code does or does not look at. `Signal` runs the handler between
calls; the `Interrupt` actions also make the call a thread sleeps in fail.
`Crash` ends the process and leaves the queues; `Boot` may find them. The ghost
field `r` of a message names the request it descends from. The requests of `Reqs` are the
ones that are followed, each sent once; `ArriveOther` puts any number of other datagrams
between them, which the server treats alike. Uninitialised:
`socklen` before the first `recvfrom`, and a worker's buffer when its first
`msgrcv` fails; the model gives the latter any type word and no client's address.

**ReplyService** is what that server promises about each request, without threads,
queues, buffers or restarts: the request is new, pending, and then answered, refused or
lost for good, a reply goes to its sender or to nobody, and only a server that is
"failing" loses requests, or repeats one. `UdpTimeServer` instantiates it as `Service`:
`Fate` computes what has become of a request from the places that hold a message
descended from it, `Answers` are the replies in `sent` without their texts, and `Mode`
is "failing" once the first process no longer serves with both queues (`FirstServes`): it
was told to stop, left the loop of `server()`, crashed, or got no queue from `msgget`.

**CopyProgress.** `Start` contains the `pthread_mutex_unlock` of `copy.c:115`,
which frees the mutex whoever holds it. `CancelledInWait` and `DieInWait` are the
two halves of a cancelled `pthread_cond_wait`: the mutex is taken back, then the
thread ends with it. Percentages are "unset", "below" and "100"; a file is a
number of whole blocks and perhaps a shorter tail. In the current `navigate.c`
the key `y` leaves its case before the call of `copy()`, so the model's caller is
anybody who uses `copy.h`.

**ConnService** is the service a TCP client gets from the event loop, without
descriptors or scans: a connection is queued, served and released, its segments
are consumed one at a time while it is served, and it is released only when its
client has ended it and nothing is unread.

**EventLoop** is the loop itself, in the three builds the preprocessor offers
(`build`; `pselect` and `ppoll` differ from `select` and `poll` in no way the model
sees). `Wait` and `Poll` compute what is ready, the scan visits one descriptor or
slot per step, and peers act between any two steps. `accept` takes the lowest free
descriptor, so closing and accepting in one scan may reuse a number. The slots of
`pfds` move down when a connection is closed; a new slot has a `revents` nobody has
written. `epoll_wait` reports no more than `MaxEvents` of what is ready (`Batches`; the
descriptor of `epoll_create` counts among the inherited ones). `accept` may fail at any
time, not only when descriptors run out: `AcceptFails` hands -1 to `epoll_ctl`, which
refuses it; to a slot that is never freed and that `poll` passes over, its descriptor
being negative (a slot past the end of `pfds` ends the behaviour, "smashed"); or to
`FD_SET`, which sets `StrayBit`, 63 where a long has 64 bits. Once `max` has reached that
bit and no descriptor has its number, `pselect` fails with EBADF and leaves `tset` what
`rset` is, line 183 takes -1 for a count, and the scan visits everything watched
(`WaitFails`, "blind"). `Service` instantiates `ConnService` with
`phase` computed from the client's state and the connection's descriptor, `unread`
the kernel's receive buffer, and `ended` whether the client has closed or reset.

**Navigate.** One action per key, each ending with the `print_files` that ends
the loop's body. `file_count` is the index of the last entry, as in the code. An
element of `d` that was never written is `Junk`; printing or following it ends
the program or happens to work (`Survives`). `Change` is another process; `stale`
marks a panel whose directory changed since its path was set.

**IcmpTools.** Processes of both kinds on one host. `Answer` is what the network
returns to a request, `Deliver` gives a packet to every raw socket and may
duplicate it, and a lost packet stays in `net`. The ghost fields `by` and `round`
name the request an answer belongs to. `tmp_timeout` is what `select` has left of a
round's time: `SendTo` sets it, `Tick` counts it down while the socket is empty, a
`continue` leaves it as it is (`Ignore`), and `Timeout` needs it used up and nothing to
read - a socket that is ready is read whatever the time. `Foreign` is a packet of another
host, which arrives any number of times; only how many wait in a socket is bounded.

**DnsProxy.** The tree is the set of names `search` finds. A slot is the gap
between two neighbouring names: `InDescend` remembers which names it saw, `InLink`
writes the slot. Names that came into the gap meanwhile are overwritten, or kept,
or the new node ends where no search looks - the outcomes of unlocked
`rb_link_node` and `rb_insert_color`. A walk during somebody else's rebalancing
may miss names (`Seen`). A response is any UDP datagram from port 53: the code does not
ask whether a query for its name was passed on, and neither does the model. Left out: packet layout, TTL values (the code never
compares them), and queries whose source port is 53, whose reply the outgoing
hook would take for a query.

**DnsService** is the same for the proxy, without hooks, CPUs or nodes: a query is
answered or passed on, and answered only with the address that was known for its name
when it came; while no two responses were handled at once ("calm") a name is learnt once
and never forgotten, so that address still is what is known. It promises nothing about
where an address comes from. `DnsProxy` instantiates it with `Fate` for each query,
`Due` for the address a CPU is about to answer with, `cache`, `answers` and
`~ overlapped`.

**IoctlDev.** `Device_Open++` and `--` are a load and a store; the test of
`device_open` is a step before them. Messages are copied byte by byte, twice for
`IOCTL_SET_MSG`. A message of `BUF_LEN` bytes has no zero byte, and what lies
behind `msg` is `Junk` or zero. A process may be killed between two calls, and
the kernel then releases its file.

**ProcDev.** `procfile_read` copies, tests `f_read` and returns in separate steps;
`procfile_write` tests, copies and sets `f_write`. Readers are programs like `cat`, or
`head`, which stops after a chunk. A copy during a write, or two first writes at once,
may give a mixture. Unloading waits for calls in progress.

**StreamPairs** joins a sender and a receiver by bounded buffers: the TCP pair, whose
client has its `recv` commented out, the SCTP pair, and the parent and child of
`pipe/main.c` with the copies of the writing end that `fork` makes. Either process may
be killed.

**UdpPairs** is a client and a server that repeat nothing, over a network that loses,
duplicates and reorders: the echo programs, the time client, the raw socket pair and
the broadcast pair. `m_filter_port` of `port_block` decides what `Deliver` drops, and the
module is loaded and unloaded at any time. A stranger's datagram redirects the echo
client, because `recvfrom` writes into the address it sends to.

**Netlink.** `SendMsg` binds the socket by itself, to the process's pid if that is
free; the handler then runs within `sendmsg`, and `Unicast` addresses the number found
in the request. Two processes may have the same pid in two namespaces.

**RouteDump.** One datagram of a dump, message by message and attribute by attribute.
`rt_info` is the stack frame that `print_route` does not clear.

**Packets.** One packet from its maker over the wire to the sniffer and the host that
answers. A header is the sum of its 16-bit words, the only thing the checksums depend
on; `Fold`, `Checksum` and `CheckSum` are the functions of the code, with `sum`'s
uninitialised start as a choice, and the reference is divisibility by 65535.

**MCPrograms** puts the last six modules into one state space: a behaviour is one of a
single program, chosen in `ProgramsInit`, and the others keep an initial value.
**MCKernelModules** does the same for `DnsProxy` and `IoctlDev`, whose specification is
named `DevSpec` for that reason.

The type invariants of the modules document what the variables hold, and are proved in
the modules of proofs. Those extend the module they are named after and add no model of
their own: a step there is a step of the module TLC checks.

## Runs

| run | bounds | states | shows |
|---|---|---|---|
| `udp_threads` | 2 workers, 2 requests of 2 clients, queues of 1 | 221 k | `NothingLost`, `RepliesAreTimes`, `RepeatsOnlyOnFailure` |
| `udp_restart` | 1 worker, 2 requests, queues of 1, 2 processes | 611 k | `AtMostOnce` across a crash; `ShutdownEnds`; the refinement `ImplementsReplies` |
| `udp_flood` | 1 worker, 1 request, other datagrams without end, of which 1 waits in the socket at a time, queues of 2, 1 process | 155 k | `QueuedIsAnswered` |
| `copy_calls` | 2 calls, files of up to 2 blocks, 1 spurious wake-up | 43 k | `ExclusiveWindow`, `QuiescentCopyReturns`, `StuckOnlyByOrphan`, `ProgressEnds` |
| `copy_hang` | 2 calls | violation | a second `copy()` may never return |
| `event_loops` | 3 builds, 2 connections of 1 segment, 4 descriptors of which 0 or 1 is inherited, the last of them the stray bit, `POLL_MAX` 4, `MAX_EVENTS` 2, a backlog of 2, 1 datagram | 103 k | `InterestExact`, `BlocksOnlyUntold`, `ReadyIsServed`, `QueuedIsAccepted`, and the refinement `ImplementsService` |
| `navigate_keys` | panels of 3 lines, listings of 2 to 7 entries, 2 outside changes | 252 k | `CursorOnEntry`, `ArrayIsFocusedPanel`, `EndsByQuit` |
| `navigate_enter` | the same | violation | ENTER in a scrolled panel enters an entry it did not test |
| `icmp_tools` | 1 ping, 1 traceroute, route of 2, 2 rounds each, 1 duplicate, foreign packets without end, of which 1 waits in a socket at a time, a timeout of 1 tick | 539 k | `ReceivedAtMostSent`, `OwnRepliesOnly`, `AnswersMatchRounds`, `PrintsTheRoute`, `RoundsEnd` |
| `kernel_modules` | proxy: 2 CPUs, 2 names, 2 addresses, a query for each name, 3 nodes; device: 2 runs of `main.c`, 1 writer, buffer of 2 bytes | 1.2 M | `LeaksNeedOverlap`, the refinement `ImplementsDns` (proxy); `HoldersCounted`, `GetReturnsMessage` (device) |
| `programs` | 2 readers, 2 writers; buffers of 2; 2 extra datagrams; 2 netlink users, 2 pids; 3 dumps; 6 sums, 5 uninitialised words | 90 k | `OneChunkEach`, `ReadersEnd` (proc file); `NobodyStranded`, `EchoJams`, `PairEnds` (streams); `OneOutstanding`, `AnsweredOrLost` (datagrams); `OwnAnswerWaits`, `RequestsAnswered` (netlink); `RowsAreRoutes` (routes); `EchoNeedsCleanField` (packets) |
| `sniffer_verdict` | the same | violation | the sniffer says "Wrong checksum" of a header nobody has changed |

`AddressedToSender` is part of what `ReplyService` says of replies, and `OneFate`,
`AnswersAgree` and `CacheStable` follow from `DnsService` (no query is ever "both", and in
calm a name is learnt once and answers give what is known), so the two refinements check
them; they are stated for themselves in the proofs.

Why the bounds are enough for the cases they are meant for. A queue of one slot makes it
full with two requests, so the drop of line 131 and a worker blocked in `msgsnd` both
occur. In `udp_flood` other datagrams fill the socket and both queues again and again,
so the request that is followed waits behind them, may be dropped, and its reply waits
with theirs. Two calls of `copy()` are what a left-over progress thread needs. Two
connections over one or two free descriptors make the table full and reuse a number, and
four slots overflow after two or three failed accepts, while one is survived; the stray
bit is a descriptor that is free, becomes a connection's and is free again; a batch of
two leaves a third ready descriptor out. A panel of three lines with listings of up to
seven entries scrolls by line and by page, fits, and overflows. Two rounds let a late
answer reach the next one; a tick of the timeout passes, or a foreign packet comes
first, and is read with the tick left or with none. Two CPUs and two names in one gap
give every race on a slot, and a third node leaves one in the tree while two race. One
message fills the device's buffer and the others do not, so both a shorter message over
a longer one and a missing zero byte occur. In `programs`, a buffer of two units fills
in both directions; two extra datagrams are one duplicate and one of the stranger; two
users meet on one pid or do not; the dumps hold a route with all fields, a default route
after it, another table, an unknown message and a second datagram; the sums and
uninitialised words lie on both sides of each carry of 16 bits.

Deadlock is not checked where the program really may stop: a server whose
workers cannot be woken or that was shut down, a `copy()` nobody calls, programs
that quit, bounded clients that have finished, an event loop that has overrun
`pfds` or sleeps in a fresh slot or a blind scan, two echo programs that jam. For the event loop and
the small programs the liveness properties say when this may happen.

**Fairness.** `FairSpec` assumes only that a thread or process which can take a step is
scheduled (weak fairness of each thread), and that timers expire: the receive timeout of
the UDP server and the `select` timeout of the ICMP tools are steps of the thread that
waits, and can be taken only while there is nothing to read. For epoll it also says that
a ready descriptor is in a batch again and again (strong fairness): the kernel moves what
it has reported to the end of its list. The fairness assumes nothing
of clients, peers, signals or spurious wake-ups. What a property needs of them it says
itself: `QueuedIsAnswered` has the premise that the receive timeout expires again and
again, that is, that the traffic pauses for a second now and then (without it TLC finds
the starved reply: a datagram within every second keeps `server()` in `recvfrom`), and
`RoundsEnd` says that the only round without an end is one whose every look finds a
packet it does not want; `QueuedIsAccepted` has the premise that in the end `accept` fails
for want of a descriptor only. `udp_flood` has one worker: which of several senders asleep in
`msgsnd` goes first is the kernel's affair. Nothing is assumed of the network either,
with one exception: in `programs` a datagram does not stay on its way for ever,
it is delivered or lost. There, opening a file, loading and unloading modules, stopping
and killing are nobody's duty either. In `copy.c` both the mutex and the condition
variable are only as fair as that.

**What holds only conditionally.** Several properties carry the condition under which
the code keeps them, because without it the model violates them: a repeated reply needs
a failed `msgrcv`; a reply leaves only if a worker survived the start and the traffic
pauses; the copy's mutual exclusion needs the previous progress thread to be
dead; the cursor needs a readable, unchanged directory; matching answers needs no
timeout and no duplicate; the DNS cache needs `hook_in_packets` on one CPU at a time;
the device needs opens that do not overlap; the event loop may sleep in the slot of a
connection just accepted (poll) or in the scan after a failed select; the proc file needs readers that come one at a
time, read to the end, and find a message; a netlink answer needs memory and a pid of
one's own; a row of the route table is the route's own only in the fields the route has;
the kernel ping is answered only if the memory of its checksum field was zero. The
conditions are stated in the properties, and each is an assumption a user of the code
has to make good.

**Disagreements with the repository's own text**, each a run of its own:

- `copy.h:12-13` promises a copy of the file. `copy()` may hang (`copy_hang`).
- `navigate.c:100` asks whether a directory is selected; the test looks at another
  entry than the one that is entered (`navigate_enter`).
- `main.c:221` of the sniffer prints "Wrong checksum" for headers whose checksum is
  right (`sniffer_verdict`), and shows the others; the theorem `VerdictUpsideDown` says
  of every header, and of every value the uninitialised `sum` may hold, which it does.

Others were seen and have no run: `copy()` loses the tail of a file whose size is no
multiple of 1024, because `fread` of one block returns 0 for a shorter one, although the
status becomes 100; `global.h` says that `current_line` lies between
0 and the window's height, but in an unreadable directory it goes down to -2;
`main.c` of the file manager says files are placed into the array and printed, but
the last entry of a directory is never shown; `clear_path` moves a panel to the
process's working directory when `chdir` fails; the TCP echo pair always deadlocks unless a process is killed (`EchoJams`).

## Proofs

Each module that TLC checks has its safety properties proved as well, for every value of
its constants: any number of clients, workers, descriptors, CPUs, entries or messages,
any capacity, any number of crashes or duplicates. A proof is one inductive invariant
`IInv` (`ProcInv`, `StreamInv`, `PairInv`, `NetlinkInv`, `RouteInv` and `PacketInv` in
`ProgramsProofs`), the facts that `Init` implies it and every step keeps it, with one
lemma for an action or a group of actions, and the theorems read off it. Actions about a
sequence, a queue or a sum rest on lemmas at the head of the module.

| module | theorem | states |
|---|---|---|
| `UdpTimeServerProofs` | `TypeCorrect`, `RepliesGoHome`, `AnsweredOnce`, `LostOnlyWhenFull` | `[]TypeOK`, `[]AddressedToSender`, `[]AtMostOnce`, `[]NothingLost` |
| | `OnlyTimesAreSent`, `RepeatsExplained` | `RepliesAreTimes`, `RepeatsOnlyOnFailure` |
| | `Refinement` | `ImplementsReplies`: the server, with its crashes and restarts, implements `ReplyService` |
| `CopyProgressProofs` | `TypeCorrect`, `WindowExclusive`, `MutexNeverStray` | `[]TypeOK`, `[]ExclusiveWindow`; the mutex is free, held by a thread that is inside, or lost with a dead one |
| `EventLoopProofs` | `TypeCorrect`, `WatchesWhatIsOpen`, `NoOtherBlock` | `[]TypeOK`, `[]InterestExact`, `[]BlocksOnlyUntold` |
| | `Refinement` | `ImplementsService`: each build implements `ConnService` |
| `NavigateProofs` | `TypeCorrect`, `CursorStays`, `ArrayFollowsFocus`, `OnlyQuitEnds` | `[]TypeOK`, `[]CursorOnEntry`, `[]ArrayIsFocusedPanel`, `EndsByQuit` |
| `IcmpToolsProofs` | `TypeCorrect`, `CountsBounded`, `RepliesOwn`, `RoundsMatch`, `RoutePrinted` | `[]TypeOK`, `[]ReceivedAtMostSent`, `[]OwnRepliesOnly`, `[]AnswersMatchRounds`, `[]PrintsTheRoute` |
| `DnsProxyProofs` | `TypeCorrect`, `FatesExclusive`, `OneAddressPerName`, `OnlyRefusedLeak`, `CacheNeverForgets` | `[]TypeOK`, `[]OneFate`, `[]AnswersAgree`, `[]LeaksNeedOverlap`, `CacheStable` |
| | `Refinement` | `ImplementsDns`: both hooks on any number of CPUs implement `DnsService` |
| `IoctlDevProofs` | `TypeCorrect`, `CounterRight`, `WholeMessages` | `[]DevTypeOK`, `[]HoldersCounted`, `[]GetReturnsMessage` |
| `ProgramsProofs` | `MessageOnce`, `EndIsSeen`, `OneRequestOut`, `AnswerIsThere`, `OneRowPerRoute`, `VerdictUpsideDown`, `AnswerNeedsCleanField` | `[]OneChunkEach`, `[]NobodyStranded`, `[]OneOutstanding`, `[]OwnAnswerWaits`, `[]RowsAreRoutes`, what the sniffer says of every header (`VerdictOfSum`), `[]EchoNeedsCleanField`, each for the program's own specification (`ProcSpec`, `StreamSpec`, `UdpSpec`, `NetlinkSpec`, `RouteSpec`, `PacketSpec`) |

`Spec` has no fairness in it; `FairSpec` implies `Spec`, so all of this holds for the
runs with fairness too.

**Why the properties are not inductive, and what is.**

- *UDP time server.* `AddressedToSender` speaks of what was sent only. A reply comes out
  of a queue, got there from a worker's buffer, and that from the other queue, so `IInv`
  types every place a message can be. Two conjuncts are less obvious: while `socklen` is
  unset, `req` holds no client's address, which makes the first `recvfrom` harmless; and
  without a request queue no worker's buffer descends from a request, so a worker that
  keeps re-sending then repeats nobody's request. `AtMostOnce` and `NothingLost` are two
  sides of one argument: a request is in one place at a time, and a step leaves its copy
  there, moves it (`Moved`) or removes it (`Removed`), where a copy that goes without an
  answer is a counted drop. `Journey` adds `Known` (no place holds a request that has
  not arrived) and `Valid` (a worker's buffer with a request in it would be accepted by
  `msgsnd`), without which a failed call would lose one. The refinement adds what a fate
  must not do: a request that has arrived and is nowhere never comes back (`NoReturn`),
  and one whose datagram was dropped is nowhere (`Refused`). With these a step settles
  at most the requests it moves, `AtMostOnce` makes "answered" final, and `NothingLost`
  says that a serving process loses none.
- *File copy.* Outside the mutex's owner nothing is known of the threads until the
  invariant says where the owner can be (`OwnerPlaced`) and who owns it inside
  (`InsideOwns`). `Flow` gives the phases of a call: which of the three threads exist in
  each. `MutexNeverStray` is the part of `StuckOnlyByOrphan` that is a safety property.
- *Event loop.* `InterestExact` needs the descriptors apart (`FdsApart`), each with one
  slot and no slot for others (`Slots`), and that `rset` holds besides them at most the
  stray bit (`OneBuild`); `BlocksOnlyUntold` needs that what a wait has found and is
  still to be visited in a scan can still be read (`Marks`), although descriptors are
  closed and reused in the same scan. The refinement maps every action of the loop to an
  action of `ConnService` or to a stutter, given these invariants.
- *File manager.* `CursorOnEntry` and `ArrayIsFocusedPanel` are inductive only together
  with the types: a key moves the cursor by what the array holds, and the array is what
  the focused panel shows only if the panel's cursor was where it belongs.
- *ping and traceroute.* That a round matches its answer needs that at most one answer
  is under way or queued, and that it is the one the process waits for (`Alone`);
  `InOrder` relates the printed lines to the round.
- *DNS proxy.* `Accounted` is the arithmetic of nodes: cached, leaked or held by a CPU.
  `Alone` says what one CPU at a time knows: the name it inserts is not in the tree, and
  it has seen the whole tree when it links. For the refinement, a query that is held is
  with one CPU (`Held`), so what it is to be answered with is well defined (`DueRight`)
  and nothing the other hook does to the tree changes it.
- *ioctl device.* All depends on the opener being alone: then the loads of `++` and `--`
  are never stale, and the buffer holds a whole message except while it is written. The
  bounds of `Device_Open` in `DevTypeOK` hold whoever races: it lies between minus the
  number of processes that have stored a `--` and the number that have stored a `++`
  (`Counted`), because a stale load can only lose updates of the others, never make one
  count twice.
- *proc file.* Undisturbed, at most one process is in its calls, `f_read` is set exactly
  when this reader has been given the message, and `f_write` exactly when there is one,
  but for a writer on its way to set it.
- *Streams.* That nobody is stranded needs who holds the writing end in each phase: of a
  pipe both processes until the child closes its copy, which it does before it reads.
- *Netlink.* What lies in a socket was put there by a process with the same pid, and a
  process whose pid nobody shares gets past `sendmsg` only with its answer in its own
  socket or without memory.
- *Route table.* `Row(n)` is the number of main routes up to message `n`; the rows
  printed are those of the messages already passed, and while a message is read,
  `rt_info` holds for each field a value of the attributes passed so far or what it held
  before. The counting goes by cardinalities of sets of message numbers, without
  induction.
- *Datagram pairs.* The sum of the datagrams that can still become an answer is kept by
  every step except the two that `extra` counts. Requests the server would answer itself
  count too, or the sum would not be inductive.
- *Packets.* Lemmas about `Fold`, `Checksum` and `CheckSum` over all sums: folding keeps
  the remainder by 65535, only zero folds to zero, and a 32-bit wrap of the sniffer's
  sum costs exactly one, so `check_sum` returns 0 exactly if the wrapped sum is a
  multiple of 65535 other than zero. The invariant says that a header verifies as long
  as nobody has changed it (a change may or may not show), over what the checksum of
  the message was computed, and what the sniffer has made of the header.

**Assumptions.** Each module names one assumption on its constants, and TLC evaluates it
in every run. They say that bounds are natural numbers and that special values are
different from ordinary ones. Those that stand for facts of the code are: in
`EventLoop`, no more descriptors than an `fd_set` has bits, two free ones when the
program starts, a `POLL_MAX` of at least 2 and no more than there are descriptors (`poll`
refuses more slots), and that the program does not inherit a descriptor with the number of
the stray bit; in `Navigate`, two entries at least in a directory (`.` and
`..`) and no more than the array holds; in `IoctlDev`, finitely many processes and
messages no longer than `BUF_LEN`; in `Packets`, packets of up to 65535 bytes; in
`IcmpTools`, a route of at least one hop.

**Only model-checked.** Liveness (`QueuedIsAnswered`, `ShutdownEnds`,
`QuiescentCopyReturns`, `StuckOnlyByOrphan`, `ProgressEnds`, `ReadyIsServed`,
`QueuedIsAccepted`, `RoundsEnd`, `ReadersEnd`, `EchoJams`, `PairEnds`, `AnsweredOrLost`,
`RequestsAnswered`) and the fairness it rests on: the provers do not reason about
`ENABLED`. The runs that expect a violation are
counterexamples, not theorems.

## Plan

Done: every component that keeps state over several steps has its module; the UDP server,
the event loop and the DNS proxy each implement an abstract service; every invariant,
action property and refinement of the passing runs is a theorem. Left:

1. The safety part of the liveness properties where there is one: that `Jammed` stays until
   a kill, and that a mutex lost with a dead thread stays lost.
2. Abstract specifications for the smaller programs, where one would say more than the
   properties do: a register for `IoctlDev`, a message read to its end for `ProcDev`.

## Not modelled, and why

- The chat, which does not compile; the credential demo, which is out of scope; the
  daemon, whose start-up is sequential and keeps nothing.
- The multicast pair: `socket_setsockopt` passes the bytes of a pointer in place of the
  request, so which group is joined is decided by an address, and `main` does not call it.
- `iphdr_create` and `udphdr_create` of `raw_socket`, which nobody calls, and the fields
  the sniffer prints.
- Memory errors whose outcome a model could not tell usefully: more than 256 directory
  entries in the caller's array, directory entries used after `closedir`, the zero byte
  written at `buf[256]` by the echo programs, `strlen` of user memory in `procfs.c`, the
  stack behind the header in `user_module.c` (modelled as a `sendmsg` that may fail),
  host names of 255 bytes without a zero byte, allocation with `GFP_KERNEL` in a hook.
- A full disk during `copy()`: the result of `fwrite` is ignored, so the outcome is that
  of a tail that is lost.
- Nothing is promised of a SIGTERM before `main.c:96` of the UDP server: `Signal` may come
  then and `running = true` overwrites it, as in the code, so `ShutdownEnds` starts from a
  main loop that has ended, not from the signal.
