# A TLA+ verification of adsb-tools

`adsbus` (`src/adsbus/`, C) is a hub for ADS-B packets: it receives them from
files, TCP connections, listeners and child processes in five formats, and sends
each of them to every other connection.  Beside it, `adsb-ws` (`src/sinks/adsb-ws`,
Go) hands its output to websocket clients.  This directory holds TLA+ modules of
its behaviour, TLC configurations that check small instances of them, and TLAPS
proofs about them for instances of every size.  Nothing here was written from
the documentation: the definitions translate the code, and `PROJECT.json`
("map") says which lines each one stands for.

Contents: 1 the system; 2 modules; 3 runs, bounds; 4 fairness; 5 proofs;
6 what the code does otherwise than documented; 7 what is not modelled; 8 plan.

To repeat: `tlc -config X.cfg M` for the pairs in section 3, `tlapm M_proofs.tla`
for the proofs.

## 1. The system

`adsbus` is single-threaded but for the resolver threads.  Everything is a
callback of one epoll loop; every object that waits for something embeds a
`struct peer {fd, event_handler}`, and the loop calls peers through the pointers
`epoll_wait()` returned.

| Component (source) | State | Operations | Interacts with |
|---|---|---|---|
| Event loop (`peer.c`) | epoll set, always-trigger list, `peer_shutdown_flag`, `peer_count_in/out/out_in` | `peer_epoll_add/del`, `peer_close`, `peer_call`, `peer_loop`, the signal handler | calls every handler; stops when the counters say no input or no output remains |
| Data flows (`receive.c`, `send.c`, `send_receive.c`, `flow.c`) | lists of `struct receive`, `struct send`, `struct send_receive` with `ref_count`, an `on_close` peer | `*_new`, `*_del`, `receive_read`, `send_write`, `*_cleanup` | created by transports, tell their transport through `on_close` |
| Timers and backoff (`wakeup.c`) | list of `struct wakeup` (a timerfd and an inner peer) | `wakeup_add`, `wakeup_handler`, `wakeup_cleanup`, `wakeup_get_retry_delay_ms` | call a transport once |
| Outgoing (`outgoing.c`) | address list and position, `attempt`, the handler of the current stage | resolve, connect next address, connected, disconnected, retry, delete | resolver, timers, flows |
| Incoming (`incoming.c`) | listening fd, handler | resolve, listen, accept, retry, delete | resolver, timers, flows |
| Files (`file.c`) | path, flags, `retry` | open, close, retry, free | timers, flows |
| Child processes (`exec.c`) | `child` pid, log pipe, the signalfd | spawn, SIGCHLD, log line, retry, kill and wait | timers, flows, kernel |
| stdin/stdout (`stdinout.c`) | none | one connection each, never recreated | flows |
| Name resolution (`asyncaddrinfo.c`, `resolve.c`) | request socket, threads, one answer socket per resolution | resolve, result, clean-up with join; the threads' loop | outgoing, incoming |
| Start-up and tear-down (`adsbus.c`, `opts.c`) | the option list | `*_init`, `opts_call`, `peer_loop`, `*_cleanup` in a fixed order | all |
| Random numbers (`rand.c`, `uuid.c`) | `rand_buf` | `rand_fill`, `uuid_gen` | timers (jitter), source ids |
| Buffers (`buf.c`) | bytes, `start`, `length` | fill, consume, chomp | receive, random numbers, logs |
| Formats (`beast.c`, `raw.c`, `airspy_adsb.c`, `json.c`, `proto.c`, `hex.c`) | `parser_state`, shared by all parsers of a connection | parse, serialize | receive, send |
| Packets, statistics (`packet.c`, `stats.c`) | per connection the last timestamp and its generation; counters | scaling to and from the rate and width of a format; counting | formats |
| Logging, server (`log.c`, `server.c`, `socket.c`) | log fd | SIGHUP rotation; detach, pid file; socket options | loop |
| Websocket sink (`sinks/adsb-ws`) | set of connections, a queue per client, the greeting | read a line, broadcast, register, unregister, write | reads adsbus's output; goroutines over unbuffered channels |
| Statistics sink (`sinks/sourcestats`) | per-source counters | read, print on a timer | reads adsbus's output |

What is hard here, and what makes each component correct:

* **Stale pointers.** Between `epoll_wait()` and the call, earlier handlers of
  the same batch delete, free and reuse objects.  Correct: a pointer is valid
  whenever it is used (`NoDanglingPeer`).
* **Life cycles through function pointers.** A transport is a chain of handlers;
  each step must install the next one and arrange for exactly one call.  Correct:
  no transport is lost, none runs twice (`OneActivity`), and the installed
  handler suits what will call it (`HandlerMatches`).
* **Two halves of a connection** die in either order, with one `on_close`
  (`SendReceiveRefs`).
* **Three counters in many places** decide when the program stops
  (`CountsExact`, `StopsOnlyWhenUseless`).
* **Shutdown at any point** (`ShutdownCompletes`, `CleanExit`,
  `CleanupReapsAll`, `JoinDrains`).
* **Threads** own a heap pointer in turns (`OneOwner`) and assert that their
  answer can be delivered (`AnswerHasReader`).
* **Kernel objects**: descriptor numbers are reused (`HandlerHasItsFd`,
  `FdsAccounted`), pids are reused (`ChildIsOurs`), SIGCHLDs coalesce
  (`DeadChildReaped`), timers of 0 ms never fire (`RetryHappens` holds of the
  others).
* **A byte stream without frames.**  Packets are found by trying five parsers on
  whatever a read has brought, all on one `parser_state` and one small buffer.
  Correct: the result does not depend on the cuts (`PacketsIntact`), nor on the
  parsers that failed (`StateClean`); the buffer neither blocks nor closes a
  good stream (`RoomToRead`, `OnlyStrangersOverrun`).
* **Networks of processes** with loops, formats without a hop count and
  timestamps of 32 to 64 bits: packets die out (`DiesOut`), come once
  (`OnceEach`), and keep the time between them (`TimeKept`).
* **Goroutines that give each other up**: a slow client is dismissed by the hub
  while its own goroutine leaves (`NeverPanics`), the hub waits for nobody
  (`NobodyWaits`), and each client sees a gapless feed (`RefinesFeed`).
* **Arithmetic at its limits**: the backoff in 32 bits (`BackoffGrows`,
  `RetriesNeverTrap`), a random buffer drained exactly (`RepeatsOnlyDrained`).

The full list, each at its line, is "hazards" in `PROJECT.json`.

## 2. Modules

| Module | Models | State and actions |
|---|---|---|
| `Bus` | `peer.c`, `receive.c`, `send.c`, `send_receive.c`, `file.c`, `wakeup.c`, `stdinout.c`, `main()`, and the life cycles of `outgoing.c`, `incoming.c`, `exec.c` | one action per handler that `peer_loop()` can call, per `*_init`/`*_cleanup` call, per step of the loop; `phase` is where `main()` is |
| `Resolver` | `asyncaddrinfo.c`, `resolve.c` and how transports use them | one action per system call that another thread can see; `pc[i]` is where thread i is |
| `AsyncCall` | what the resolver promises | a call is asked, answered once, collected; after closing, abandoned |
| `Outgoing` | `outgoing.c`, one transport in detail | the address walk with its history (`tried`), the socket, the attempt counter, the greeting |
| `Backoff` | `wakeup_get_retry_delay_ms()` | 32-bit arithmetic, in units that keep TLC's integers small |
| `Incoming` | `incoming.c`, `wakeup.c`, `peer_close()`, with a table of descriptors | the kernel's lowest-free rule, epoll's forgetting of closed descriptors, the assertions |
| `Exec` | `exec.c` with processes and signals | one pending SIGCHLD, zombies, pid reuse, process groups; a child acts between any two steps, `read()` and `waitpid()` included |
| `Rand` | `rand.c`, `buf_consume()` | bytes are the numbers under which urandom delivered them |
| `Formats` | `beast.c`, `raw.c`, `airspy_adsb.c`, `hex.c`, and the framing of `json.c` and `proto.c` | pure operators on sequences of bytes: `Serialize`, and `Parse`, which returns the bytes used, the packet and the new `parser_state` |
| `Receive` | `receive_read()`, format detection, `buf.c` | one connection: `Read(size)` is a whole call of the handler, `ReadEof` the end of the stream |
| `Relay` | `packet.c`, the hop limit of `receive.c`, the choice of recipients in `send.c` | a network of processes; one action per message read by a process |
| `WsHub` | `hub.go`, `input.go`, `stream.go` of the websocket sink | one action per channel operation of a goroutine |
| `Feed` | what the websocket sink promises its clients | lines are published, clients join, take and leave |
| `MCBus`, `MCResolver`, `MCReceive`, `MCRelay` | values of constants for TLC | |
| `Bus_proofs`, `Resolver_proofs`, `WsHub_proofs`, `Exec_proofs`, `Outgoing_proofs`, `Incoming_proofs`, `Relay_proofs`, `Buffers_proofs` | theorems; the last of `Receive` and `Rand`, the two users of `struct buf` | |

How the modules relate.  `Bus` composes everything the event loop calls and
abstracts each transport to the part the other components see: which handler is
installed, whether its own fd is in the epoll set, how many wakeups and
connections refer to it, whether a child exists.  `Outgoing`, `Incoming` and
`Exec` look into one transport each, with what `Bus` leaves out (addresses,
descriptor numbers, processes).  `Resolver` is the asynchronous service that
"the resolution's fd becomes readable" stands for in `Bus`; it is shown to
implement `AsyncCall`, whose promise (one answer for one call, never after the
caller has closed) is what `Bus` relies on.

`Receive` looks into the event that `Bus` calls "a packet arrives": `Bus` keeps
the connection and forgets the bytes, `Receive` keeps the bytes of one
connection.  `Formats` is the part of it without state.  `Relay` starts where
`Receive` ends: messages are whole, and what matters is what a packet has become
after several processes.  Its `Serialize` and `Parse` keep the hop count and the
timestamp only.  `WsHub` is a separate program behind a pipe and is shown to
implement `Feed`.

In `Formats` a byte is a number.  raw, airspy_adsb and beast are written out
byte by byte.  json and proto, whose libraries are external, are a delimiter
(the closing brace and line end; the length prefix) around a byte for the kind
of message, a hop count and the payload, which keeps what the parsers decide on:
whether a message is complete, whose header it is, whether a header has come.
`parser_state` is the union of what the five parsers store in it, with the
timestamps seen (`stamps`) as its history, so that a parser that looks at a frame
twice would show.

Correspondence of the main state of `Bus`: `ready` is the kernel's ready list,
`batch` the `events[]` array of `peer_loop()` not yet walked (or the
always-trigger list being walked), `recv`/`snd` the connections with a live
`struct receive`/`struct send`, `sr` the `ref_count`, `owner` the
`on_close` pointer, `alive` the allocated transports, `handler` their
`peer.event_handler`, `reg` whether their own fd is in the epoll set, `wake`
the wakeups that point to them, `armed` those whose timer runs, `child`/`log` the
exec's process and log pipe.  A peer is a pair of a kind and an owner, so reuse
of a connection identity after deletion is as visible as reuse of memory.

Definitions whose comment begins with "Bug:" are not part of the models: each is
a plausible mistake in the operator that follows it, and the mutant of a
property in `PROJECT.json` puts it in that operator's place to show that
the property notices.

## 3. Runs

| Run | Config | Shows |
|---|---|---|
| `bus` | `MCBus.cfg` | 1.6 million states: all interleavings of events, failures, retries and shutdown for any two of five options, with or without `--stdout` |
| `bus_live` | `MCBus_live.cfg` | retries whose timer runs happen, failed sends go, shutdown ends |
| `resolver` | `MCResolver.cfg` | safety, liveness and refinement of the resolver |
| `outgoing` | `Outgoing.cfg` | every outcome of up to 3 addresses, each tried once and in order, 20 failures in a row |
| `outgoing_overflow` | `Outgoing_overflow.cfg` | violation: division by zero after 28 failures |
| `incoming` | `Incoming.cfg` | descriptors of a listener, 3 clients, late resolver threads, which may also close a descriptor while `incoming_listen()` runs; a clean-up that aborts has met a pending retry |
| `exec` | `Exec.cfg` | two children, three pids, early deaths, stops |
| `exec_coalesce` | `Exec_coalesce.cfg` | violation: two deaths, one SIGCHLD, one zombie for ever |
| `rand` | `Rand.cfg` | requests that drain the buffer exactly or not |
| `receive` | `MCReceive.cfg` | 81 streams in reads of any size: packets whole, detection without trace, room in the buffer |
| `relay` | `MCRelay.cfg` | six networks: packets die out, come once where there is no loop, keep their time |
| `hub` | `WsHub.cfg` | two clients that join, fail, fall behind: no panic, no waiting, `Feed` implemented |

Bounds, and why they are enough:

* `Bus`: `MaxOptions = 2` of five options.  Transports affect each other only
  through the counters, the batch and the shutdown flag, so pairs show every
  interaction; the five options cover every kind and flow (the two-way file,
  exec and listener differ from these by the flow only, and the proofs cover
  them).  Three connections are live at once: both halves of one while another
  is replaced.  A connection that finds no identity free is not accepted.
  `MaxEvents = 2` makes batches of one and two and leaves events behind;
  `Delays = {0, 1}` are the disarmed and the running timer.  Connections are
  interchangeable (symmetry), in `bus` only, which has no liveness property.
* `bus_live`: an outgoing send fed by a file or by stdin, `MaxEvents` larger
  than the number of peers; a delay of 0 is possible and excepted by the
  property.
* `Resolver`: a socket of two pointers and three requests, so that the sender
  blocks; the two threads of `resolve_init()`.
* `Outgoing`: 3 addresses are first, middle and last; `MaxAttempt` bounds the
  failures in a row (20 is past the cap of 60 s; 40 is past the overflow).
* `Incoming`: `MaxFd` leaves room for everything the bounds allow;
  `MaxReturned = 2` is the number of resolver threads.
* `Exec`: three pids for two children, so pids are reused and run short.
* `Rand`: a buffer of 8 with requests of 2 and 3 is drained exactly and not;
  `MaxRead` ends the run after several refills.
* `Receive`: the buffer has 56 bytes instead of 256, so that frames of up to 46
  bytes fill it, straddle its end and are moved to its front; the assertions of
  the `*_init()` functions about its size are an assumption of the module and
  hold.  A read finds 1 to 12, 20, 29, 41 or 56 bytes: all small cuts and jumps
  over several frames.  The streams have escape bytes at every edge of the
  fields of a beast packet (64 of them), all kinds of packet in all formats, hop
  counts at the limit, and frames that nobody understands before and after the
  format is found.
* `Relay`: three processes are a line, a ring and a double connection; the
  widths are scaled to 42 and 50 clock ticks (32 and 48 bits in the code) and
  `MlatMax` to 1023, so that gaps of 0, 5 and 25 ticks wrap each width within
  four packets while the 64-bit sum stays below its own limit.  The largest gap
  and the rounding (17 ticks) just fit the 42 ticks of the narrowest counter,
  which is what `Paced` asks.  `MaxSeen = 2` copies of a packet are recorded per
  process, so that a second one shows.  The limit of 3
  hops is below the 16 values of a hop count, as the default of 10 is below 65536.  One
  connection may break, with the messages in it.
* `WsHub`: a queue of two messages (256 in the code) is full after the greeting
  and one line; three lines overflow it.  Two clients are one that the loop over
  the connections has visited and one that it has not.

`CHECK_DEADLOCK` is nowhere off.  The states in which a program stops on purpose
(returned from `main()`, exited, aborted) have an explicit stuttering
action, so any other stop would be reported.

## 4. Fairness

* `Bus!LiveSpec`: weak fairness of `Program`, the process is scheduled: all of
  `Program` is one thread.  Nothing is assumed of the choices inside it: which
  event of a batch comes first, or which of its outcomes a call has, is open.  An armed
  timer expires and a TCP socket that was shut down in both directions reports
  EPOLLHUP: strong fairness, because the model adds events only while the
  program waits in the loop, which a program busy with a regular file keeps
  leaving and entering.  Nothing is assumed of data, clients, connections,
  children or signals.
* `Resolver!LiveSpec`: each thread runs and `getaddrinfo()` returns; after the
  loop has ended the main thread runs on.  That `asyncaddrinfo_cleanup()`
  is ever called is not assumed.
* `Exec!LiveSpec`: the program's steps happen (wakeups with strong fairness, as
  the handlers interrupt the loop), children reach `setpgid()`, and a child that
  has received SIGTERM exits.  Children need not die by themselves.
* `Relay!LiveSpec`: each connection is read (weak fairness of `Receive(l)` for
  each link: every process runs its loop, and epoll reports what is readable).
  Packets need not enter and connections need not break.
* `WsHub!LiveSpec`: strong fairness of the cases of the hub's `select`, which Go
  chooses among at random, and weak fairness of the sends the hub makes in the
  bodies of its cases.  Nothing is assumed of clients, not even that one ever
  takes a message or that a write returns, nor of the input: this is what makes
  `NobodyWaits` a statement about slow clients.

The violation of `DeadChildReaped` is found under these assumptions, not by a
program that stops.

## 5. Proofs

`Bus_proofs` (assumption: `BusAssumption`, i.e. finite sets of options and
connections, any kinds and flows, any batch size, any delays):

* `InductiveInvariant`.  The properties alone are not inductive.  `IInv` adds:
  *Mode* - for each live transport, the installed handler determines which of
  fd, wakeup, child and connection exists, and that there is one of it;
  *Halves* - `ref_count` determines the live halves, and a connection without
  any has no `on_close`; *PeersValid* - not just the fetched pointers but every
  peer the kernel has ready is valid, since a ready peer may be fetched later;
  and the exact counters.  Mode, Halves and PeersValid are claimed until the
  shutdown flag is set; the counters always.
* From it: `TypeCorrect` (counters never wrap below 0), `CountersExact`,
  `PeersNeverDangle`, `TransportsHaveOneActivity`, `HandlersMatch`,
  `RefCountsExact`, `StopsWhenUseless` (an action property).
* `ExitsClean` needs a second invariant, `Swept`: what each clean-up call that
  has been made has emptied stays empty.

The step lemmas are one per handler; `CountsTransportNew`, `CountsTransportDel`
and `CountsHalfDel` carry the counting, `FlowNewEffect`, `StartEffect` and
`HalfDelEffect` say what the shared operators do.

`Resolver_proofs` (assumption: `ResolverAssumption`, any number of threads and
requests, any size of the socket):

* `InductiveInvariant`: ownership strengthened by: a thread exits only after the
  socket was closed and drained; the descriptors held nest in what is
  allocated; no resolution in flight is lost.
* From it `Ownership`, `TypeCorrect`, `AnswersFindReader`, `JoinIsComplete`, and
  `Refinement`: the resolver implements `AsyncCall`, step by step.

`WsHub_proofs` (assumption: `WsHubAssumption`, queues of at least one message;
any number of clients and lines):

* `InductiveInvariant`.  `NeverPanics` alone is not inductive.  `IInv` adds where
  the hub is and what it is about to use (`HubAt`: a client it greets is
  connected, so are those it has yet to visit), for each client that a closed
  channel is of nobody connected and that nothing was sent before it was
  registered (`Member`), and which line the greeting is (`Greeted`).
* From it `TypeCorrect`, `HubNeverPanics` and `Refinement`: the hub, its reader and
  all client goroutines implement `Feed`.  Broadcasting is `Publish`, greeting is
  `Join`, a round of the loop is `Take`, or `Leave` if the queue is full, a failed
  write is `Leave`, and everything else is invisible.  `Prefix`, `HeadTail`, `Push`
  and `Concat` are the facts about sequences on which it rests.

`Exec_proofs` (assumption: `ExecAssumption`; any finite sets of children and pids):

* `InductiveInvariant` adds to the properties what `main()` has come to (`Progress`:
  each `exec` set up has a child before the loop starts, all are known in the loop,
  the one between `kill()` and `waitpid()` has a child, none is left at the end) and that an `exec` not created yet has no child (`UnknownHasNone`).
* From it `TypeCorrect`, `KillsOwnChild`, `NeverLosesProcess`, `RespawnsExactly` and
  `LeavesNoChild`.  Pids are reused in the model, so these say that reaping and
  killing never mix up a child with a later process of the same pid.

`Outgoing_proofs` (assumption: `OutgoingAssumption`; address lists of any length):

* `InductiveInvariant` adds that while it is connecting the transport has tried
  the addresses up to the current one, each once and in order (`Walked`); `WalkOn`
  is the fact about sequences that carries it over one attempt.
* From it `TypeCorrect`, `AddrsNeverDangle`, `SocketHasOneOwner` and
  `TriesEveryAddress` (`EachAddressOnce`), an action property.  The value of the delay plays no part.

`Incoming_proofs` (assumption: `IncomingAssumption`; any number of clients and
threads still resolving, with descriptors enough for them and four more):

* `InductiveInvariant`.  While the program runs, `Uses` states the exact set of
  descriptors of each use, `Bounded` how many clients and threads hold;
  `Closable` is what remains of it at shutdown.
* `Room` derives that the kernel has a descriptor to give, `HasLowest` that a
  nonempty set of descriptors has a lowest one, which is the one it gives.
* From it `TypeCorrect`, `HandlersFit`, `NothingLeaks` and `AbortsOnlyThen`.

`Relay_proofs` (assumption: `RelayAssumption`, i.e. any finite set of processes,
any networks of finitely many links in which a two-way connection is one link
each way, any rates and widths of the formats, any hop limit):

* `TreeRooted`.  `Tree` only counts connections.  From that count and from
  `Feeds` follows that the network is a tree with the source at its root: each
  process but the source has one link that leads down to it, and every other link
  into it is the way back of a connection on which it sends down.  `d` is the
  depth of a process and `w` the sum of the ratios on the way to it.  The proof
  grows a subtree link by link; a largest one that is not everything could grow.
* `OncePerProcess` states `OnceEach`.  It is not inductive: nothing in it says
  what is in flight.  `OnceInv` adds, for each packet and the tree with its
  source at the root, that it is nowhere twice, that a link it is in flight on
  leads down (upwards it came from, on the same socket), from a process that has
  it to one that has not; and, while no connection has broken and the hop limit
  suffices, that it has counted no more hops than its depth and is in flight on
  every link between one that has it and one that has not.
  `IdsKnown` bounds the identities by the number of packets that have entered.
* `TimeSurvives` states `TimeKept`.  `TimeInv` says that the reader of a link is
  at all times in the state of a counter that has followed the writer's clock from the
  first packet on (`LinkOK`), and that a process has relayed the packets in order,
  with timestamps that never go back and advance by a gap of the source and `w` at
  most (`NodeOK`); `TimeHolds` sums the roundings up along the way.
  `Wraps` is the heart of it: a value below the last one means exactly one wrap
  if the clock has advanced by less than a period, and then generation and value
  together are the clock again.
* The conditions of `TimeKept` are needed.  Without `Paced` a pause as long as a
  period hides a wrap, without `HopsSuffice` packets are dropped on the way and a
  gap adds up, and above 2400 years the clock itself wraps.
* `LeastNat` and `LeastSubset` stand in for induction, which the provers cannot
  instantiate: a claim about all processes is shown by the nearest one to the
  source for which it would fail.

`Buffers_proofs` (assumptions: `ReceiveAssumption`, i.e. any streams of bytes, and
`RandAssumption`; any size of the buffers, of reads and of requests):

* `ParsersFit`: on any bytes and any `parser_state`, each of the five parsers
  consumes at most what the buffer holds.  One lemma per parser: the line end
  (`LineEndFits`), the escaped bytes (`TakenFits`), the object and the line ends
  after it (`BlankFits`, `JsonEndFits`), and the length that a message claims
  (`ProtoUnwrapFits`).  It is the assertion of `buf_consume()`.
* `BufferBounds` from it: every round of the loop, hence the loop (`RoundLocal`,
  `ParseAllLocal`), keeps the bytes in the buffer; a full buffer closes the
  connection.  `AlwaysRoom` follows and states `RoomToRead`, for streams that are
  understood and for those that are not.
* Round trips, for every packet that fits its type and whatever bytes follow it:
  `RawRoundTrip`, `AirspyRoundTrip`, `BeastRoundTrip`, `JsonRoundTrip` and
  `ProtoRoundTrip` say that `Parse` makes of what `Serialize` writes the same
  packet, consumes its bytes and no others (json also the line ends after it),
  and takes its timestamp into the `parser_state` once.  For the two text formats
  the attempts for the other lengths must fail first: they do because a semicolon
  and hexadecimal digits cannot stand in the same place (`OtherType`).  For beast,
  `EscapeSteps` unrolls the writer, `TakenSteps` the reader, and `Unescape` shows
  that after each byte both are at the same place, which needs that the bytes after
  a packet are never looked at.  json and proto need a header before; their stamps
  are as `Formats` reduces them.
* Detection: `AirspyDetected`, `BeastDetected`, `RawDetected`, `JsonHelloDetected`
  and `ProtoHelloDetected` say that of the five parsers tried in turn the one of the
  right format takes the first frame, whatever follows it.  The parsers before it
  leave no trace in the `parser_state`, except for raw: the attempts of airspy_adsb
  at a longer packet look at the bytes after the line and may take a timestamp
  there, so `RawDetected` is silent on the `parser_state`.  `RawFramed` is not:
  where more lines of raw follow, they do not.
* Streams.  `FramesIntact`, `FramesLeaveNoTrace` and `FramesOverrun` state the
  invariants `PacketsIntact`, `StateClean` and `OnlyStrangersOverrun` of the run
  `receive`, for any number of frames and reads of any size.  None of the three is
  inductive: they say what has been taken, not what is still in the buffer.
  `StreamInv` adds that the buffer is the part of the wire between a place `a` and
  what has come, that `a` is within the tail of the last frame taken (a json object
  is decided before its line end), and that parser and `parser_state` are those of
  that many frames (`FrameByFrame`).  The loop keeps this because each of its rounds
  either takes the next frame or consumes nothing (`StreamNext`).
* That last fact is the hypothesis `Framed` of those three theorems: for one frame
  and wherever a read may have cut the wire, the parser in charge - all five in turn
  as long as none is - takes the frame if it is there and leaves no trace if it is
  not.  It speaks of `Parse` alone, not of connections, and is proved of every
  format: `RawFramed`, `AirspyFramed`, `BeastFramed`, `JsonFramed`, `ProtoFramed` for
  streams of any packets, and `StrangeFramed` for what begins like no format.  The
  round trips give the frames that are there.  For a part of a frame, raw and
  airspy_adsb need that a semicolon stands where the line ends and nowhere before
  (`RawFields`), beast that an escape byte at the end of a read waits for its double,
  json that an object whose brace has not come is no object, and proto that a message
  begins with what is white space to json (byte 10).
* `EveryFormat` puts them together: if each peer sends packets in one of the five
  formats, or something that begins like none, the three invariants hold.
  airspy_adsb alone has a condition, that its line (49 bytes at most) fits in the
  buffer: the assertion of `airspy_adsb_init()` does not imply it, but 256 bytes do.
* The lengths of hexadecimal text, of escaped bytes and of joined sequences come
  from `SequenceTheorems` and from induction through `Reaches`, a claim about the
  set of the numbers for which it holds.
* `RandInvariant` adds to `RepeatsOnlyDrained` that the unconsumed bytes end where
  the buffer ends (`Window`), that all bytes differ (`Distinct`), and that an
  unconsumed byte was not handed out unless it was drained exactly (`Fresh`).
  From it `RandTypeCorrect` and `NothingElseRepeats`.

What stays with TLC:

* all liveness (`RetryHappens`, `FailedSendDeleted`, `ShutdownCompletes`,
  `EveryAnswer`, `CleanupReturns`, `DiesOut`, `NobodyWaits`), which needs `ENABLED`;
* a stream that turns bad: good frames and then garbage, a header with our own
  `server_id`, packets without a header.  That such streams are `Framed` is not
  proved of all of them; the run `receive` has one or two of each kind;
* `BackoffGrows`, whose values are finitely many and all checked.

## 6. Where the code differs from what is said of it

Two runs end in a violation on purpose; each quotes the line it contradicts in
`PROJECT.json` ("findings"): the backoff's overflow (`wakeup.c:75`) and coalesced
SIGCHLDs (`exec.c:77`).

Further disagreements that the models show, and that the properties state around
rather than run:

* `wakeup.c:81` - a jitter of 0 ms disarms the timer instead of expiring it at
  once, so that the transport is never retried, against "Reresolution and
  reconnection on disconnect, with backoff and jitter" (`src/adsbus/README.md:44`).
  `RetryHappens` is stated of timers that run; without `t \in armed` the run
  `bus_live` refutes it.
* `outgoing.c:72` - `sendto(MSG_FASTOPEN)` to a host without a cookie sends
  nothing and the greeting is lost, as `flow_new()` does not send it again; json
  and proto promise the header first (`protocols/json.md:10`, `adsb.proto:53`).
  The state "lost" of `hello` in `Outgoing`.
* `incoming.c:113` - after a failed `bind()` the number of the closed socket stays
  in `peer.fd`; a shutdown before the retry closes it again, which fails an
  assertion or closes the retry's own timer.  `AbortsOnlyInRetry` says that
  nothing else in a clean-up can abort.
* `json.c:120`, `proto.c:171` - hop counts are read into 16 bits, while
  `ADSBUS_MAX_HOPS` may have 32: a limit above 65535 would never be reached.
  The cast is in `Relay` (`HopsMod`), which allows any limit; `DiesOut` is stated
  for `MaxHops < HopsMod`, without which packets in a loop circulate for ever.
* `packet.c:24` - a timestamp below the last one starts a new generation.  Packets
  of two receivers that arrive out of order over one connection each add one,
  and only the distance between packets of one source is promised (`TimeKept`
  asks for one source).  In 64 bits the sum wraps modulo 2^64 and is then taken
  modulo INT64_MAX, which shifts a timestamp by two ticks.  A connection that
  is made anew forgets the wraps it has counted, and a source that is silent for
  longer than a whole period loses one.
* `receive.c:135` - hops are counted in every process but carried by json and
  proto only, as documented: a loop over any other format is endless.  `DiesOut` is
  about networks without such loops.
* `beast.c:46` - a lone escape byte, or a frame of an unknown type, in a stream
  already found to be beast is never skipped: the connection is closed when the
  buffer is full (`OnlyStrangersOverrun`).
* `raw_init()` and `airspy_adsb_init()` - the assertions about the buffer count a
  payload byte once, although its hexadecimal form takes two.  With the
  code's 256 bytes there is room.
* `rand.c:38` - a buffer that is drained exactly is declared full again
  without being read into, so the next bytes (and UUIDs) repeat the first ones.
  `RepeatsOnlyDrained` says that this is the only way bytes repeat.
* `send.c:193` - a failed write to a regular file is followed by `shutdown()`,
  which does nothing to a file, and epoll never reports one: the send stays.
  `FailedSendDeleted` holds in `bus_live`, whose only transports with a send are
  outgoing connections, because fairness of EPOLLHUP is assumed of them alone
  (`HupFollowsShutdown`).
* `outgoing.c:146`, `incoming.c:80` - deleting a transport while it resolves or
  connects drops the resolution or the address list unfreed.  `Resolver` has it
  as the status "abandoned" of `AsyncCall`, and `AddrsLiveWhileConnecting`
  speaks of the time before deletion.
* `exec.c:230` - a child that dies before SIGCHLD is blocked is never reaped
  (the constant `MayDieEarly` of `Exec`; FALSE in `exec_coalesce`, to show
  that two deaths alone suffice).
* `exec.c:82` - a SIGCHLD left over from a child already reaped makes
  `waitpid()` fail with ECHILD and the assertion abort: the state "aborted".
* `exec.c:62` - at shutdown `kill()` may address a process group that the child
  has not made yet; `exec_del()` then waits for a child nobody told to exit.
  `CleanupReapsAll` speaks of clean-ups that end.
* `file.c:43` - `!file->flags & O_RDONLY` is always 0, so only epoll's verdict
  decides whether a file is reopened; `FileOpen` follows the code.

## 7. Not modelled

Signal levels, the sanity check of packets, `stats.c` (increments), `log.c`
(formatting; its rotation on SIGHUP is a handler that reopens one file),
`server.c`, `socket.c` and the HTTP server and flags of `adsb-ws` are left out.  So
is `sourcestats.py`: its timer thread iterates a dictionary that the reader
thread changes, without anything that a property could describe.  In `Bus` a
packet is an event whose delivery to a send may fail.  System calls asserted to succeed do succeed (allocation, `epoll_ctl()` on
open descriptors, `fork()`), except where `Incoming` and `Exec` model them.
`peer_dup()`, descriptor numbers outside `Incoming`, open flags, detaching, the pid
file, socket options and command-line syntax are left out; `--stdin` and
`--stdout` are given at most once each, stdin first.  `list.c` is used as
a set, `adsb.pb-c.c` is generated.  The components with their status are in
`PROJECT.json`.

## 8. Plan

Done: `Bus` first, as the composition of most of the program's state; then
`Resolver` with its abstract specification; then one transport at a time; then
the data: `Formats` and `Receive` for one connection, `Relay` for networks of
processes; and `WsHub` with `Feed` for the other program.

Theorems that remain: `Framed` for streams that turn bad (section 5), for which
only the refusal of what follows the last good frame is missing.  `FramesIntact`,
`FramesLeaveNoTrace` and `FramesOverrun` then apply as they stand.

Models that remain: a `Link` specification (down, connecting, up, with at most one
connection) that `Outgoing` and a transport of `Bus` both implement; a `List` with
the real `prev`/`next` pointers that implements the set `Bus` uses.
