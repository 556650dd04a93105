------------------------------- MODULE Relay --------------------------------
(***************************************************************************)
(* Several adsbus processes connected to each other.  A packet enters at   *)
(* one of them and each process sends what it receives to all its other    *)
(* connections, so that any cycle of connections is a routing loop.  Three *)
(* things decide whether the network works: the hop count, the rule that a *)
(* packet is not sent back on the socket it came from, and the scaling of  *)
(* the timestamp, whose width and rate differ from format to format.       *)
(*                                                                         *)
(* A network is a record: links are the one-way data streams (a two-way    *)
(* connection is a link each way, with both = TRUE), sources the processes *)
(* at which packets enter, packets how many of them do (a bound).          *)
(***************************************************************************)
EXTENDS Integers, SequencesExt

CONSTANTS
  Nodes,       \* the processes
  Networks,    \* the networks considered, see IsNetwork
  Ratio,       \* PACKET_MLAT_MHZ / mhz of each format; 0: has no timestamp
  Period,      \* the largest timestamp of each format
  MlatMax,     \* PACKET_MLAT_MAX, which is INT64_MAX
  HopsMod,     \* json_parse_common() and proto_parse_packet() cast to uint16_t
  MaxHops,     \* ADSBUS_MAX_HOPS
  Starts,      \* what the clock may show at first
  Gaps,        \* the clock ticks between packets that enter
  MaxSeen,     \* bound: copies of one packet recorded in seen
  MaxBreaks    \* bound: connections that break

Formats == {"airspy_adsb", "beast", "json", "proto", "raw"}
Links == [from : Nodes, to : Nodes, format : Formats, both : BOOLEAN]
IsNetwork(n) ==
  /\ n.links \subseteq Links /\ IsFiniteSet(n.links)
  /\ n.sources \subseteq Nodes /\ n.packets \in Nat
  \* a connection has two directions at most
  /\ \A l, k \in n.links : l.both /\ k.both /\ l.from = k.from /\ l.to = k.to => l = k

ASSUME RelayAssumption ==
  /\ IsFiniteSet(Nodes) /\ \A n \in Networks : IsNetwork(n)
  /\ Ratio \in [Formats -> Nat] /\ Period \in [Formats -> Nat \ {0}]
  /\ MlatMax \in Nat \ {0} /\ HopsMod \in Nat \ {0} /\ MaxHops \in Nat
  /\ Starts \subseteq Nat /\ Gaps \subseteq Nat
  /\ MaxSeen \in Nat \ {0, 1} /\ MaxBreaks \in Nat

VARIABLES
  net,      \* the network of this behaviour
  clock,    \* the receivers' clock
  entered,  \* how many packets have entered
  breaks,   \* how many connections have broken
  flying,   \* per link, the packets written and not yet read
  mlat,     \* per link, the reader's struct packet_mlat_state
  seen      \* per process, the packets it has relayed: [id, mlat_timestamp]
            \* (history, MaxSeen copies of each)

vars == <<net, clock, entered, breaks, flying, mlat, seen>>

FreshState == [last |-> 0, generation |-> 0]

Init ==
  /\ net \in Networks
  /\ clock \in Starts /\ entered = 0 /\ breaks = 0
  /\ flying = [l \in net.links |-> <<>>]
  /\ mlat = [l \in net.links |-> FreshState]
  /\ seen = [n \in Nodes |-> <<>>]

(***************************************************************************)
(* Timestamps.                                                             *)
(***************************************************************************)
\* uint64_t, in proportion to PACKET_MLAT_MAX.
Word == 2 * (MlatMax + 1)

\* packet_mlat_timestamp_scale_out()
ScaleOut(ts, f) == (ts \div Ratio[f]) % Period[f]

\* Bug: an equal timestamp counts as a reset.
WidenEqual(ts, f, state) ==
  [last |-> ts,
   generation |-> (state.generation + (IF ts <= state.last THEN Period[f] ELSE 0)) % Word]

\* packet_mlat_timestamp_scale_width_in(): a timestamp below the last one
\* starts a new generation.
Widen(ts, f, state) ==
  [last |-> ts,
   generation |-> (state.generation + (IF ts < state.last THEN Period[f] ELSE 0)) % Word]

\* packet_mlat_timestamp_scale_in()
ScaleIn(f, state) ==
  ((((state.generation + state.last) % Word) * Ratio[f]) % Word) % MlatMax

(***************************************************************************)
(* Formats.                                                                *)
(***************************************************************************)
CountsHops(f) == f \in {"json", "proto"}

\* What is on the wire.  json and proto leave a zero timestamp out; raw has none.
Serialize(p, f) ==
  [id |-> p.id,
   hops |-> IF CountsHops(f) THEN p.hops ELSE 0,
   stamp |-> IF Ratio[f] = 0 \/ (CountsHops(f) /\ p.mlat_timestamp = 0) THEN {}
             ELSE {ScaleOut(p.mlat_timestamp, f)}]

\* The parser's state after, and the packet read from, a message.
ParsedState(m, f, state) ==
  IF m.stamp = {} THEN state ELSE Widen(CHOOSE ts \in m.stamp : TRUE, f, state)

Parse(m, f, state) ==
  [id |-> m.id,
   hops |-> m.hops % HopsMod,
   mlat_timestamp |-> IF m.stamp = {} THEN 0 ELSE ScaleIn(f, ParsedState(m, f, state))]

(***************************************************************************)
(* A process.                                                              *)
(***************************************************************************)
Record(n, p) ==
  seen' = IF Cardinality({i \in DOMAIN seen[n] : seen[n][i].id = p.id}) < MaxSeen
          THEN [seen EXCEPT ![n] = Append(@, [id |-> p.id, mlat_timestamp |-> p.mlat_timestamp])]
          ELSE seen

\* Bug: the packet is also written to the socket that it came from.
SameSocketNever(l, k) == FALSE

\* The two directions of one connection: fstat() gives them the same inode.
SameSocket(l, k) == l.both /\ k.both /\ {l.from, l.to} = {k.from, k.to}

\* send_write(): the links of n that get a packet which came in by via.
Recipients(n, via) ==
  {l \in net.links : l.from = n /\ \A k \in via : ~SameSocket(l, k)}

\* Bug: the count that came with the packet is used as it is.
RelayedUncounted(n, p, via, queues) ==
  IF p.hops > MaxHops
  THEN flying' = queues /\ UNCHANGED seen
  ELSE /\ flying' = [l \in net.links |->
                       IF l \in Recipients(n, via)
                       THEN Append(queues[l], Serialize(p, l.format)) ELSE queues[l]]
       /\ Record(n, p)

\* One round of the loop of receive_read(), after the parser.
Relayed(n, p, via, queues) ==
  LET q == [p EXCEPT !.hops = @ + 1] IN
  IF q.hops > MaxHops
  THEN flying' = queues /\ UNCHANGED seen
  ELSE /\ flying' = [l \in net.links |->
                       IF l \in Recipients(n, via)
                       THEN Append(queues[l], Serialize(q, l.format)) ELSE queues[l]]
       /\ Record(n, p)

\* A packet from a receiver attached to n, stamped by its clock.
Enter(n) ==
  /\ entered < net.packets /\ n \in net.sources
  /\ entered' = entered + 1
  /\ \E gap \in Gaps : clock' = clock + gap
  /\ Relayed(n, [id |-> entered', hops |-> 0, mlat_timestamp |-> clock'], {}, flying)
  /\ UNCHANGED <<net, breaks, mlat>>

Receive(l) ==
  /\ flying[l] # <<>>
  /\ mlat' = [mlat EXCEPT ![l] = ParsedState(Head(flying[l]), l.format, @)]
  /\ Relayed(l.to, Parse(Head(flying[l]), l.format, mlat[l]), {l},
             [flying EXCEPT ![l] = Tail(@)])
  /\ UNCHANGED <<net, clock, entered, breaks>>

\* A connection breaks with what is in it and is made anew: receive_new()
\* starts with an empty parser_state.
Break(l) ==
  /\ breaks < MaxBreaks
  /\ breaks' = breaks + 1
  /\ LET gone == {k \in net.links : k = l \/ SameSocket(k, l)} IN
     /\ flying' = [k \in net.links |-> IF k \in gone THEN <<>> ELSE flying[k]]
     /\ mlat' = [k \in net.links |-> IF k \in gone THEN FreshState ELSE mlat[k]]
  /\ UNCHANGED <<net, clock, entered, seen>>

Quiet == \A l \in net.links : flying[l] = <<>>

Idle == entered = net.packets /\ breaks = MaxBreaks /\ Quiet /\ UNCHANGED vars

Next ==
  \/ \E n \in Nodes : Enter(n)
  \/ \E l \in net.links : Receive(l) \/ Break(l)
  \/ Idle

Spec == Init /\ [][Next]_vars

\* Every process reads its connections; packets need not enter.
AllLinks == UNION {n.links : n \in Networks}
LiveSpec == Spec /\ \A l \in AllLinks : WF_vars(l \in net.links /\ Receive(l))

(***************************************************************************)
(* Networks.                                                               *)
(***************************************************************************)
\* No set of processes that n is in keeps what it gets from the others.
Feeds(n) ==
  \A S \in SUBSET Nodes :
    n \in S /\ (\A l \in net.links : l.from \in S => l.to \in S) => S = Nodes

\* One connection at most between two processes, no cycle, and every process
\* is fed from every source.
Tree ==
  /\ \A l, k \in net.links : {l.from, l.to} = {k.from, k.to} /\ l # k => l.both /\ k.both
  /\ Cardinality({{l.from, l.to} : l \in net.links}) < Cardinality(Nodes)
  /\ \A n \in net.sources : Feeds(n)

\* The hop limit is beyond the longest way without a loop.
HopsSuffice == Cardinality(Nodes) <= MaxHops

\* What rounding to the rate of each format may cost on these links: the sum
\* of their ratios.
Ticks(L) == Cardinality(UNION {{l} \X (1..Ratio[l.format]) : l \in L})
Rounding == Ticks(net.links)

\* Packets come often enough that no wrap of the narrowest counter on the way
\* goes unnoticed, and the clock has not come to PACKET_MLAT_MAX (2400 years).
Paced ==
  /\ \A l \in net.links, gap \in Gaps : gap + Rounding <= Ratio[l.format] * Period[l.format]
  /\ clock < MlatMax

(***************************************************************************)
(* Properties.                                                             *)
(***************************************************************************)
\* "Hop counting and limits (json and proto formats only) to stop infinite
\* routing loops" (src/adsbus/README.md:51): whatever entered, in a network
\* whose loops consist of json and proto links only, or are the two directions
\* of one connection, the packets die out (receive.c:135, send.c:188).  A limit
\* that the cast to uint16_t (json.c:120, proto.c:171) cannot reach, which
\* receive_opt_max_hops() accepts (receive.c:178), stops nothing.
DiesOut == MaxHops < HopsMod => []<>Quiet

\* In a network without loops every process gets every packet exactly once,
\* in any mix of formats; a broken connection may cost packets and never
\* makes a second copy (send.c:188).
OnceEach ==
  Tree =>
    /\ \A n \in Nodes : IsInjective([i \in DOMAIN seen[n] |-> seen[n][i].id])
    /\ Quiet /\ breaks = 0 /\ HopsSuffice
         => \A n \in Nodes : Len(seen[n]) = entered

\* Multilateration needs the time between two packets to survive every format
\* on the way, whatever its rate and width, and however often the narrower
\* counters wrap: in a network without loops, with one source and timestamps in
\* every format, it is off by the rounding alone (packet.c:24).  A connection
\* that breaks loses the count of its wraps, and so does a pause of the source
\* for longer than a counter lasts.
TimeKept ==
  Tree /\ breaks = 0 /\ HopsSuffice /\ Paced
  /\ Cardinality(net.sources) = 1 /\ (\A l \in net.links : Ratio[l.format] > 0)
  => \A src \in net.sources : \A n \in Nodes \ {src} : \A i, j \in DOMAIN seen[n] :
       LET at(k) == seen[n][k].mlat_timestamp
           true(k) == seen[src][k].mlat_timestamp
       IN  i < j => LET off == (at(j) - at(i)) - (true(j) - true(i))
                    IN  -Rounding < off /\ off < Rounding
=============================================================================
