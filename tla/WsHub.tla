------------------------------- MODULE WsHub --------------------------------
(***************************************************************************)
(* src/sinks/adsb-ws: lines from standard input are handed to websocket    *)
(* clients.  One goroutine reads lines, one (the hub) owns the set of      *)
(* connections, and each client has a goroutine that writes to it.  They   *)
(* meet on three unbuffered channels; from the hub to each client leads a  *)
(* channel of Cap messages, which the hub closes to dismiss the client.    *)
(*                                                                         *)
(* A line is its number; the empty greeting of a client that comes before  *)
(* the first line is NoLine.                                               *)
(***************************************************************************)
EXTENDS Integers, Sequences

CONSTANTS
  Clients,   \* each stands for one connection
  Cap,       \* make(chan []byte, 256)
  MaxLines   \* bound: lines read

ASSUME WsHubAssumption == Cap \in Nat \ {0} /\ MaxLines \in Nat

NoLine == 0

VARIABLES
  reader,       \* readInput(): "read", "send" (on h.broadcast), "exit"
  line,         \* the number of the last line read
  hub,          \* run(): "select", "greet", "cast", "panic"
  current,      \* the client being greeted: {} or {c}
  todo,         \* the connections the loop over h.connections has to visit
  msg,          \* m of the loop
  greeting,     \* h.greeting
  connections,  \* h.connections
  chan,         \* c.send: the queue
  closed,       \* c.send: the closed channels
  client,       \* serveStream(): where each client's goroutine is
  held,         \* the message writePump() is writing
  received      \* what the websocket has taken

hubVars == <<hub, current, todo, msg, greeting, connections>>
vars == <<reader, line, hubVars, chan, closed, client, held, received>>

ClientStates == {"idle", "register", "pump", "write", "unregister", "done"}

Init ==
  /\ reader = "read" /\ line = 0
  /\ hub = "select" /\ current = {} /\ todo = {} /\ msg = NoLine
  /\ greeting = NoLine /\ connections = {}
  /\ chan = [c \in Clients |-> <<>>] /\ closed = {}
  /\ client = [c \in Clients |-> "idle"]
  /\ held = [c \in Clients |-> <<>>]
  /\ received = [c \in Clients |-> <<>>]

\* log.Fatal() ends the whole program; a panic of the hub does, too.
Running == reader # "exit" /\ hub # "panic"

(***************************************************************************)
(* The reader of standard input.                                           *)
(***************************************************************************)
ReadLine ==
  /\ Running /\ reader = "read" /\ line < MaxLines
  /\ reader' = "send" /\ line' = line + 1
  /\ UNCHANGED <<hubVars, chan, closed, client, held, received>>

ReadError ==
  /\ Running /\ reader = "read"
  /\ reader' = "exit"
  /\ UNCHANGED <<line, hubVars, chan, closed, client, held, received>>

(***************************************************************************)
(* The hub.  Its select takes any of the channels on which another         *)
(* goroutine waits.  Sending to a closed channel panics, and so does       *)
(* closing one.                                                            *)
(***************************************************************************)
Using(c, next) == IF c \in closed THEN "panic" ELSE next

Register(c) ==
  /\ Running /\ hub = "select" /\ client[c] = "register"
  /\ connections' = connections \cup {c}
  /\ client' = [client EXCEPT ![c] = "pump"]
  /\ hub' = "greet" /\ current' = {c}
  /\ UNCHANGED <<reader, line, todo, msg, greeting, chan, closed, held, received>>

\* c.send <- h.greeting: this send would block the hub if the channel were full.
Greet(c) ==
  /\ Running /\ hub = "greet" /\ c \in current /\ Len(chan[c]) < Cap
  /\ chan' = [chan EXCEPT ![c] = Append(@, greeting)]
  /\ hub' = Using(c, "select") /\ current' = {}
  /\ UNCHANGED <<reader, line, todo, msg, greeting, connections, closed, client, held, received>>

\* Bug: the client stays in the set of connections.
DismissKept(c) == closed' = closed \cup {c} /\ UNCHANGED connections

\* delete(h.connections, c) and close(c.send).
Dismiss(c) == connections' = connections \ {c} /\ closed' = closed \cup {c}

Unregister(c) ==
  /\ Running /\ hub = "select" /\ client[c] = "unregister"
  /\ client' = [client EXCEPT ![c] = "done"]
  /\ IF c \in connections
       THEN Dismiss(c) /\ hub' = Using(c, "select")
       ELSE UNCHANGED <<connections, closed, hub>>
  /\ UNCHANGED <<reader, line, current, todo, msg, greeting, chan, held, received>>

Broadcast ==
  /\ Running /\ hub = "select" /\ reader = "send"
  /\ reader' = "read"
  /\ greeting' = IF greeting = NoLine THEN line ELSE greeting
  /\ msg' = line /\ todo' = connections
  /\ hub' = IF connections = {} THEN "select" ELSE "cast"
  /\ UNCHANGED <<line, current, connections, chan, closed, client, held, received>>

\* Bug: a full channel loses the line and the client stays.
OfferDrops(c) ==
  /\ Running /\ hub = "cast" /\ c \in todo
  /\ todo' = todo \ {c}
  /\ hub' = Using(c, IF todo = {c} THEN "select" ELSE "cast")
  /\ chan' = IF Len(chan[c]) < Cap THEN [chan EXCEPT ![c] = Append(@, msg)] ELSE chan
  /\ UNCHANGED <<reader, line, current, msg, greeting, client, held, received, connections, closed>>

\* Bug: the send waits until the client has room.
OfferWaits(c) ==
  /\ Running /\ hub = "cast" /\ c \in todo /\ Len(chan[c]) < Cap
  /\ todo' = todo \ {c}
  /\ hub' = Using(c, IF todo = {c} THEN "select" ELSE "cast")
  /\ chan' = [chan EXCEPT ![c] = Append(@, msg)]
  /\ UNCHANGED <<reader, line, current, msg, greeting, client, held, received, connections, closed>>

\* One round of the loop over the connections, which come in any order: a
\* client whose channel is full is dismissed.
Offer(c) ==
  /\ Running /\ hub = "cast" /\ c \in todo
  /\ todo' = todo \ {c}
  /\ hub' = Using(c, IF todo = {c} THEN "select" ELSE "cast")
  /\ IF Len(chan[c]) < Cap
       THEN chan' = [chan EXCEPT ![c] = Append(@, msg)] /\ UNCHANGED <<connections, closed>>
       ELSE Dismiss(c) /\ UNCHANGED chan
  /\ UNCHANGED <<reader, line, current, msg, greeting, client, held, received>>

(***************************************************************************)
(* A client's goroutine.                                                   *)
(***************************************************************************)
\* The upgrade to a websocket succeeds; the goroutine waits for the hub.
Connect(c) ==
  /\ Running /\ client[c] = "idle"
  /\ client' = [client EXCEPT ![c] = "register"]
  /\ UNCHANGED <<reader, line, hubVars, chan, closed, held, received>>

Receive(c) ==
  /\ Running /\ client[c] = "pump" /\ chan[c] # <<>>
  /\ client' = [client EXCEPT ![c] = "write"]
  /\ held' = [held EXCEPT ![c] = <<Head(chan[c])>>]
  /\ chan' = [chan EXCEPT ![c] = Tail(@)]
  /\ UNCHANGED <<reader, line, hubVars, closed, received>>

\* The channel is closed and empty: a CloseMessage is sent.
Dismissed(c) ==
  /\ Running /\ client[c] = "pump" /\ chan[c] = <<>> /\ c \in closed
  /\ client' = [client EXCEPT ![c] = "unregister"]
  /\ UNCHANGED <<reader, line, hubVars, chan, closed, held, received>>

\* WriteMessage() returns, which takes as long as the client likes.
WriteDone(c) ==
  /\ Running /\ client[c] = "write"
  /\ client' = [client EXCEPT ![c] = "pump"]
  /\ received' = [received EXCEPT ![c] = @ \o held[c]]
  /\ held' = [held EXCEPT ![c] = <<>>]
  /\ UNCHANGED <<reader, line, hubVars, chan, closed>>

WriteError(c) ==
  /\ Running /\ client[c] = "write"
  /\ client' = [client EXCEPT ![c] = "unregister"]
  /\ held' = [held EXCEPT ![c] = <<>>]
  /\ UNCHANGED <<reader, line, hubVars, chan, closed, received>>

Exited == ~Running /\ UNCHANGED vars

Next ==
  \/ ReadLine \/ ReadError \/ Broadcast \/ Exited
  \/ \E c \in Clients :
       \/ Register(c) \/ Greet(c) \/ Unregister(c) \/ Offer(c)
       \/ Connect(c) \/ Receive(c) \/ Dismissed(c) \/ WriteDone(c) \/ WriteError(c)

Spec == Init /\ [][Next]_vars

(***************************************************************************)
(* Go runs the hub, and its select chooses at random among what is ready.  *)
(* Nothing is assumed of clients, nor that lines arrive.                   *)
(***************************************************************************)
Fairness ==
  /\ SF_vars(Broadcast)
  /\ \A c \in Clients :
       SF_vars(Register(c)) /\ SF_vars(Unregister(c)) /\ WF_vars(Greet(c)) /\ WF_vars(Offer(c))

LiveSpec == Spec /\ Fairness

(***************************************************************************)
(* Properties.                                                             *)
(***************************************************************************)
TypeOK ==
  /\ reader \in {"read", "send", "exit"} /\ line \in 0..MaxLines
  /\ hub \in {"select", "greet", "cast", "panic"}
  /\ current \subseteq Clients /\ todo \subseteq Clients
  /\ msg \in 0..MaxLines /\ greeting \in 0..MaxLines
  /\ connections \subseteq Clients /\ closed \subseteq Clients
  /\ chan \in [Clients -> Seq(0..MaxLines)]
  /\ client \in [Clients -> ClientStates]
  /\ held \in [Clients -> Seq(0..MaxLines)]
  /\ received \in [Clients -> Seq(0..MaxLines)]

\* The hub never uses a channel it has closed, whichever of the hub (slow
\* client, hub.go:38) and the client (failed write, stream.go:93) gives up
\* first, or both: that would panic and end the feed for everybody.
NeverPanics == hub # "panic"

\* However slow the clients are, even if none of them ever takes a message,
\* the reader's line is taken, a new client is registered and a leaving one is
\* released, unless the program exits (hub.go:37: the send does not wait).
NobodyWaits ==
  /\ reader = "send" ~> reader # "send"
  /\ \A c \in Clients :
       /\ client[c] = "register" ~> client[c] = "pump" \/ ~Running
       /\ client[c] = "unregister" ~> client[c] = "done" \/ ~Running

\* The feed as its clients see it.  A line counts as read when the hub takes
\* it, a client as given up when it is dismissed or its write fails; what it
\* was sent is what its websocket took, what is being written and the queue.
taken == IF reader = "send" THEN line - 1 ELSE line

Out(c) == client[c] \in {"idle", "register"} \/ c \in current
In(c) == c \in connections \ current /\ client[c] \in {"pump", "write"}

logBar == [i \in 1..taken |-> i]
statusBar ==
  [c \in Clients |-> IF Out(c) THEN "out" ELSE IF In(c) THEN "in" ELSE "cut"]
owedBar == {c \in todo : In(c)}
viewBar ==
  [c \in Clients |->
     received[c] \o
     (IF client[c] \in {"pump", "write"} THEN held[c] \o chan[c] ELSE <<>>)]

F == INSTANCE Feed WITH
       Lines <- 1..MaxLines, log <- logBar, status <- statusBar,
       owed <- owedBar, view <- viewBar

\* Every interleaving of the hub with slow, failing and leaving clients keeps
\* the promise of Feed: the greeting first, then no gap and no repetition.
RefinesFeed == F!Spec
=============================================================================
