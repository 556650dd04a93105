-------------------------------- MODULE Feed --------------------------------
(***************************************************************************)
(* What the websocket sink promises its clients: each of them gets the     *)
(* greeting (the first line ever read, or nothing if there is none yet)    *)
(* and then every line read since it joined, in order and without a gap,   *)
(* until the feed gives it up.  A client that is given up may lose the end *)
(* of what was queued for it, but never a line in the middle.              *)
(***************************************************************************)
EXTENDS Integers, Sequences

CONSTANTS Clients, Lines, NoLine

VARIABLES
  log,     \* the lines read, oldest first
  status,  \* [Clients -> {"out", "in", "cut"}]
  owed,    \* the clients that have yet to get the last line
  view     \* what each client was sent, the greeting first

vars == <<log, status, owed, view>>

\* The first line read, which in json and proto streams is the header.
Greeting == IF log = <<>> THEN NoLine ELSE log[1]

Init ==
  /\ log = <<>>
  /\ status = [c \in Clients |-> "out"]
  /\ owed = {}
  /\ view = [c \in Clients |-> <<>>]

\* The next line is taken in once everybody has got the last one.
Publish(m) ==
  /\ owed = {}
  /\ log' = Append(log, m)
  /\ owed' = {c \in Clients : status[c] = "in"}
  /\ UNCHANGED <<status, view>>

Join(c) ==
  /\ status[c] = "out"
  /\ status' = [status EXCEPT ![c] = "in"]
  /\ view' = [view EXCEPT ![c] = <<Greeting>>]
  /\ UNCHANGED <<log, owed>>

Take(c) ==
  /\ c \in owed
  /\ owed' = owed \ {c}
  /\ view' = [view EXCEPT ![c] = Append(@, log[Len(log)])]
  /\ UNCHANGED <<log, status>>

Leave(c) ==
  /\ status[c] # "out"
  /\ status' = [status EXCEPT ![c] = "cut"]
  /\ owed' = owed \ {c}
  /\ \E k \in 0..Len(view[c]) : view' = [view EXCEPT ![c] = SubSeq(@, 1, k)]
  /\ UNCHANGED log

Next ==
  \/ \E m \in Lines : Publish(m)
  \/ \E c \in Clients : Join(c) \/ Take(c) \/ Leave(c)

Spec == Init /\ [][Next]_vars
=============================================================================
