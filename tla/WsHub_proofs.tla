---------------------------- MODULE WsHub_proofs ----------------------------
(***************************************************************************)
(* For any number of clients, any size of their channels and any number of *)
(* lines: the hub never uses a channel it has closed, and the hub with its *)
(* goroutines implements Feed.                                             *)
(***************************************************************************)
EXTENDS WsHub, SequenceTheorems, TLAPS

-----------------------------------------------------------------------------
(* The inductive invariant *)

\* Where the hub is determines what it is about to use, and that the clients
\* it is about to use are connected.
HubAt ==
  /\ hub = "greet" => \E c \in connections : current = {c}
  /\ hub # "greet" => current = {}
  /\ hub = "cast" => todo \subseteq connections /\ msg = taken /\ taken > 0
  /\ hub # "cast" => todo = {}

\* The hub is done with a client when it closes its channel, and the client's
\* goroutine does nothing before it is registered nor after it was dismissed.
Member(c) ==
  /\ c \in closed => c \notin connections
  /\ client[c] \in {"idle", "register"} => c \notin connections \cup closed
  /\ client[c] = "done" => c \notin connections
  /\ client[c] = "pump" => held[c] = <<>>
  /\ client[c] \in {"idle", "register"} \/ c \in current
       => held[c] = <<>> /\ chan[c] = <<>> /\ received[c] = <<>>
  /\ c \in current => client[c] = "pump"

\* The greeting is the first line taken, if there was one.
Greeted ==
  /\ reader = "send" => line > 0
  /\ greeting = IF taken = 0 THEN NoLine ELSE 1

IInv == TypeOK /\ NeverPanics /\ HubAt /\ Greeted /\ \A c \in Clients : Member(c)

-----------------------------------------------------------------------------
(* The invariant is inductive: one lemma per goroutine *)

LEMMA InitInv == Init => IInv
<1> SUFFICES ASSUME Init PROVE IInv
  OBVIOUS
<1>1. TypeOK
  BY WsHubAssumption, EmptySeq DEF Init, TypeOK, NoLine, ClientStates
<1>2. NeverPanics /\ HubAt /\ Greeted
  BY DEF Init, NeverPanics, HubAt, Greeted, taken
<1>3. \A c \in Clients : Member(c)
  BY DEF Init, Member
<1> QED BY <1>1, <1>2, <1>3 DEF IInv

LEMMA ReaderInv ==
  ASSUME IInv, ReadLine \/ ReadError
  PROVE  IInv'
<1> USE DEF IInv, hubVars
<1>1. TypeOK'
  BY WsHubAssumption DEF ReadLine, ReadError, TypeOK
<1>2. taken' = taken
  BY WsHubAssumption DEF ReadLine, ReadError, TypeOK, taken
<1>3. NeverPanics' /\ HubAt'
  BY <1>2 DEF ReadLine, ReadError, NeverPanics, HubAt
<1>4. Greeted'
  BY <1>2, WsHubAssumption DEF ReadLine, ReadError, Greeted, TypeOK
<1>5. \A c \in Clients : Member(c)'
  BY DEF ReadLine, ReadError, Member
<1> QED BY <1>1, <1>3, <1>4, <1>5

LEMMA RegisterInv ==
  ASSUME IInv, NEW c \in Clients, Register(c)
  PROVE  IInv'
<1> USE DEF IInv
<1>1. TypeOK'
  BY DEF Register, TypeOK, ClientStates
<1>2. NeverPanics' /\ HubAt' /\ Greeted'
  BY DEF Register, NeverPanics, HubAt, Greeted, taken
<1>3. \A d \in Clients : Member(d)'
  BY DEF Register, Member, HubAt, TypeOK
<1> QED BY <1>1, <1>2, <1>3

LEMMA GreetInv ==
  ASSUME IInv, NEW c \in Clients, Greet(c)
  PROVE  IInv'
<1> USE DEF IInv
<1>1. c \in connections /\ current = {c} /\ c \notin closed /\ hub' = "select"
  BY DEF Greet, HubAt, Member, Using
<1>2. Append(chan[c], greeting) \in Seq(0..MaxLines)
  BY AppendProperties DEF TypeOK
<1>3. TypeOK'
  BY <1>1, <1>2 DEF Greet, TypeOK
<1>4. NeverPanics' /\ HubAt' /\ Greeted'
  BY <1>1 DEF Greet, NeverPanics, HubAt, Greeted, taken
<1>5. \A d \in Clients : Member(d)'
  BY <1>1 DEF Greet, Member, TypeOK
<1> QED BY <1>3, <1>4, <1>5

LEMMA UnregisterInv ==
  ASSUME IInv, NEW c \in Clients, Unregister(c)
  PROVE  IInv'
<1> USE DEF IInv
<1>1. hub' = "select" /\ c \notin connections'
  BY DEF Unregister, Dismiss, Using, Member
<1>2. TypeOK'
  BY <1>1 DEF Unregister, Dismiss, TypeOK, ClientStates
<1>3. NeverPanics' /\ HubAt' /\ Greeted'
  BY <1>1 DEF Unregister, NeverPanics, HubAt, Greeted, taken
<1>4. \A d \in Clients : Member(d)'
  BY <1>1 DEF Unregister, Dismiss, Member, TypeOK
<1> QED BY <1>2, <1>3, <1>4

LEMMA BroadcastInv ==
  ASSUME IInv, Broadcast
  PROVE  IInv'
<1> USE DEF IInv
<1>1. taken' = line /\ line > 0 /\ taken = line - 1
  BY DEF Broadcast, taken, Greeted
<1>2. TypeOK'
  BY DEF Broadcast, TypeOK
<1>3. NeverPanics' /\ HubAt'
  BY <1>1 DEF Broadcast, NeverPanics, HubAt, TypeOK
<1>4. Greeted'
  BY <1>1 DEF Broadcast, Greeted, NoLine, TypeOK
<1>5. \A d \in Clients : Member(d)'
  BY DEF Broadcast, Member
<1> QED BY <1>2, <1>3, <1>4, <1>5

LEMMA OfferInv ==
  ASSUME IInv, NEW c \in Clients, Offer(c)
  PROVE  IInv'
<1> USE DEF IInv
<1>1. /\ c \in connections /\ c \notin closed /\ todo \subseteq connections
      /\ hub' = (IF todo = {c} THEN "select" ELSE "cast")
      /\ current = {} /\ client[c] \notin {"idle", "register"}
  BY DEF Offer, HubAt, Member, Using
<1>2. Append(chan[c], msg) \in Seq(0..MaxLines)
  BY AppendProperties DEF TypeOK
<1>3. TypeOK'
  BY <1>1, <1>2 DEF Offer, Dismiss, TypeOK
<1>4. NeverPanics' /\ HubAt' /\ Greeted'
  BY <1>1 DEF Offer, Dismiss, NeverPanics, HubAt, Greeted, taken
<1>5. \A d \in Clients : Member(d)'
  BY <1>1 DEF Offer, Dismiss, Member, TypeOK
<1> QED BY <1>3, <1>4, <1>5

LEMMA ClientInv ==
  ASSUME IInv, NEW c \in Clients,
         Connect(c) \/ Receive(c) \/ Dismissed(c) \/ WriteDone(c) \/ WriteError(c)
  PROVE  IInv'
<1> USE DEF IInv, hubVars
<1>1. ASSUME chan[c] # <<>>
      PROVE  <<Head(chan[c])>> \in Seq(0..MaxLines) /\ Tail(chan[c]) \in Seq(0..MaxLines)
  <2>1. chan[c] \in Seq(0..MaxLines)
    BY DEF TypeOK
  <2>2. Head(chan[c]) \in 0..MaxLines /\ Tail(chan[c]) \in Seq(0..MaxLines)
    BY <1>1, <2>1, HeadTailProperties
  <2> QED BY <2>2
<1>2. received[c] \o held[c] \in Seq(0..MaxLines) /\ <<>> \in Seq(0..MaxLines)
  BY ConcatProperties, EmptySeq DEF TypeOK
<1>3. TypeOK'
  <2>1. CASE Connect(c) \/ Dismissed(c)
    BY <2>1 DEF Connect, Dismissed, TypeOK, ClientStates
  <2>2. CASE Receive(c)
    BY <1>1, <2>2 DEF Receive, TypeOK, ClientStates
  <2>3. CASE WriteDone(c)
    BY <1>2, <2>3 DEF WriteDone, TypeOK, ClientStates
  <2>4. CASE WriteError(c)
    BY <1>2, <2>4 DEF WriteError, TypeOK, ClientStates
  <2> QED BY <2>1, <2>2, <2>3, <2>4
<1>4. NeverPanics' /\ HubAt' /\ Greeted'
  BY DEF Connect, Receive, Dismissed, WriteDone, WriteError, NeverPanics, HubAt, Greeted, taken
<1>5. \A d \in Clients : Member(d)'
  BY DEF Connect, Receive, Dismissed, WriteDone, WriteError, Member, TypeOK, HubAt
<1> QED BY <1>3, <1>4, <1>5

LEMMA NextInv == IInv /\ [Next]_vars => IInv'
<1> SUFFICES ASSUME IInv, [Next]_vars PROVE IInv'
  OBVIOUS
<1>1. ASSUME UNCHANGED vars PROVE IInv'
  BY <1>1 DEF vars, hubVars, IInv, TypeOK, NeverPanics, HubAt, Greeted, taken, Member
<1> QED
  BY <1>1, ReaderInv, RegisterInv, GreetInv, UnregisterInv, BroadcastInv, OfferInv, ClientInv
     DEF Next, Exited

\* The invariant of the hub and its goroutines.
THEOREM InductiveInvariant == Spec => []IInv
BY InitInv, NextInv, PTL DEF Spec

\* Types of the state; a line is never numbered past those that were read.
THEOREM TypeCorrect == Spec => []TypeOK
BY InductiveInvariant, PTL DEF IInv

\* Neither run() nor any goroutine makes the hub send on or close a channel
\* that it closed before, for any number of clients and any order of events.
THEOREM HubNeverPanics == Spec => []NeverPanics
BY InductiveInvariant, PTL DEF IInv

-----------------------------------------------------------------------------
(* Refinement: each step is a step of Feed or changes nothing that a client *)
(* can see.                                                                 *)

Strings == Seq(0..MaxLines)

\* What is needed of sequences of lines.
LEMMA Concat ==
  ASSUME NEW r \in Strings, NEW s \in Strings
  PROVE  /\ <<>> \in Strings /\ r \o s \in Strings
         /\ r \o <<>> = r /\ <<>> \o r = r
<1> QED BY EmptySeq, ConcatProperties, ConcatEmptySeq DEF Strings

LEMMA Associative ==
  ASSUME NEW r \in Strings, NEW s \in Strings, NEW t \in Strings
  PROVE  (r \o s) \o t = r \o (s \o t)
<1> QED BY ConcatAssociative DEF Strings

\* A sequence is the beginning of any that continues it.
LEMMA Prefix ==
  ASSUME NEW r \in Strings, NEW s \in Strings
  PROVE  /\ Len(r) \in 0..Len(r \o s)
         /\ SubSeq(r \o s, 1, Len(r)) = r
<1>1. Len(r) \in Nat /\ Len(s) \in Nat /\ Len(r \o s) = Len(r) + Len(s)
  BY ConcatProperties, LenProperties DEF Strings
<1>2. CASE Len(r) = 0
  <2>1. r = <<>>
    BY <1>2, EmptySeq DEF Strings
  <2>2. SubSeq(r \o s, 1, Len(r)) = <<>>
    BY <1>2, SubSeqEmpty
  <2> QED BY <1>1, <2>1, <2>2
<1>3. CASE Len(r) # 0
  <2>1. 1 \in 1..Len(r) /\ Len(r) \in 1..Len(r)
    BY <1>1, <1>3
  <2>2. SubSeq(r \o s, 1, Len(r)) = SubSeq(r, 1, Len(r))
    BY <2>1, SubSeqOfConcat1 DEF Strings
  <2>3. SubSeq(r, 1, Len(r)) = r
    BY SubSeqFull DEF Strings
  <2> QED BY <1>1, <2>2, <2>3
<1> QED BY <1>2, <1>3

\* Adding a line to the queue adds it to the end of what was sent.
LEMMA Push ==
  ASSUME NEW s \in Strings, NEW m \in 0..MaxLines
  PROVE  Append(s, m) = s \o <<m>> /\ <<m>> \in Strings
<1>1. Append(s, m) = s \o <<m>>
  BY AppendIsConcat DEF Strings
<1>2. <<m>> \in Seq(0..MaxLines)
  OBVIOUS
<1> QED BY <1>1, <1>2 DEF Strings

\* The first of a sequence and the rest make up the sequence.
LEMMA HeadTail ==
  ASSUME NEW s \in Strings, s # <<>>
  PROVE  <<Head(s)>> \o Tail(s) = s
<1>1. Len(s) \in Nat \ {0}
  BY EmptySeq DEF Strings
<1>2. SubSeq(s, 1, Len(s)) = <<s[1]>> \o SubSeq(s, 2, Len(s))
  BY <1>1, SubSeqRecursiveFirst DEF Strings
<1>3. Tail(s) = SubSeq(s, 2, Len(s)) /\ SubSeq(s, 1, Len(s)) = s /\ Head(s) = s[1]
  BY TailIsSubSeq, SubSeqFull DEF Strings
<1> QED BY <1>2, <1>3

\* What a client was sent is a sequence of lines.
LEMMA ViewType ==
  ASSUME IInv, NEW c \in Clients
  PROVE  /\ received[c] \in Strings /\ held[c] \in Strings /\ chan[c] \in Strings
         /\ held[c] \o chan[c] \in Strings
         /\ received[c] \o (held[c] \o chan[c]) \in Strings
<1>1. received[c] \in Strings /\ held[c] \in Strings /\ chan[c] \in Strings
  BY DEF IInv, TypeOK, Strings
<1>2. held[c] \o chan[c] \in Strings
  BY <1>1, Concat
<1>3. received[c] \o (held[c] \o chan[c]) \in Strings
  BY <1>1, <1>2, Concat
<1> QED BY <1>1, <1>2, <1>3

LEMMA InitRefines == Init => F!Init
<1> SUFFICES ASSUME Init PROVE F!Init
  OBVIOUS
<1>1. logBar = <<>>
  BY DEF Init, logBar, taken
<1>2. \A c \in Clients : viewBar[c] = <<>>
  BY EmptySeq, ConcatEmptySeq DEF Init, viewBar
<1>3. statusBar = [c \in Clients |-> "out"] /\ owedBar = {}
  BY DEF Init, statusBar, owedBar, Out
<1> QED BY <1>1, <1>2, <1>3 DEF F!Init, viewBar

\* Broadcast is Publish.
LEMMA BroadcastRefines ==
  ASSUME IInv, Broadcast
  PROVE  F!Publish(line)
<1>1. taken' = line /\ line > 0 /\ taken = line - 1 /\ line \in Nat
  BY DEF Broadcast, taken, IInv, Greeted, TypeOK
<1>2. logBar' = Append(logBar, line)
  BY <1>1 DEF logBar
<1>3. owedBar = {} /\ current = {} /\ current' = {}
  BY DEF Broadcast, owedBar, IInv, HubAt
<1>4. owedBar' = {c \in Clients : statusBar[c] = "in"}
  BY <1>3 DEF Broadcast, owedBar, statusBar, In, Out, IInv, TypeOK
<1>5. UNCHANGED <<statusBar, viewBar>>
  BY DEF Broadcast, statusBar, viewBar, In, Out
<1> QED BY <1>2, <1>3, <1>4, <1>5 DEF F!Publish

\* Greet is Join.
LEMMA GreetRefines ==
  ASSUME IInv, NEW c \in Clients, Greet(c)
  PROVE  F!Join(c)
<1>1. /\ current = {c} /\ current' = {} /\ c \in connections /\ client[c] = "pump"
      /\ held[c] = <<>> /\ chan[c] = <<>> /\ received[c] = <<>>
  BY DEF Greet, IInv, HubAt, Member
<1>2. statusBar[c] = "out" /\ statusBar' = [statusBar EXCEPT ![c] = "in"]
  BY <1>1 DEF Greet, statusBar, In, Out
<1>3. UNCHANGED <<logBar, owedBar>>
  BY DEF Greet, logBar, taken, owedBar, IInv, HubAt
<1>4. greeting = F!Greeting
  <2>1. taken \in Nat /\ greeting = IF taken = 0 THEN NoLine ELSE 1
    BY WsHubAssumption DEF IInv, Greeted, TypeOK, taken
  <2>2. CASE taken = 0
    BY <2>1, <2>2 DEF F!Greeting, logBar
  <2>3. CASE taken # 0
    <3>1. logBar[1] = 1 /\ 1 \in DOMAIN logBar
      BY <2>1, <2>3 DEF logBar
    <3>2. logBar # <<>>
      BY <3>1
    <3> QED BY <2>1, <2>3, <3>1, <3>2 DEF F!Greeting
  <2> QED BY <2>2, <2>3
<1>5. viewBar'[c] = <<greeting>>
  BY <1>1, EmptySeq, ConcatEmptySeq DEF Greet, viewBar, IInv, TypeOK
<1>6. viewBar' = [viewBar EXCEPT ![c] = <<greeting>>]
  BY <1>5 DEF Greet, viewBar, IInv, TypeOK
<1> QED BY <1>2, <1>3, <1>4, <1>6 DEF F!Join

\* A round of the loop over the connections is Take, or Leave if the client's
\* channel is full, or nothing if the client has left already.
LEMMA OfferRefines ==
  ASSUME IInv, NEW c \in Clients, Offer(c)
  PROVE  F!Take(c) \/ F!Leave(c) \/ UNCHANGED F!vars
<1>1. /\ c \in todo /\ c \in connections /\ current = {} /\ current' = {}
      /\ client[c] \notin {"idle", "register"} /\ msg = taken /\ taken > 0 /\ taken \in Nat
  BY DEF Offer, IInv, HubAt, Member, TypeOK, taken
<1>2. logBar' = logBar
  BY DEF Offer, logBar, taken
<1>3. Len(logBar) = taken /\ logBar[Len(logBar)] = msg
  BY <1>1 DEF logBar
<1>4. CASE In(c) /\ Len(chan[c]) < Cap
  <2>1. owedBar' = owedBar \ {c} /\ c \in owedBar
    BY <1>1, <1>4 DEF Offer, owedBar, In
  <2>2. statusBar' = statusBar
    BY <1>1, <1>4 DEF Offer, statusBar, In, Out
  <2>3. chan'[c] = Append(chan[c], msg)
    BY <1>4 DEF Offer, IInv, TypeOK
  <2>4. viewBar'[c] = Append(viewBar[c], msg)
    <3>1. viewBar[c] = received[c] \o (held[c] \o chan[c])
      BY <1>4 DEF viewBar, In
    <3>2. viewBar'[c] = received[c] \o (held[c] \o chan'[c])
      BY <1>4 DEF Offer, viewBar, In
    <3>3. msg \in 0..MaxLines
      BY DEF IInv, TypeOK
    <3>4. (chan')[c] = chan[c] \o <<msg>> /\ <<msg>> \in Strings
      BY <2>3, <3>3, ViewType, Push
    <3>5. received[c] \o (held[c] \o (chan[c] \o <<msg>>)) = received[c] \o ((held[c] \o chan[c]) \o <<msg>>)
      BY <3>4, ViewType, Associative
    <3>6. received[c] \o ((held[c] \o chan[c]) \o <<msg>>) = (received[c] \o (held[c] \o chan[c])) \o <<msg>>
      BY <3>4, ViewType, Associative
    <3>7. (received[c] \o (held[c] \o chan[c])) \o <<msg>> = Append(viewBar[c], msg)
      BY <3>1, <3>3, ViewType, Push
    <3> QED BY <3>2, <3>4, <3>5, <3>6, <3>7
  <2>5. viewBar' = [viewBar EXCEPT ![c] = Append(@, msg)]
    BY <2>4, <1>4 DEF Offer, viewBar, IInv, TypeOK
  <2> QED BY <1>2, <1>3, <2>1, <2>2, <2>5 DEF F!Take
<1>5. CASE In(c) /\ ~(Len(chan[c]) < Cap)
  <2>1. owedBar' = owedBar \ {c}
    BY <1>1, <1>5 DEF Offer, Dismiss, owedBar, In
  <2>2. statusBar[c] # "out" /\ statusBar' = [statusBar EXCEPT ![c] = "cut"]
    BY <1>1, <1>5 DEF Offer, Dismiss, statusBar, In, Out
  <2>3. viewBar' = viewBar
    BY <1>5 DEF Offer, viewBar
  <2>4. viewBar[c] \in Strings
    BY <1>5, ViewType DEF viewBar, In
  <2>5. \E k \in 0..Len(viewBar[c]) : viewBar' = [viewBar EXCEPT ![c] = SubSeq(@, 1, k)]
    <3>1. SubSeq(viewBar[c], 1, Len(viewBar[c])) = viewBar[c] /\ Len(viewBar[c]) \in Nat
      BY <2>4, SubSeqFull, LenProperties DEF Strings
    <3>2. viewBar' = [viewBar EXCEPT ![c] = SubSeq(@, 1, Len(viewBar[c]))]
      BY <3>1, <2>3 DEF viewBar
    <3>3. Len(viewBar[c]) \in 0..Len(viewBar[c])
      BY <3>1
    <3> QED BY <3>2, <3>3
  <2> QED BY <1>2, <2>1, <2>2, <2>5 DEF F!Leave
<1>6. CASE ~In(c)
  <2>1. client[c] \notin {"pump", "write"}
    BY <1>1, <1>6 DEF In
  <2>2. UNCHANGED <<owedBar, statusBar>>
    BY <1>1, <1>6, <2>1 DEF Offer, Dismiss, owedBar, statusBar, In, Out
  <2>3. UNCHANGED viewBar
    BY <2>1 DEF Offer, viewBar, IInv, TypeOK
  <2> QED BY <1>2, <2>2, <2>3 DEF F!vars
<1> QED BY <1>4, <1>5, <1>6

\* A failed write is Leave.
LEMMA WriteErrorRefines ==
  ASSUME IInv, NEW c \in Clients, WriteError(c)
  PROVE  F!Leave(c)
<1>1. client[c] = "write" /\ c \notin current
  BY DEF WriteError, IInv, Member
<1>2. logBar' = logBar
  BY DEF WriteError, hubVars, logBar, taken
<1>3. owedBar' = owedBar \ {c}
  BY <1>1 DEF WriteError, hubVars, owedBar, In, IInv, TypeOK
<1>4. statusBar[c] # "out" /\ statusBar' = [statusBar EXCEPT ![c] = "cut"]
  BY <1>1 DEF WriteError, hubVars, statusBar, In, Out, IInv, TypeOK
<1>5. viewBar[c] = received[c] \o (held[c] \o chan[c]) /\ viewBar'[c] = received[c]
  BY <1>1, ViewType, Concat DEF WriteError, hubVars, viewBar, IInv, TypeOK
<1>6. Len(received[c]) \in 0..Len(viewBar[c]) /\ SubSeq(viewBar[c], 1, Len(received[c])) = received[c]
  BY <1>5, ViewType, Prefix
<1>7. viewBar' = [viewBar EXCEPT ![c] = SubSeq(@, 1, Len(received[c]))]
  BY <1>5, <1>6 DEF WriteError, hubVars, viewBar, IInv, TypeOK
<1> QED BY <1>2, <1>3, <1>4, <1>6, <1>7 DEF F!Leave

\* The rest of what goroutines do is invisible.
LEMMA StutterRefines ==
  ASSUME IInv,
         \/ ReadLine \/ ReadError \/ UNCHANGED vars
         \/ \E c \in Clients : \/ Register(c) \/ Unregister(c) \/ Connect(c)
                              \/ Receive(c) \/ Dismissed(c) \/ WriteDone(c)
  PROVE  UNCHANGED F!vars
<1>1. ASSUME ReadLine \/ ReadError \/ UNCHANGED vars PROVE UNCHANGED F!vars
  <2>1. taken' = taken
    BY <1>1, WsHubAssumption DEF ReadLine, ReadError, vars, taken, IInv, TypeOK
  <2> QED
    BY <1>1, <2>1 DEF ReadLine, ReadError, vars, hubVars, F!vars, logBar, statusBar, owedBar,
                      viewBar, In, Out
<1>2. ASSUME NEW c \in Clients, Register(c) PROVE UNCHANGED F!vars
  <2>1. /\ client[c] = "register" /\ client'[c] = "pump" /\ current = {} /\ current' = {c}
        /\ todo = {} /\ held[c] = <<>> /\ chan[c] = <<>> /\ received[c] = <<>>
    BY <1>2 DEF Register, IInv, HubAt, Member, TypeOK
  <2>2. UNCHANGED <<logBar, statusBar, owedBar>>
    BY <1>2, <2>1 DEF Register, logBar, taken, statusBar, owedBar, In, Out, IInv, TypeOK
  <2>3. viewBar[c] = <<>> /\ viewBar'[c] = <<>>
    BY <1>2, <2>1, EmptySeq, ConcatEmptySeq DEF Register, viewBar
  <2>4. UNCHANGED viewBar
    BY <1>2, <2>3 DEF Register, viewBar, IInv, TypeOK
  <2> QED BY <2>2, <2>4 DEF F!vars
<1>3. ASSUME NEW c \in Clients, Unregister(c) PROVE UNCHANGED F!vars
  <2>1. /\ client[c] = "unregister" /\ client'[c] = "done" /\ current = {} /\ todo = {}
        /\ \A d \in Clients : d # c => client'[d] = client[d] /\ (d \in connections' <=> d \in connections)
    BY <1>3 DEF Unregister, Dismiss, IInv, HubAt, TypeOK
  <2>2. UNCHANGED <<logBar, owedBar, viewBar>>
    BY <1>3, <2>1 DEF Unregister, logBar, taken, owedBar, viewBar
  <2>3. UNCHANGED statusBar
    BY <1>3, <2>1 DEF Unregister, statusBar, In, Out
  <2> QED BY <2>2, <2>3 DEF F!vars
<1>4. ASSUME NEW c \in Clients, Connect(c) PROVE UNCHANGED F!vars
  BY <1>4 DEF Connect, hubVars, F!vars, logBar, taken, statusBar, owedBar, viewBar, In, Out,
              IInv, TypeOK
<1>5. ASSUME NEW c \in Clients, Receive(c) \/ Dismissed(c) \/ WriteDone(c)
      PROVE  UNCHANGED F!vars
  <2>1. /\ client[c] \in {"pump", "write"}
        /\ (client')[c] \in {"pump", "write"} \/ c \notin connections \cup current
        /\ (client')[c] \notin {"idle", "register"}
    BY <1>5 DEF Receive, Dismissed, WriteDone, IInv, HubAt, Member, TypeOK
  <2>2. UNCHANGED <<logBar, statusBar, owedBar>>
    BY <1>5, <2>1 DEF Receive, Dismissed, WriteDone, hubVars, logBar, taken, statusBar, owedBar,
                      In, Out, IInv, TypeOK
  <2>3. viewBar'[c] = viewBar[c]
    <3>1. CASE Receive(c)
      <4>1. held[c] = <<>> /\ chan[c] # <<>> /\ held'[c] = <<Head(chan[c])>> /\ chan'[c] = Tail(chan[c])
        BY <3>1 DEF Receive, IInv, Member, TypeOK
      <4>2. <<Head(chan[c])>> \o Tail(chan[c]) = chan[c] /\ <<>> \o chan[c] = chan[c]
        BY <4>1, ViewType, HeadTail, Concat
      <4> QED BY <3>1, <4>1, <4>2 DEF Receive, viewBar, IInv, TypeOK
    <3>2. CASE Dismissed(c)
      <4>1. held[c] = <<>> /\ chan[c] = <<>>
        BY <3>2 DEF Dismissed, IInv, Member
      <4>2. <<>> \o <<>> = <<>>
        BY EmptySeq, ConcatEmptySeq
      <4> QED BY <3>2, <4>1, <4>2 DEF Dismissed, viewBar, hubVars, IInv, TypeOK
    <3>3. CASE WriteDone(c)
      <4>1. /\ viewBar[c] = received[c] \o (held[c] \o chan[c])
            /\ viewBar'[c] = (received[c] \o held[c]) \o (<<>> \o chan[c])
        BY <3>3 DEF WriteDone, viewBar, hubVars, IInv, TypeOK
      <4>2. <<>> \o chan[c] = chan[c]
        BY ViewType, Concat
      <4>3. (received[c] \o held[c]) \o chan[c] = received[c] \o (held[c] \o chan[c])
        <5>1. received[c] \in Strings /\ held[c] \in Strings /\ chan[c] \in Strings
          BY ViewType
        <5> QED BY <5>1, Associative
      <4> QED BY <4>1, <4>2, <4>3
    <3> QED BY <1>5, <3>1, <3>2, <3>3
  <2>4. UNCHANGED viewBar
    BY <1>5, <2>3 DEF Receive, Dismissed, WriteDone, hubVars, viewBar, IInv, TypeOK
  <2> QED BY <2>2, <2>4 DEF F!vars
<1> QED BY <1>1, <1>2, <1>3, <1>4, <1>5

LEMMA StepRefines == IInv /\ [Next]_vars => [F!Next]_(F!vars)
<1> SUFFICES ASSUME IInv, [Next]_vars PROVE [F!Next]_(F!vars)
  OBVIOUS
<1>1. ASSUME Broadcast PROVE line \in 1..MaxLines
  BY <1>1 DEF Broadcast, IInv, Greeted, TypeOK
<1> QED
  BY <1>1, BroadcastRefines, GreetRefines, OfferRefines, WriteErrorRefines, StutterRefines
     DEF Next, Exited, F!Next

\* Whatever clients do and however many there are, each of them gets the
\* greeting and then every line without a gap until it is given up.
THEOREM Refinement == Spec => RefinesFeed
BY InitRefines, StepRefines, InductiveInvariant, PTL DEF Spec, RefinesFeed, F!Spec

=============================================================================
