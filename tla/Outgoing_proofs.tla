-------------------------- MODULE Outgoing_proofs ---------------------------
(***************************************************************************)
(* For address lists of any length and any number of failures in a row:    *)
(* the list and the socket of an outgoing transport have one owner at a    *)
(* time, and each address is tried once, in order, before a retry.  What   *)
(* the backoff computes plays no part in it.                               *)
(***************************************************************************)
EXTENDS Outgoing, SequenceTheorems, TLAPS

-----------------------------------------------------------------------------
(* The inductive invariant *)

\* The walk has tried every address up to the current one, once; before the
\* resolution has answered there is none.
Walked ==
  state = "run" =>
    /\ handler \in {"connected", "closed"} => tried = InOrder(addr)
    /\ handler = "resolved" => naddrs = 0 /\ tried = InOrder(0)

IInv == TypeOK /\ AddrsLiveWhileConnecting /\ OneSocketOwner /\ Walked

\* TypeOK but for held: provers treat Booleans and arithmetic apart.
Types ==
  /\ state \in {"run", "deleted", "trapped"}
  /\ handler \in {"resolved", "connected", "closed", "retry"}
  /\ fd \in {"none", "resolution", "socket"}
  /\ naddrs \in 0..MaxAddrs /\ addr \in 0..(MaxAddrs + 1)
  /\ attempt \in 0..MaxAttempt
  /\ stream \in {"none", "open"}
  /\ hello \in {"none", "queued", "lost"}
  /\ tried \in Seq(1..MaxAddrs)

\* What a call of outgoing_connect_next() on address k leads to, when those
\* before it have been tried.
NextTried(n) ==
  \/ /\ handler' = "connected" /\ state' = "run" /\ held' = TRUE /\ fd' = "socket"
     /\ addr' \in 1..n /\ tried' = InOrder(addr')
  \/ /\ \/ state' = "trapped"
        \/ state' = "run" /\ handler' = "retry"
     /\ held' = FALSE /\ fd' = "none" /\ addr' = n + 1 /\ tried' = InOrder(n)

-----------------------------------------------------------------------------
(* Lemmas *)

\* The positions of a list, and those before the first.
LEMMA InOrderType ==
  /\ InOrder(0) = <<>>
  /\ \A n \in 0..MaxAddrs : InOrder(n) \in Seq(1..MaxAddrs)
<1>1. InOrder(0) = <<>>
  BY DEF InOrder
<1>2. ASSUME NEW n \in 0..MaxAddrs PROVE InOrder(n) \in Seq(1..MaxAddrs)
  <2>1. n \in Nat /\ \A i \in 1..n : i \in 1..MaxAddrs
    BY OutgoingAssumption
  <2>2. InOrder(n) = [i \in 1..n |-> i]
    BY DEF InOrder
  <2> QED BY <2>1, <2>2
<1> QED BY <1>1, <1>2

\* outgoing->addr goes on where it was: no position is left out and none comes twice.
LEMMA WalkOn ==
  ASSUME NEW k \in Nat \ {0}, NEW j \in Nat, k <= j + 1
  PROVE  InOrder(k - 1) \o Walk(k, j) = InOrder(j)
<1> DEFINE a == InOrder(k - 1)
           b == Walk(k, j)
           c == InOrder(j)
<1>1. k - 1 \in Nat /\ j - k + 1 \in Nat /\ (k - 1) + (j - k + 1) = j
  OBVIOUS
<1>2. a \in Seq(Nat) /\ Len(a) = k - 1 /\ \A i \in 1..(k - 1) : a[i] = i
  <2>1. a = [i \in 1..(k - 1) |-> i]
    BY DEF InOrder
  <2> HIDE DEF a
  <2> QED BY <1>1, <2>1
<1>3. b \in Seq(Nat) /\ Len(b) = j - k + 1 /\ \A i \in 1..(j - k + 1) : b[i] = k + i - 1
  <2>1. b = [i \in 1..(j - k + 1) |-> k + i - 1]
    BY DEF Walk
  <2>2. \A i \in 1..(j - k + 1) : k + i - 1 \in Nat
    OBVIOUS
  <2> HIDE DEF b
  <2> QED BY <1>1, <2>1, <2>2
<1>4. c \in Seq(Nat) /\ Len(c) = j /\ \A i \in 1..j : c[i] = i
  <2>1. c = [i \in 1..j |-> i]
    BY DEF InOrder
  <2> HIDE DEF c
  <2> QED BY <2>1
<1> HIDE DEF a, b, c
<1>5. /\ a \o b \in Seq(Nat) /\ Len(a \o b) = j
      /\ \A i \in 1..j : (a \o b)[i] = IF i <= k - 1 THEN a[i] ELSE b[i - (k - 1)]
  <2>1. /\ a \o b \in Seq(Nat) /\ Len(a \o b) = Len(a) + Len(b)
        /\ \A i \in 1..Len(a) + Len(b) :
             (a \o b)[i] = IF i <= Len(a) THEN a[i] ELSE b[i - Len(a)]
    BY <1>2, <1>3, ConcatProperties
  <2>2. Len(a) + Len(b) = j
    BY <1>1, <1>2, <1>3
  <2> QED BY <1>2, <2>1, <2>2
<1>6. ASSUME NEW i \in 1..j PROVE (a \o b)[i] = c[i]
  <2>1. CASE i <= k - 1
    <3>1. i \in 1..(k - 1)
      BY <2>1
    <3> QED BY <1>2, <1>4, <1>5, <2>1, <3>1
  <2>2. CASE i > k - 1
    <3>1. i - (k - 1) \in 1..(j - k + 1) /\ k + (i - (k - 1)) - 1 = i /\ ~(i <= k - 1)
      BY <1>1, <2>2
    <3> QED BY <1>3, <1>4, <1>5, <3>1
  <2>3. i \in Nat /\ k - 1 \in Nat
    BY <1>1
  <2>4. i <= k - 1 \/ i > k - 1
    BY <2>3
  <2> QED BY <2>1, <2>2, <2>4
<1>7. a \o b = c
  BY <1>4, <1>5, <1>6, SeqEqual
<1> QED BY <1>7 DEF a, b, c

LEMMA InitInv == Init => IInv
<1> SUFFICES ASSUME Init PROVE IInv
  OBVIOUS
<1>1. TypeOK
  <2>1. held \in BOOLEAN
    BY Zenon DEF Init
  <2>2. Types
    <3>1. <<>> \in Seq(1..MaxAddrs)
      OBVIOUS
    <3> QED BY <3>1, OutgoingAssumption DEF Init, Types
  <2> QED BY <2>1, <2>2 DEF TypeOK, Types
<1>2. AddrsLiveWhileConnecting
  BY DEF Init, AddrsLiveWhileConnecting
<1>3. OneSocketOwner /\ Walked
  BY InOrderType DEF Init, OneSocketOwner, Walked
<1> QED BY <1>1, <1>2, <1>3 DEF IInv

\* outgoing_retry() counts up to the bound and keeps the types.
LEMMA RetryEffect ==
  ASSUME TypeOK, OutgoingRetry
  PROVE  /\ attempt' \in 0..MaxAttempt /\ fd' = "none"
         /\ \/ state' = "trapped" /\ handler' = handler
            \/ state' = state /\ handler' = "retry"
BY OutgoingAssumption DEF OutgoingRetry, TypeOK

\* outgoing_connect_next() skips no address and frees the list if it finds none.
LEMMA ConnectNextEffect ==
  ASSUME TypeOK, state = "run", NEW n \in 1..MaxAddrs, NEW k \in 1..(n + 1), NEW done,
         done = InOrder(k - 1), ConnectNext(k, n, done)
  PROVE  /\ NextTried(n)
         /\ attempt' \in 0..MaxAttempt /\ hello' \in {"none", "queued", "lost"}
         /\ handler' \in {"resolved", "connected", "closed", "retry"}
<1>1. n \in Nat /\ k \in Nat /\ k > 0 /\ MaxAddrs \in Nat
  BY OutgoingAssumption
<1>2. ASSUME NEW j \in k..n, addr' = j, tried' = done \o Walk(k, j), held' = TRUE, fd' = "socket",
             SendtoFastopen, handler' = "connected", UNCHANGED <<state, attempt>>
      PROVE  /\ NextTried(n)
             /\ attempt' \in 0..MaxAttempt /\ hello' \in {"none", "queued", "lost"}
  <2>1. k \in Nat \ {0} /\ j \in Nat /\ k <= j + 1 /\ j \in 1..n
    BY <1>1
  <2>2. done \o Walk(k, j) = InOrder(j)
    BY <2>1, WalkOn
  <2> QED BY <1>2, <2>1, <2>2 DEF NextTried, SendtoFastopen, TypeOK
<1>3. ASSUME addr' = n + 1, tried' = done \o Walk(k, n), held' = FALSE, hello' = "none", OutgoingRetry
      PROVE  /\ NextTried(n)
             /\ attempt' \in 0..MaxAttempt /\ hello' \in {"none", "queued", "lost"}
             /\ handler' \in {"resolved", "connected", "closed", "retry"}
  <2>1. k \in Nat \ {0} /\ n \in Nat /\ k <= n + 1
    BY <1>1
  <2>2. done \o Walk(k, n) = InOrder(n)
    BY <2>1, WalkOn
  <2> QED BY <1>3, <2>2, RetryEffect DEF NextTried, TypeOK
<1> QED BY <1>2, <1>3 DEF ConnectNext

\* An outcome of outgoing_connect_next() keeps the invariant.
LEMMA NextTriedInv ==
  ASSUME IInv, state = "run", handler # "closed", NEW n \in 1..MaxAddrs, NextTried(n), naddrs' = n,
         attempt' \in 0..MaxAttempt, hello' \in {"none", "queued", "lost"},
         handler' \in {"resolved", "connected", "closed", "retry"}, UNCHANGED stream
  PROVE  IInv'
<1>1. n \in Nat /\ MaxAddrs \in Nat
  BY OutgoingAssumption
<1>2. addr' \in 0..(MaxAddrs + 1) /\ tried' \in Seq(1..MaxAddrs)
  BY <1>1, InOrderType DEF NextTried
<1>3. TypeOK'
  <2>1. (held \in BOOLEAN)'
    BY Zenon DEF NextTried
  <2>2. Types'
    BY <1>1, <1>2 DEF NextTried, IInv, TypeOK, Types
  <2> QED BY <2>1, <2>2 DEF TypeOK, Types
<1>4. AddrsLiveWhileConnecting'
  BY DEF NextTried, AddrsLiveWhileConnecting
<1>5. OneSocketOwner' /\ Walked'
  BY DEF NextTried, IInv, TypeOK, OneSocketOwner, Walked
<1> QED BY <1>3, <1>4, <1>5 DEF IInv

LEMMA ResolveHandlerInv ==
  ASSUME IInv, ResolveHandler
  PROVE  IInv'
<1>1. ASSUME OutgoingRetry, UNCHANGED <<held, naddrs, addr, hello, tried, stream>> PROVE IInv'
  BY <1>1, RetryEffect
     DEF ResolveHandler, IInv, TypeOK, AddrsLiveWhileConnecting, OneSocketOwner, Walked
<1>2. ASSUME NEW n \in 1..MaxAddrs, naddrs' = n, ConnectNext(1, n, <<>>), UNCHANGED stream PROVE IInv'
  <2>1. n \in Nat /\ 1 \in 1..(n + 1) /\ <<>> = InOrder(1 - 1)
    BY OutgoingAssumption, InOrderType
  <2>2. /\ NextTried(n)
        /\ attempt' \in 0..MaxAttempt /\ hello' \in {"none", "queued", "lost"}
        /\ handler' \in {"resolved", "connected", "closed", "retry"}
    BY <1>2, <2>1, ConnectNextEffect DEF ResolveHandler, IInv
  <2> QED BY <1>2, <2>2, NextTriedInv DEF ResolveHandler
<1> QED BY <1>1, <1>2 DEF ResolveHandler

\* outgoing_connect_handler() goes on with the address after the current one.
LEMMA ConnectHandlerEffect ==
  ASSUME IInv, ConnectHandler
  PROVE  \/ /\ held' = FALSE /\ attempt' = 0 /\ fd' = "none" /\ handler' = "closed"
            /\ stream' = "open" /\ UNCHANGED <<state, naddrs, addr, hello, tried>>
         \/ /\ naddrs \in 1..MaxAddrs /\ NextTried(naddrs)
            /\ attempt' \in 0..MaxAttempt /\ hello' \in {"none", "queued", "lost"}
            /\ handler' \in {"resolved", "connected", "closed", "retry"}
            /\ UNCHANGED <<stream, naddrs>>
<1>1. CASE ConnectNext(addr + 1, naddrs, tried) /\ UNCHANGED <<stream, naddrs>>
  <2>1. naddrs \in 1..MaxAddrs /\ addr \in 1..naddrs /\ tried = InOrder(addr)
    BY OutgoingAssumption
       DEF ConnectHandler, IInv, TypeOK, AddrsLiveWhileConnecting, Walked
  <2>2. addr + 1 \in 1..(naddrs + 1) /\ tried = InOrder((addr + 1) - 1)
    BY <2>1, OutgoingAssumption
  <2>3. /\ NextTried(naddrs)
        /\ attempt' \in 0..MaxAttempt /\ hello' \in {"none", "queued", "lost"}
        /\ handler' \in {"resolved", "connected", "closed", "retry"}
    BY <1>1, <2>1, <2>2, ConnectNextEffect DEF ConnectHandler, IInv
  <2> QED BY <1>1, <2>1, <2>3
<1> QED BY <1>1 DEF ConnectHandler

LEMMA ConnectHandlerInv ==
  ASSUME IInv, ConnectHandler
  PROVE  IInv'
<1>1. CASE /\ held' = FALSE /\ attempt' = 0 /\ fd' = "none" /\ handler' = "closed"
           /\ stream' = "open" /\ UNCHANGED <<state, naddrs, addr, hello, tried>>
  <2>1. (held \in BOOLEAN)'
    BY <1>1, Zenon
  <2>2. Types'
    BY <1>1, OutgoingAssumption DEF IInv, TypeOK, Types
  <2>3. AddrsLiveWhileConnecting'
    BY <1>1 DEF AddrsLiveWhileConnecting
  <2>4. OneSocketOwner' /\ Walked'
    <3>1. tried = InOrder(addr)
      BY DEF ConnectHandler, IInv, Walked
    <3> QED BY <1>1, <3>1 DEF OneSocketOwner, Walked
  <2>5. TypeOK'
    BY <2>1, <2>2 DEF TypeOK, Types
  <2> QED BY <2>3, <2>4, <2>5 DEF IInv
<1>2. CASE /\ naddrs \in 1..MaxAddrs /\ NextTried(naddrs)
           /\ attempt' \in 0..MaxAttempt /\ hello' \in {"none", "queued", "lost"}
           /\ handler' \in {"resolved", "connected", "closed", "retry"}
           /\ UNCHANGED <<stream, naddrs>>
  BY <1>2, NextTriedInv DEF ConnectHandler
<1> QED BY <1>1, <1>2, ConnectHandlerEffect

LEMMA OtherInv ==
  ASSUME IInv, OutgoingResolve \/ DisconnectHandler \/ OutgoingDel \/ UNCHANGED vars
  PROVE  IInv'
<1>1. ASSUME OutgoingDel \/ UNCHANGED vars PROVE IInv'
  <2>1. (held \in BOOLEAN)'
    BY <1>1 DEF OutgoingDel, vars, IInv, TypeOK
  <2>2. Types'
    BY <1>1 DEF OutgoingDel, vars, IInv, TypeOK, Types
  <2>3. AddrsLiveWhileConnecting'
    BY <1>1 DEF OutgoingDel, vars, IInv, TypeOK, AddrsLiveWhileConnecting
  <2>4. OneSocketOwner' /\ Walked'
    BY <1>1 DEF OutgoingDel, vars, IInv, OneSocketOwner, Walked
  <2>5. TypeOK'
    BY <2>1, <2>2 DEF TypeOK, Types
  <2> QED BY <2>3, <2>4, <2>5 DEF IInv
<1>3. ASSUME OutgoingResolve PROVE IInv'
  <2>1. (held \in BOOLEAN)'
    BY <1>3 DEF OutgoingResolve, IInv, TypeOK
  <2>2. tried' \in Seq(1..MaxAddrs) /\ tried' = InOrder(0)
    BY <1>3, InOrderType, EmptySeq DEF OutgoingResolve
  <2>3. Types'
    BY <1>3, <2>2, OutgoingAssumption DEF OutgoingResolve, IInv, TypeOK, Types
  <2>4. AddrsLiveWhileConnecting'
    BY <1>3 DEF OutgoingResolve, IInv, TypeOK, AddrsLiveWhileConnecting
  <2>5. OneSocketOwner' /\ Walked'
    BY <1>3, <2>2 DEF OutgoingResolve, IInv, OneSocketOwner, Walked
  <2>6. TypeOK'
    BY <2>1, <2>3 DEF TypeOK, Types
  <2> QED BY <2>4, <2>5, <2>6 DEF IInv
<1>2. ASSUME DisconnectHandler PROVE IInv'
  BY <1>2, RetryEffect
     DEF DisconnectHandler, IInv, TypeOK, AddrsLiveWhileConnecting, OneSocketOwner, Walked
<1> QED BY <1>1, <1>2, <1>3

LEMMA NextInv == IInv /\ [Next]_vars => IInv'
BY ResolveHandlerInv, ConnectHandlerInv, OtherInv DEF Next, Idle

-----------------------------------------------------------------------------
(* Theorems *)

\* The invariant of one struct outgoing.
THEOREM InductiveInvariant == Spec => []IInv
BY InitInv, NextInv, PTL DEF Spec

\* Types of the transport's state.
THEOREM TypeCorrect == Spec => []TypeOK
BY InductiveInvariant, PTL DEF IInv

\* outgoing->addrs is freed once on each way out of connecting, and
\* outgoing->addr never points into a freed list.
THEOREM AddrsNeverDangle == Spec => []AddrsLiveWhileConnecting
BY InductiveInvariant, PTL DEF IInv

\* The socket belongs to peer.fd or to the flow, never to both.
THEOREM SocketHasOneOwner == Spec => []OneSocketOwner
BY InductiveInvariant, PTL DEF IInv

\* outgoing_connect_next() tries the addresses of a list in order and each once,
\* and schedules a retry only after all of them, however long the list is.
THEOREM TriesEveryAddress == Spec => EachAddressOnce
<1> DEFINE A == /\ state' = "run" /\ handler' \in {"connected", "closed"} => tried' = InOrder(addr')
                /\ attempt' > attempt /\ handler # "closed" => tried' = InOrder(naddrs')
<1>1. IInv /\ IInv' /\ [Next]_vars => [A]_vars
  <2> SUFFICES ASSUME IInv, IInv', Next PROVE A
    OBVIOUS
  <2>1. state' = "run" /\ handler' \in {"connected", "closed"} => tried' = InOrder(addr')
    BY DEF IInv, Walked
  <2>2. ASSUME attempt' > attempt, handler # "closed" PROVE tried' = InOrder(naddrs')
    <3>1. attempt \in Nat
      BY OutgoingAssumption DEF IInv, TypeOK
    <3>2. ResolveHandler \/ ConnectHandler
      BY <2>2, <3>1
         DEF Next, OutgoingResolve, DisconnectHandler, OutgoingDel, Idle, vars
    <3>3. ASSUME ResolveHandler PROVE tried' = InOrder(naddrs')
      <4>1. ASSUME UNCHANGED <<naddrs, tried>> PROVE tried' = InOrder(naddrs')
        BY <3>3, <4>1 DEF ResolveHandler, IInv, Walked
      <4>2. ASSUME NEW n \in 1..MaxAddrs, naddrs' = n, ConnectNext(1, n, <<>>)
            PROVE  tried' = InOrder(naddrs')
        <5>1. tried' = <<>> \o Walk(1, n)
          BY <2>2, <3>1, <4>2 DEF ConnectNext
        <5>2. n \in Nat /\ 1 \in Nat \ {0} /\ 1 <= n + 1
          BY OutgoingAssumption
        <5>3. InOrder(1 - 1) \o Walk(1, n) = InOrder(n)
          BY <5>2, WalkOn
        <5>4. InOrder(1 - 1) = <<>>
          BY InOrderType
        <5> QED BY <4>2, <5>1, <5>3, <5>4
      <4> QED BY <3>3, <4>1, <4>2 DEF ResolveHandler
    <3>4. ASSUME ConnectHandler PROVE tried' = InOrder(naddrs')
      <4>1. naddrs \in 1..MaxAddrs /\ addr \in 1..naddrs /\ tried = InOrder(addr)
        BY <3>4, OutgoingAssumption
           DEF ConnectHandler, IInv, TypeOK, AddrsLiveWhileConnecting, Walked
      <4>2. ConnectNext(addr + 1, naddrs, tried) /\ naddrs' = naddrs
        BY <2>2, <3>1, <3>4, OutgoingAssumption DEF ConnectHandler
      <4>3. tried' = tried \o Walk(addr + 1, naddrs)
        BY <2>2, <3>1, <4>2 DEF ConnectNext
      <4>4. addr + 1 \in Nat \ {0} /\ naddrs \in Nat /\ addr + 1 <= naddrs + 1 /\ (addr + 1) - 1 = addr
        BY <4>1, OutgoingAssumption
      <4>5. InOrder((addr + 1) - 1) \o Walk(addr + 1, naddrs) = InOrder(naddrs)
        BY <4>4, WalkOn
      <4> QED BY <4>1, <4>2, <4>3, <4>4, <4>5
    <3> QED BY <3>2, <3>3, <3>4
  <2> QED BY <2>1, <2>2
<1>2. EachAddressOnce <=> [][A]_vars
  BY DEF EachAddressOnce
<1> QED BY <1>1, <1>2, InductiveInvariant, PTL DEF Spec

=============================================================================
