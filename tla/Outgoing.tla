------------------------------ MODULE Outgoing ------------------------------
(***************************************************************************)
(* One struct outgoing of outgoing.c in detail: resolution, the walk over  *)
(* the list of addresses, connecting with TCP fast open, and retries with  *)
(* the backoff of wakeup.c.  Bus shows how the transport's handlers        *)
(* interleave with the rest of the program; here is what they do with the  *)
(* address list, the attempt counter, the socket and the greeting.         *)
(***************************************************************************)
EXTENDS Backoff, Sequences

CONSTANTS
  MaxAddrs,    \* the longest list getaddrinfo() returns
  MaxAttempt,  \* bound of the model: failures in a row
  HasHello     \* does the flow's format begin with a greeting?

ASSUME OutgoingAssumption ==
  /\ MaxAddrs \in Nat \ {0} /\ MaxAttempt \in Nat \ {0}
  /\ HasHello \in BOOLEAN

VARIABLES
  state,     \* "run", "deleted" or "trapped" (division by zero)
  handler,   \* which handler outgoing->peer.event_handler names
  fd,        \* what peer.fd is: "none", "resolution" or "socket"
  held,      \* is the list outgoing->addrs allocated?
  naddrs,    \* its length, 0 until getaddrinfo() has found one
  addr,      \* position of outgoing->addr in it, naddrs + 1 for NULL
  attempt,   \* outgoing->attempt
  stream,    \* the socket handed to flow_new(): "none" or "open"
  hello,     \* the greeting for the current socket: "none", "queued", "lost"
  tried      \* history: the positions tried since resolve(), in order

vars == <<state, handler, fd, held, naddrs, addr, attempt, stream, hello, tried>>

Init ==   \* outgoing_new(), up to the pending resolution
  /\ state = "run"
  /\ handler = "resolved" /\ fd = "resolution"
  /\ held = FALSE /\ naddrs = 0 /\ addr = 0
  /\ attempt = 0
  /\ stream = "none" /\ hello = "none"
  /\ tried = <<>>

-----------------------------------------------------------------------------

\* outgoing_retry(): the delay is computed modulo max_delay.
OutgoingRetry ==
  /\ attempt < MaxAttempt
  /\ attempt' = attempt + 1
  /\ fd' = "none"
  /\ IF MaxDelay(attempt') = 0
     THEN state' = "trapped" /\ UNCHANGED handler
     ELSE handler' = "retry" /\ UNCHANGED state

\* sendto(MSG_FASTOPEN) on a fresh non-blocking socket: with a cookie for the
\* address the data goes out with the SYN; without one a plain connect is
\* begun, nothing is queued and the result is EINPROGRESS all the same.
SendtoFastopen ==
  hello' \in IF HasHello THEN {"queued", "lost"} ELSE {"queued"}

\* The positions that outgoing->addr goes through from k to j.
Walk(k, j) == [i \in 1..(j - k + 1) |-> k + i - 1]

\* outgoing_connect_next() from address k on, with the list of length n:
\* some address j takes the attempt, after those before it failed at once; or
\* none does.
ConnectNext(k, n, done) ==
  \/ \E j \in k..n :
       /\ addr' = j
       /\ tried' = done \o Walk(k, j)
       /\ held' = TRUE
       /\ fd' = "socket"
       /\ SendtoFastopen
       /\ handler' = "connected"
       /\ UNCHANGED <<state, attempt>>
  \/ /\ addr' = n + 1
     /\ tried' = done \o Walk(k, n)
     /\ held' = FALSE
     /\ hello' = "none"
     /\ OutgoingRetry

\* outgoing_resolve_wrapper(), called by the wakeup.
OutgoingResolve ==
  /\ state = "run" /\ handler = "retry"
  /\ handler' = "resolved"
  /\ fd' = "resolution"
  /\ naddrs' = 0 /\ tried' = <<>>
  /\ UNCHANGED <<state, held, addr, attempt, stream, hello>>

\* outgoing_resolve_handler()
ResolveHandler ==
  /\ state = "run" /\ handler = "resolved"
  /\ \/ \* error from getaddrinfo()
        /\ OutgoingRetry
        /\ UNCHANGED <<held, naddrs, addr, hello, tried>>
     \/ \E n \in 1..MaxAddrs :
          /\ naddrs' = n
          /\ ConnectNext(1, n, <<>>)
  /\ UNCHANGED stream

\* Bug: the address list is freed only when every address failed.
ConnectHandlerKeepsAddrs ==
  /\ state = "run" /\ handler = "connected"
  /\ \/ /\ attempt' = 0
        /\ fd' = "none"
        /\ handler' = "closed"
        /\ stream' = "open"
        /\ UNCHANGED <<state, held, addr, hello, tried>>
     \/ /\ ConnectNext(addr + 1, naddrs, tried)
        /\ UNCHANGED stream
  /\ UNCHANGED naddrs

\* Bug: after a late failure outgoing->addr stays where it is.
ConnectHandlerRepeats ==
  /\ state = "run" /\ handler = "connected"
  /\ \/ /\ held' = FALSE
        /\ attempt' = 0
        /\ fd' = "none"
        /\ handler' = "closed"
        /\ stream' = "open"
        /\ UNCHANGED <<state, addr, hello, tried>>
     \/ /\ ConnectNext(addr, naddrs, tried)
        /\ UNCHANGED stream
  /\ UNCHANGED naddrs

\* Bug: peer.fd keeps naming the socket that the flow now owns.
ConnectHandlerKeepsFd ==
  /\ state = "run" /\ handler = "connected"
  /\ held' = FALSE
  /\ attempt' = 0
  /\ handler' = "closed"
  /\ stream' = "open"
  /\ UNCHANGED <<state, naddrs, addr, fd, hello, tried>>

\* outgoing_connect_handler() and outgoing_connect_result(): SO_ERROR is 0
\* and the socket goes to the flow, or the next address is tried.
ConnectHandler ==
  /\ state = "run" /\ handler = "connected"
  /\ \/ /\ held' = FALSE
        /\ attempt' = 0
        /\ fd' = "none"
        /\ handler' = "closed"
        /\ stream' = "open"
        /\ UNCHANGED <<state, addr, hello, tried>>
     \/ /\ ConnectNext(addr + 1, naddrs, tried)
        /\ UNCHANGED stream
  /\ UNCHANGED naddrs

\* outgoing_disconnect_handler(), the on_close of the flow.
DisconnectHandler ==
  /\ state = "run" /\ handler = "closed"
  /\ stream' = "none" /\ hello' = "none"
  /\ OutgoingRetry
  /\ UNCHANGED <<held, naddrs, addr, tried>>

\* outgoing_del(), at shutdown, in any state.  The flow's socket is closed
\* before that, by receive_cleanup() and send_cleanup().
OutgoingDel ==
  /\ state = "run"
  /\ state' = "deleted"
  /\ fd' = "none" /\ stream' = "none"
  /\ UNCHANGED <<handler, held, naddrs, addr, attempt, hello, tried>>

Stopped == state # "run" \/ (attempt = MaxAttempt)
Idle == Stopped /\ UNCHANGED vars

Next == \/ OutgoingResolve \/ ResolveHandler \/ ConnectHandler
        \/ DisconnectHandler \/ OutgoingDel \/ Idle

Spec == Init /\ [][Next]_vars

-----------------------------------------------------------------------------
(* Properties *)

\* Type correctness.
TypeOK ==
  /\ state \in {"run", "deleted", "trapped"}
  /\ handler \in {"resolved", "connected", "closed", "retry"}
  /\ fd \in {"none", "resolution", "socket"}
  /\ held \in BOOLEAN
  /\ naddrs \in 0..MaxAddrs /\ addr \in 0..(MaxAddrs + 1)
  /\ attempt \in 0..MaxAttempt
  /\ stream \in {"none", "open"}
  /\ hello \in {"none", "queued", "lost"}
  /\ tried \in Seq(1..MaxAddrs)

\* The address list lives exactly as long as addresses of it are in use: it
\* is freed once on every way out of connecting, and outgoing->addr never
\* points into a freed list.
AddrsLiveWhileConnecting ==
  state = "run" => (held <=> handler = "connected") /\ (held => addr \in 1..naddrs)

\* A socket has one owner: peer.fd while connecting, the flow afterwards.
\* (peer.fd would be closed a second time by outgoing_del().)
OneSocketOwner ==
  state = "run" =>
    /\ fd = "socket" <=> handler = "connected"
    /\ stream = "open" <=> handler = "closed"

InOrder(n) == [i \in 1..n |-> i]

\* The addresses of a list are tried in its order, none twice: whatever failed at
\* once or later before it, the address that is being connected to, or was, has
\* been reached through each one before it once.  And a retry is scheduled only
\* after all of them, also when every one failed within the handler of the
\* resolution (outgoing.c:54-61, 117), unless a connection was made.
EachAddressOnce ==
  [][/\ state' = "run" /\ handler' \in {"connected", "closed"} => tried' = InOrder(addr')
     /\ attempt' > attempt /\ handler # "closed" => tried' = InOrder(naddrs')]_vars

\* The bound of the delay grows from 2 s (4 s for the first failure) to 60 s
\* and stays there, for the failures in a row the run allows.
BackoffGrows ==
  [][attempt' > attempt =>
       /\ MaxDelay(attempt') >= MaxDelay(attempt)
       /\ MaxDelay(attempt') \in 4000..60000]_vars

\* Retrying goes on for ever: computing the delay never divides by zero.
RetriesNeverTrap == state # "trapped"

=============================================================================
