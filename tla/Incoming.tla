------------------------------ MODULE Incoming ------------------------------
(***************************************************************************)
(* One struct incoming of incoming.c with the descriptors it uses: the     *)
(* answer socket of a resolution, the listening socket, the clients it     *)
(* accepts and the timer of a retry.  The kernel gives out the lowest free *)
(* descriptor, closing one removes it from the epoll set, and epoll_ctl()  *)
(* and close() fail on one that is not open: peer.c and incoming.c assert  *)
(* that they never do.                                                     *)
(***************************************************************************)
EXTENDS Integers, FiniteSets

CONSTANTS
  MaxFd,        \* descriptors are 0..MaxFd
  MaxClients,   \* bound of the model: clients at once
  MaxReturned,  \* resolver threads that have answered and not yet closed
  HasHello      \* may writing the greeting to a client fail?

ASSUME IncomingAssumption ==
  /\ MaxFd \in Nat /\ MaxClients \in Nat /\ MaxReturned \in Nat
  /\ MaxFd >= MaxClients + MaxReturned + 4
  /\ HasHello \in BOOLEAN

VARIABLES
  state,     \* "run"; "cleanup_transport", "cleanup_wakeup", "done";
             \* "aborted" by a failed assertion
  table,     \* what each descriptor is open on, "free" if it is not open
  polled,    \* descriptors in the epoll set
  handler,   \* which handler incoming->peer.event_handler names
  peerFd,    \* incoming->peer.fd
  wakeFd,    \* wakeup->peer.fd of the pending wakeup, -1 if there is none
  answered   \* has a resolver thread answered?

vars == <<state, table, polled, handler, peerFd, wakeFd, answered>>

Fds == 0..MaxFd
\* "return" is the resolver's end of a resolution, "returned" after it answered.
Objects == {"free", "answer", "return", "returned", "listener", "client", "timer"}
FreeFds(tab) == {f \in Fds : tab[f] = "free"}
\* The descriptor the kernel gives out next.
Lowest(tab) == CHOOSE f \in FreeFds(tab) : \A g \in FreeFds(tab) : f <= g
Opened(tab, object) == [tab EXCEPT ![Lowest(tab)] = object]
Closed(tab, f) == [tab EXCEPT ![f] = "free"]
ClosedAll(tab, F) == [f \in Fds |-> IF f \in F THEN "free" ELSE tab[f]]
FdsOn(object) == {f \in Fds : table[f] = object}

-----------------------------------------------------------------------------

Init ==   \* incoming_new()
  /\ state = "run"
  /\ table = [f \in Fds |-> IF f = 0 THEN "answer"
                            ELSE IF f = 1 THEN "return" ELSE "free"]
  /\ polled = {0} /\ peerFd = 0
  /\ handler = "listen" /\ wakeFd = -1 /\ answered = FALSE

\* A resolver thread answers, and closes its end some time after that.
ResolverAnswers ==
  /\ Cardinality(FdsOn("returned")) < MaxReturned
  /\ \E f \in FdsOn("return") : table' = [table EXCEPT ![f] = "returned"]
  /\ answered' = TRUE
  /\ UNCHANGED <<state, polled, handler, peerFd, wakeFd>>

ResolverCloses ==
  /\ \E f \in FdsOn("returned") : table' = Closed(table, f)
  /\ UNCHANGED <<state, polled, handler, peerFd, wakeFd, answered>>

\* incoming_retry(): wakeup_add() opens a timer.  peer.fd is not assigned.
IncomingRetry(tab, pol) ==
  /\ handler' = "retry"
  /\ wakeFd' = Lowest(tab)
  /\ table' = Opened(tab, "timer")
  /\ polled' = pol \cup {Lowest(tab)}

\* Bug: the answer socket is not closed.
IncomingListenLeaks ==
  /\ state = "run" /\ handler = "listen" /\ answered
  /\ IncomingRetry(table, polled \ {peerFd})
  /\ peerFd' = -1
  /\ UNCHANGED <<state, answered>>

\* Bug: the listening socket is not added to epoll.
IncomingListenUnpolled ==
  /\ state = "run" /\ handler = "listen" /\ answered
  /\ peerFd' = Lowest(Closed(table, peerFd))
  /\ table' = Opened(Closed(table, peerFd), "listener")
  /\ polled' = polled \ {peerFd}
  /\ handler' = "accept"
  /\ UNCHANGED <<state, wakeFd, answered>>

\* incoming_listen(): resolve_result() closes the answer socket; then the
\* lookup has failed, or every bind() fails and each socket is closed again, or
\* one socket is bound and listens.  Resolver threads may close their ends
\* meanwhile: some (early) before the last socket is opened, others (late)
\* before the timer is, which then need not get the number of that socket.
IncomingListen ==
  /\ state = "run" /\ handler = "listen" /\ answered
  /\ \E late \in SUBSET FdsOn("returned") : \E early \in SUBSET late :
       LET before == ClosedAll(table, {peerFd} \cup early)
           after == ClosedAll(table, {peerFd} \cup late)
           pol == polled \ {peerFd}
       IN \/ /\ peerFd' = -1
             /\ IncomingRetry(after, pol)
          \/ /\ peerFd' = Lowest(before)    \* closed again, and still named
             /\ IncomingRetry(after, pol)
          \/ /\ peerFd' = Lowest(before)
             /\ table' = Opened(before, "listener")
             /\ polled' = pol \cup {Lowest(before)}
             /\ handler' = "accept"
             /\ UNCHANGED wakeFd
  /\ UNCHANGED <<state, answered>>

\* Bug: the wakeup stays in the list of wakeups.
IncomingRetriedKeepsWakeup ==
  /\ state = "run" /\ handler = "retry"
  /\ LET tab == Opened(Opened(table, "answer"), "return") IN
       /\ peerFd' = Lowest(table)
       /\ table' = Closed(tab, wakeFd)
       /\ polled' = (polled \cup {Lowest(table)}) \ {wakeFd}
  /\ answered' = FALSE
  /\ handler' = "listen"
  /\ UNCHANGED <<state, wakeFd>>

\* wakeup_handler(): incoming_resolve() opens a socket pair, epoll watches this
\* end of it, and then wakeup_del() closes the timer.
IncomingRetried ==
  /\ state = "run" /\ handler = "retry"
  /\ LET tab == Opened(Opened(table, "answer"), "return") IN
       /\ peerFd' = Lowest(table)
       /\ table' = Closed(tab, wakeFd)
       /\ polled' = (polled \cup {Lowest(table)}) \ {wakeFd}
  /\ answered' = FALSE
  /\ handler' = "listen"
  /\ wakeFd' = -1
  /\ UNCHANGED state

\* incoming_handler(): the client's descriptor is closed again when the
\* greeting cannot be written.
IncomingHandler ==
  /\ state = "run" /\ handler = "accept"
  /\ Cardinality(FdsOn("client")) < MaxClients
  /\ \/ /\ table' = Opened(table, "client")
        /\ polled' = polled \cup {Lowest(table)}
     \/ HasHello /\ UNCHANGED <<table, polled>>
  /\ UNCHANGED <<state, handler, peerFd, wakeFd, answered>>

\* receive_del() or send_del() of a client.
ClientDel ==
  /\ state = "run"
  /\ \E f \in FdsOn("client") :
       /\ table' = Closed(table, f)
       /\ polled' = polled \ {f}
  /\ UNCHANGED <<state, handler, peerFd, wakeFd, answered>>

\* main() leaves the loop: the resolver threads are joined and the clients
\* deleted.
Shutdown ==
  /\ state = "run"
  /\ FdsOn("return") \cup FdsOn("returned") = {}
  /\ table' = [f \in Fds |-> IF table[f] = "client" THEN "free" ELSE table[f]]
  /\ polled' = polled \ FdsOn("client")
  /\ state' = "cleanup_transport"
  /\ UNCHANGED <<handler, peerFd, wakeFd, answered>>

\* peer_close() of a peer whose fd is f; both assertions abort().
PeerClose(f, next) ==
  IF f = -1
  THEN state' = next /\ UNCHANGED <<table, polled>>
  ELSE IF f \in polled /\ table[f] # "free"
  THEN state' = next /\ table' = Closed(table, f) /\ polled' = polled \ {f}
  ELSE state' = "aborted" /\ UNCHANGED <<table, polled>>

\* incoming_cleanup(): incoming_del().
IncomingDel ==
  /\ state = "cleanup_transport"
  /\ PeerClose(peerFd, "cleanup_wakeup")
  /\ peerFd' = -1
  /\ UNCHANGED <<handler, wakeFd, answered>>

\* wakeup_cleanup(): wakeup_del().
WakeupDel ==
  /\ state = "cleanup_wakeup"
  /\ PeerClose(wakeFd, "done")
  /\ wakeFd' = -1
  /\ UNCHANGED <<handler, peerFd, answered>>

Stopped == state \in {"done", "aborted"} /\ UNCHANGED vars

Next == \/ ResolverAnswers \/ ResolverCloses \/ IncomingListen \/ IncomingRetried
        \/ IncomingHandler \/ ClientDel
        \/ Shutdown \/ IncomingDel \/ WakeupDel \/ Stopped

Spec == Init /\ [][Next]_vars

-----------------------------------------------------------------------------
(* Properties *)

\* Type correctness.
TypeOK ==
  /\ state \in {"run", "cleanup_transport", "cleanup_wakeup", "done", "aborted"}
  /\ table \in [Fds -> Objects]
  /\ polled \subseteq Fds
  /\ handler \in {"listen", "accept", "retry"}
  /\ peerFd \in Fds \cup {-1} /\ wakeFd \in Fds \cup {-1}
  /\ answered \in BOOLEAN

\* While the loop runs, the handler installed in incoming->peer is called for
\* the descriptor it is about, which is open and in the epoll set.
HandlerHasItsFd ==
  state = "run" =>
    /\ handler = "listen" => peerFd \in polled /\ table[peerFd] = "answer"
    /\ handler = "accept" => peerFd \in polled /\ table[peerFd] = "listener"
    /\ handler = "retry" => wakeFd \in polled /\ table[wakeFd] = "timer"

\* Nothing but what the transport is doing is open: no path (a failed lookup,
\* bind() or greeting) leaks a descriptor.
FdsAccounted ==
  state = "run" =>
    /\ Cardinality(FdsOn("answer")) = (IF handler = "listen" THEN 1 ELSE 0)
    /\ Cardinality(FdsOn("return"))
         = (IF handler = "listen" /\ ~answered THEN 1 ELSE 0)
    /\ Cardinality(FdsOn("listener")) = (IF handler = "accept" THEN 1 ELSE 0)
    /\ Cardinality(FdsOn("timer")) = (IF handler = "retry" THEN 1 ELSE 0)
    /\ FdsOn("client") \subseteq polled

\* The assertions of peer_epoll_del() and peer_close() hold at shutdown, whatever
\* the transport was doing and however descriptors were reused before, with
\* one exception: while a retry waits, incoming->peer.fd may still name the
\* socket of a bind() that failed (incoming.c:113), which is closed, or is the
\* timer by now.
AbortsOnlyInRetry == state = "aborted" => handler = "retry"
=============================================================================
