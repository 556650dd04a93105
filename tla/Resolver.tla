------------------------------ MODULE Resolver ------------------------------
(***************************************************************************)
(* asyncaddrinfo.c and resolve.c: the only threads of adsbus.  The main    *)
(* thread sends pointers to struct asyncaddrinfo_resolution over one       *)
(* SEQPACKET socket pair to a pool of threads; each resolution carries its *)
(* own socket pair, over which a thread sends the pointer back.  Whoever   *)
(* holds the pointer owns the struct.                                      *)
(*                                                                         *)
(* The main thread is modelled by its calls: resolve(), resolve_result()   *)
(* from the event loop, and at shutdown asyncaddrinfo_cleanup() followed   *)
(* by peer_close() of the pending resolutions in incoming_cleanup() and    *)
(* outgoing_cleanup().  What getaddrinfo() finds is left out.              *)
(***************************************************************************)
EXTENDS Integers, Sequences, FiniteSets

CONSTANTS
  Threads,   \* asyncaddrinfo_threads
  Reqs,      \* resolutions that may exist at once: one per transport
  NoReq,     \* a thread without a resolution
  SockBuf    \* how many pointers the request socket buffers

ASSUME ResolverAssumption ==
  /\ IsFiniteSet(Threads) /\ Threads # {}
  /\ NoReq \notin Reqs
  /\ SockBuf \in Nat \ {0}

VARIABLES
  main,       \* "run", "join" (write_fd closed), "joined", "done"
  queue,      \* the request socket
  pc,         \* pc[i]: where thread i is in asyncaddrinfo_main()
  res,        \* res[i]: the pointer thread i last received
  answers,    \* resolutions sent back and not received
  callerFd,   \* resolutions whose fds[0] the main thread has open
  allocated   \* resolutions malloc()ed and not freed

vars == <<main, queue, pc, res, answers, callerFd, allocated>>

Init ==
  /\ main = "run"
  /\ queue = <<>>
  /\ pc = [i \in Threads |-> "recv"]
  /\ res = [i \in Threads |-> NoReq]
  /\ answers = {} /\ callerFd = {} /\ allocated = {}

Queued == {queue[k] : k \in 1..Len(queue)}

-----------------------------------------------------------------------------
(* The main thread *)

\* resolve(): asyncaddrinfo_resolve(); send() blocks while the socket is full.
Resolve(r) ==
  /\ main = "run"
  /\ r \notin allocated
  /\ Len(queue) < SockBuf
  /\ allocated' = allocated \cup {r}
  /\ callerFd' = callerFd \cup {r}
  /\ queue' = Append(queue, r)
  /\ UNCHANGED <<main, pc, res, answers>>

\* Bug: the result is taken before epoll reports it.
ResolveResultEarly(r) ==
  /\ main = "run"
  /\ r \in callerFd
  /\ answers' = answers \ {r}
  /\ callerFd' = callerFd \ {r}
  /\ allocated' = allocated \ {r}
  /\ UNCHANGED <<main, queue, pc, res>>

\* Bug: the answer socket stays open.
ResolveResultKeepsFd(r) ==
  /\ main = "run"
  /\ r \in answers
  /\ answers' = answers \ {r}
  /\ allocated' = allocated \ {r}
  /\ UNCHANGED <<main, queue, pc, res, callerFd>>

\* resolve_result(), called when epoll reports the fd readable.
ResolveResult(r) ==
  /\ main = "run"
  /\ r \in answers
  /\ answers' = answers \ {r}
  /\ callerFd' = callerFd \ {r}
  /\ allocated' = allocated \ {r}
  /\ UNCHANGED <<main, queue, pc, res>>

\* asyncaddrinfo_cleanup(): close(asyncaddrinfo_write_fd) ...
CloseWriteFd ==
  /\ main = "run"
  /\ main' = "join"
  /\ UNCHANGED <<queue, pc, res, answers, callerFd, allocated>>

\* ... and pthread_join() of every thread.
Joined ==
  /\ main = "join"
  /\ \A i \in Threads : pc[i] = "exited"
  /\ main' = "joined"
  /\ UNCHANGED <<queue, pc, res, answers, callerFd, allocated>>

\* Bug: main() deletes the transports before it joins the threads.
TransportDelFirst(r) ==
  /\ main = "join"
  /\ r \in callerFd
  /\ callerFd' = callerFd \ {r}
  /\ answers' = answers \ {r}
  /\ UNCHANGED <<main, queue, pc, res, allocated>>

\* incoming_del() and outgoing_del() of a transport that is resolving:
\* peer_close() discards what is in the socket.
TransportDel(r) ==
  /\ main = "joined"
  /\ r \in callerFd
  /\ callerFd' = callerFd \ {r}
  /\ answers' = answers \ {r}
  /\ UNCHANGED <<main, queue, pc, res, allocated>>

Exit ==
  /\ main = "joined" /\ callerFd = {}
  /\ main' = "done"
  /\ UNCHANGED <<queue, pc, res, answers, callerFd, allocated>>

-----------------------------------------------------------------------------
(* asyncaddrinfo_main() in thread i *)

Recv(i) ==
  /\ pc[i] = "recv"
  /\ queue # <<>>
  /\ res' = [res EXCEPT ![i] = Head(queue)]
  /\ queue' = Tail(queue)
  /\ pc' = [pc EXCEPT ![i] = "lookup"]
  /\ UNCHANGED <<main, answers, callerFd, allocated>>

\* Bug: a thread stops as soon as cleanup has begun.
RecvEofEager(i) ==
  /\ pc[i] = "recv"
  /\ main # "run"
  /\ pc' = [pc EXCEPT ![i] = "exited"]
  /\ UNCHANGED <<main, queue, res, answers, callerFd, allocated>>

\* Bug: another descriptor keeps the writing end of the socket open.
RecvEofNever(i) ==
  /\ pc[i] = "recv"
  /\ queue = <<>> /\ main = "done"
  /\ pc' = [pc EXCEPT ![i] = "exited"]
  /\ UNCHANGED <<main, queue, res, answers, callerFd, allocated>>

\* recv() returns 0: no writer is left and the socket is drained.
RecvEof(i) ==
  /\ pc[i] = "recv"
  /\ queue = <<>> /\ main # "run"
  /\ pc' = [pc EXCEPT ![i] = "exited"]
  /\ UNCHANGED <<main, queue, res, answers, callerFd, allocated>>

\* Bug: a failed lookup is dropped.
GetaddrinfoDrops(i) ==
  /\ pc[i] = "lookup"
  /\ \/ pc' = [pc EXCEPT ![i] = "send"]
     \/ pc' = [pc EXCEPT ![i] = "recv"]
  /\ UNCHANGED <<main, queue, res, answers, callerFd, allocated>>

Getaddrinfo(i) ==
  /\ pc[i] = "lookup"
  /\ pc' = [pc EXCEPT ![i] = "send"]
  /\ UNCHANGED <<main, queue, res, answers, callerFd, allocated>>

\* Bug: the thread sends back its cleared pointer.
SendCleared(i) ==
  /\ pc[i] = "send"
  /\ res' = [res EXCEPT ![i] = NoReq]
  /\ answers' = answers \cup {res'[i]}
  /\ pc' = [pc EXCEPT ![i] = "close"]
  /\ UNCHANGED <<main, queue, callerFd, allocated>>

\* assert(send(return_fd, &res, ...)): a closed fds[0] would fail it.
Send(i) ==
  /\ pc[i] = "send"
  /\ res[i] \in callerFd
  /\ answers' = answers \cup {res[i]}
  /\ pc' = [pc EXCEPT ![i] = "close"]
  /\ UNCHANGED <<main, queue, res, callerFd, allocated>>

\* close(return_fd), from the thread's own copy: res now belongs to the main
\* thread and may already be freed.
CloseReturnFd(i) ==
  /\ pc[i] = "close"
  /\ pc' = [pc EXCEPT ![i] = "recv"]
  /\ res' = [res EXCEPT ![i] = NoReq]
  /\ UNCHANGED <<main, queue, answers, callerFd, allocated>>

-----------------------------------------------------------------------------
(* The specification *)

MainNext ==
  \/ \E r \in Reqs : Resolve(r) \/ ResolveResult(r) \/ TransportDel(r)
  \/ CloseWriteFd \/ Joined \/ Exit

ThreadNext(i) ==
  Recv(i) \/ RecvEof(i) \/ Getaddrinfo(i) \/ Send(i) \/ CloseReturnFd(i)

Terminated == main = "done" /\ UNCHANGED vars

Next == MainNext \/ (\E i \in Threads : ThreadNext(i)) \/ Terminated

Spec == Init /\ [][Next]_vars

\* Threads run and getaddrinfo() returns; at shutdown the main thread runs on.
Fairness ==
  /\ \A i \in Threads : WF_vars(ThreadNext(i))
  /\ WF_vars(Joined) /\ WF_vars(Exit)
  /\ \A r \in Reqs : WF_vars(TransportDel(r))

LiveSpec == Spec /\ Fairness

-----------------------------------------------------------------------------
(* Properties *)

\* Type correctness of the resolver's state.
TypeOK ==
  /\ main \in {"run", "join", "joined", "done"}
  /\ queue \in Seq(Reqs) /\ Len(queue) <= SockBuf
  /\ pc \in [Threads -> {"recv", "lookup", "send", "close", "exited"}]
  /\ res \in [Threads -> Reqs \cup {NoReq}]
  /\ answers \subseteq Reqs /\ callerFd \subseteq Reqs
  /\ allocated \subseteq Reqs

\* Thread i owns r: it may read and write the struct.
Owns(i, r) == pc[i] \in {"lookup", "send"} /\ res[i] = r

\* "Resolve thread now owns res", "Main thread now owns res": a resolution
\* is never in two hands.  It is queued once, or owned by one thread, or in
\* the answer socket, and allocated as long as any of these can touch it.
OneOwner ==
  /\ \A j, k \in 1..Len(queue) : queue[j] = queue[k] => j = k
  /\ \A r \in Queued : r \notin answers /\ \A i \in Threads : ~Owns(i, r)
  /\ \A i, j \in Threads, r \in Reqs :
       Owns(i, r) => r \notin answers /\ (Owns(j, r) => i = j)
  /\ Queued \cup answers \subseteq allocated
  /\ \A i \in Threads, r \in Reqs : Owns(i, r) => r \in allocated

\* The assertion on send() in asyncaddrinfo_main() cannot fail: whoever asked
\* still has its end of the answer socket open, because main() joins the
\* threads before it deletes the transports.
AnswerHasReader ==
  /\ Queued \subseteq callerFd
  /\ \A i \in Threads, r \in Reqs : Owns(i, r) => r \in callerFd

\* When pthread_join() has returned for every thread nothing is in flight.
JoinDrains ==
  main \in {"joined", "done"} =>
    queue = <<>> /\ \A i \in Threads, r \in Reqs : ~Owns(i, r)

\* Every resolution is answered, even those pending when cleanup starts.
EveryAnswer == \A r \in Reqs : (r \in Queued) ~> (r \in answers)

\* asyncaddrinfo_cleanup() returns: no thread waits for a pointer forever.
CleanupReturns == (main = "join") ~> (main = "done")

-----------------------------------------------------------------------------
(* Refinement *)

statusBar ==
  [r \in Reqs |->
     IF r \in answers THEN "answered"
     ELSE IF r \in callerFd THEN "pending"
     ELSE IF r \in allocated THEN "abandoned"
     ELSE "idle"]

\* The pool of threads keeps the promise of AsyncCall.
Call == INSTANCE AsyncCall WITH status <- statusBar, open <- (main = "run")
RefinesAsyncCall == Call!Spec
=============================================================================
