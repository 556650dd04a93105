-------------------------------- MODULE Bus --------------------------------
(***************************************************************************)
(* The object life cycles of adsbus: the single-threaded event loop of     *)
(* peer.c, the data flows of receive.c, send.c and send_receive.c, the     *)
(* transports of file.c, outgoing.c, incoming.c and exec.c that create     *)
(* flows and recreate them after a failure, the timers of wakeup.c, and    *)
(* the start-up and tear-down sequence of main() in adsbus.c.              *)
(*                                                                         *)
(* A "connection" is what one call of flow_new() creates: a struct receive,*)
(* a struct send, or a struct send_receive with one of each.  A "peer" is  *)
(* what epoll_wait() returns: a pointer to a struct peer embedded in one   *)
(* of these objects, named here by a pair <<kind, owner>>.                 *)
(*                                                                         *)
(* Packets are abstracted to their one effect on life cycles: a write to a *)
(* send connection may fail.  Sockets, addresses and files are abstracted  *)
(* to the outcome of the calls on them.                                    *)
(***************************************************************************)
EXTENDS Integers, FiniteSets

CONSTANTS
  Transports,   \* the --file-*, --connect-*, --listen-* and --exec-* options
                \* that may be given
  Kind,         \* Kind[t]: "file", "outgoing", "incoming" or "exec"
  FlowOf,       \* FlowOf[t]: the flow the option asks for
  StdFlows,     \* "receive" if --stdin may be given, "send" if --stdout may
  MaxOptions,   \* how many of Transports are given at most (a bound)
  Conns,        \* identities of connections (bounds how many live at once)
  MaxEvents,    \* MAX_EVENTS of peer_loop()
  Delays,       \* what wakeup_get_retry_delay_ms() may return
  NoOwner       \* a NULL on_close pointer

Flows == {"receive", "send", "send_receive"}
Kinds == {"file", "outgoing", "incoming", "exec"}

ASSUME BusAssumption ==
  /\ IsFiniteSet(Transports) /\ IsFiniteSet(Conns)
  /\ Kind \in [Transports -> Kinds]
  /\ FlowOf \in [Transports -> Flows]
  /\ StdFlows \subseteq {"receive", "send"}
  /\ MaxEvents \in Nat \ {0} /\ MaxOptions \in Nat
  /\ Delays \subseteq Nat /\ Delays # {}
  /\ NoOwner \notin Transports /\ NoOwner \notin Conns

VARIABLES
  phase,     \* where main() is
  shutdown,  \* peer_shutdown_flag
  ready,     \* peers whose fd the kernel reports ready
  batch,     \* peers returned by epoll_wait() or on the always-trigger list,
             \* and not yet called
  count,     \* peer_count_in, peer_count_out and peer_count_out_in, by flow
  recv,      \* connections with a live struct receive
  snd,       \* connections with a live struct send
  sr,        \* ref_count of the connection's struct send_receive, 0 if none
  owner,     \* the connection's on_close: a transport or NoOwner
  regular,   \* connections whose fd epoll refuses (EPERM)
  broken,    \* send connections on which send_write() called shutdown()
  alive,     \* transports whose struct is allocated
  handler,   \* which handler the transport's peer.event_handler names
  reg,       \* is the transport's own fd in the epoll set?
  wake,      \* number of struct wakeup whose inner_peer is the transport
  armed,     \* transports whose timer was set to a non-zero delay
  retry,     \* file->retry
  child,     \* the state of exec's child process
  log        \* is exec's log_peer open?

loopVars  == <<phase, shutdown, ready, batch>>
connVars  == <<recv, snd, sr, owner, regular, broken>>
transVars == <<alive, handler, reg, wake, armed, retry, child, log>>
vars      == <<loopVars, count, connVars, transVars>>

\* main() is in one of the *_init() calls, in peer_loop(), in one of the
\* *_cleanup() calls, or has returned (or exited from opts_call()).
InitPhases == {"outgoing", "incoming", "exec", "file", "stdin", "stdout"}
LoopPhases == {"loop", "dispatch", "always"}
CleanPhases == {"clean_receive", "clean_send", "clean_send_receive",
                "clean_incoming", "clean_outgoing", "clean_exec",
                "clean_file", "clean_wakeup"}
Phases == InitPhases \cup LoopPhases \cup CleanPhases \cup {"done", "exited"}

\* The order of the calls in main().
After(p) ==
  CASE p = "outgoing" -> "incoming"
    [] p = "incoming" -> "exec"
    [] p = "exec"     -> "file"
    [] p = "file"     -> "stdin"
    [] p = "stdin"    -> "stdout"
    [] p = "stdout"   -> "loop"
    [] p = "clean_receive"      -> "clean_send"
    [] p = "clean_send"         -> "clean_send_receive"
    [] p = "clean_send_receive" -> "clean_incoming"
    [] p = "clean_incoming"     -> "clean_outgoing"
    [] p = "clean_outgoing"     -> "clean_exec"
    [] p = "clean_exec"         -> "clean_file"
    [] p = "clean_file"         -> "clean_wakeup"
    [] p = "clean_wakeup"       -> "done"

\* The phase in which the transports of kind k are freed.
CleanPhase(k) ==
  CASE k = "incoming" -> "clean_incoming"
    [] k = "outgoing" -> "clean_outgoing"
    [] k = "exec"     -> "clean_exec"
    [] k = "file"     -> "clean_file"

Handlers == {"resolved",   \* outgoing_resolve_handler, incoming_listen
             "connected",  \* outgoing_connect_handler
             "accept",     \* incoming_handler
             "closed",     \* outgoing_disconnect_handler, file_handle_close
             "died",       \* exec_retry, called when the child is reaped
             "retry"}      \* outgoing_resolve_wrapper,
                           \* incoming_resolve_wrapper, file_open_wrapper,
                           \* exec_spawn_wrapper

-----------------------------------------------------------------------------
(* Peers *)

RecvPeer(c) == <<"recv", c>>
SendPeer(c) == <<"send", c>>
OwnPeer(t)  == <<"own", t>>
WakePeer(t) == <<"wake", t>>
LogPeer(t)  == <<"log", t>>
ShutdownPeer == <<"shutdown", NoOwner>>
SigchldPeer  == <<"sigchld", NoOwner>>

Peers == ({"recv", "send"} \X Conns)
           \cup ({"own", "wake", "log"} \X Transports)
           \cup {ShutdownPeer, SigchldPeer}

\* The receives on peer_always_trigger_head: those whose fd epoll refuses.
\* (A send asks for no events, so a refused send is on no list at all.)
AlwaysTrigger == recv \cap regular

\* Bug: send_new() does not add its peer to epoll.
PollableNoSend ==
  {p \in Peers :
     \/ \E c \in Conns : p = RecvPeer(c) /\ c \in recv \ regular
     \/ \E t \in Transports : p = OwnPeer(t) /\ reg[t]
     \/ \E t \in Transports : p = WakePeer(t) /\ wake[t] > 0 /\ t \in armed
     \/ p = ShutdownPeer}

\* Bug: wakeup_add() does not add its peer to epoll.
PollableNoWake ==
  {p \in Peers :
     \/ \E c \in Conns : p = RecvPeer(c) /\ c \in recv \ regular
     \/ \E c \in Conns : p = SendPeer(c) /\ c \in snd \ regular
     \/ \E t \in Transports : p = OwnPeer(t) /\ reg[t]
     \/ \E t \in Transports : p = LogPeer(t) /\ log[t]
     \/ p = ShutdownPeer}

\* The peers the kernel may find ready at any time.
Pollable ==
  {p \in Peers :
     \/ \E c \in Conns : p = RecvPeer(c) /\ c \in recv \ regular
     \/ \E c \in Conns : p = SendPeer(c) /\ c \in snd \ regular
     \/ \E t \in Transports : p = OwnPeer(t) /\ reg[t]
     \/ \E t \in Transports : p = WakePeer(t) /\ wake[t] > 0 /\ t \in armed
     \/ \E t \in Transports : p = LogPeer(t) /\ log[t]
     \/ p = ShutdownPeer}

-----------------------------------------------------------------------------
(* Connections: flow_new() *)

HasReceive(f) == f \in {"receive", "send_receive"}
HasSend(f)    == f \in {"send", "send_receive"}

\* flow_new_send_hello() may return false: a send's format may begin with a
\* greeting, and writing it may fail.
HelloMayFail(f) == HasSend(f)

FreeConns == {c \in Conns : c \notin recv \cup snd /\ sr[c] = 0}

\* Bug: send_receive_new() starts with a ref_count of 1.
FlowNewOneRef(c, f, onClose, isRegular) ==
  /\ c \in FreeConns
  /\ recv' = IF HasReceive(f) THEN recv \cup {c} ELSE recv
  /\ snd'  = IF HasSend(f) THEN snd \cup {c} ELSE snd
  /\ sr'   = [sr EXCEPT ![c] = IF f = "send_receive" THEN 1 ELSE 0]
  /\ owner' = [owner EXCEPT ![c] = onClose]
  /\ regular' = IF isRegular THEN regular \cup {c} ELSE regular \ {c}
  /\ broken' = broken \ {c}

\* receive_new(), send_new() or send_receive_new() on a new fd.
FlowNew(c, f, onClose, isRegular) ==
  /\ c \in FreeConns
  /\ recv' = IF HasReceive(f) THEN recv \cup {c} ELSE recv
  /\ snd'  = IF HasSend(f) THEN snd \cup {c} ELSE snd
  /\ sr'   = [sr EXCEPT ![c] = IF f = "send_receive" THEN 2 ELSE 0]
  /\ owner' = [owner EXCEPT ![c] = onClose]
  /\ regular' = IF isRegular THEN regular \cup {c} ELSE regular \ {c}
  /\ broken' = broken \ {c}

\* The counters after flow_new(f), from the values n.
CountNew(n, f) ==
  [n EXCEPT !["receive"] = @ + (IF HasReceive(f) THEN 1 ELSE 0),
            !["send"]    = @ + (IF HasSend(f) THEN 1 ELSE 0)]

-----------------------------------------------------------------------------
(* Transports: the steps their handlers share.  In the operators below w is *)
(* the number of wakeups that remain pending and n the values of the        *)
(* counters when they are called.                                           *)

\* wakeup_add().  A timer set to a delay of 0 is disarmed: it never fires.
WakeupAdd(t, w) ==
  \E d \in Delays :
    /\ wake' = [w EXCEPT ![t] = @ + 1]
    /\ armed' = IF d = 0 THEN armed \ {t} ELSE armed \cup {t}

\* outgoing_retry(), incoming_retry(), file_retry(), exec_retry().
Retry(t, w) ==
  /\ handler' = [handler EXCEPT ![t] = "retry"]
  /\ WakeupAdd(t, w)

\* outgoing_resolve() and incoming_resolve(): the fd of the pending
\* resolution is in the epoll set.
Resolve(t, w, n) ==
  /\ handler' = [handler EXCEPT ![t] = "resolved"]
  /\ reg' = [reg EXCEPT ![t] = TRUE]
  /\ wake' = w
  /\ count' = n
  /\ UNCHANGED <<armed, retry, child, log, connVars>>

\* file_open().  file_should_retry() asks epoll whether the fd is pollable;
\* its test of the flags never succeeds, so it asks whatever the flags are.
FileOpen(t, w, n) ==
  /\ \/ \* open() fails
        /\ Retry(t, w)
        /\ count' = n
        /\ UNCHANGED <<retry, connVars>>
     \/ \E isRegular \in BOOLEAN :
          /\ retry' = [retry EXCEPT ![t] = ~isRegular]
          /\ \/ \* the greeting cannot be written
                /\ HelloMayFail(FlowOf[t])
                /\ Retry(t, w)
                /\ count' = n
                /\ UNCHANGED connVars
             \/ \E c \in Conns :
                  /\ FlowNew(c, FlowOf[t], t, isRegular)
                  /\ count' = CountNew(n, FlowOf[t])
                  /\ handler' = [handler EXCEPT ![t] = "closed"]
                  /\ wake' = w
                  /\ UNCHANGED armed
  /\ UNCHANGED <<reg, child, log>>

\* exec_spawn() and exec_parent().  Without a connection the greeting could
\* not be written (or, a bound of the model, no identity is free).
ExecSpawn(t, w, n) ==
  /\ child' = [child EXCEPT ![t] = "running"]
  /\ log' = [log EXCEPT ![t] = TRUE]
  /\ handler' = [handler EXCEPT ![t] = "died"]
  /\ wake' = w
  /\ \/ \E c \in Conns :
          /\ FlowNew(c, FlowOf[t], NoOwner, FALSE)
          /\ count' = CountNew(n, FlowOf[t])
     \/ /\ HelloMayFail(FlowOf[t]) \/ FreeConns = {}
        /\ count' = n
        /\ UNCHANGED connVars
  /\ UNCHANGED <<reg, armed, retry>>

\* What a transport does first, when it is created and at each retry.
Start(t, w, n) ==
  \/ Kind[t] \in {"outgoing", "incoming"} /\ Resolve(t, w, n)
  \/ Kind[t] = "file" /\ FileOpen(t, w, n)
  \/ Kind[t] = "exec" /\ ExecSpawn(t, w, n)

\* file_handle_close() and outgoing_disconnect_handler(), called through
\* the on_close pointer of a connection.
TransportFreed(t) == Kind[t] = "file" /\ ~retry[t]
TransportClosed(t) ==
  IF TransportFreed(t)
  THEN /\ alive' = alive \ {t}
       /\ UNCHANGED <<handler, reg, wake, armed, retry, child, log>>
  ELSE /\ Retry(t, wake)
       /\ UNCHANGED <<alive, reg, retry, child, log>>

-----------------------------------------------------------------------------
(* Deleting one half of a connection: receive_del(), send_del() and, for a  *)
(* half of a send_receive, send_receive_on_close().                         *)

\* This deletion leaves nothing of the connection.
LastHalf(c) == sr[c] \in {0, 1}
\* Bug: send_receive_on_close() calls on_close for each half.
CallsOwnerTwice(c) == owner[c] # NoOwner
\* peer_call(on_close) reaches a transport.
CallsOwner(c) == LastHalf(c) /\ owner[c] # NoOwner

\* Bug: file_del() forgets flow_ref_dec().
CountDelKeepsRef(c, f) == [g \in Flows |-> count[g] - (IF g = f THEN 1 ELSE 0)]

\* The counters after f-- in receive_del() or send_del() and, if the owner
\* is freed too, flow_ref_dec().
CountDel(c, f) ==
  [g \in Flows |->
     count[g] - (IF g = f THEN 1 ELSE 0)
              - (IF CallsOwner(c) /\ TransportFreed(owner[c])
                      /\ FlowOf[owner[c]] = g THEN 1 ELSE 0)]

\* Bug: ref_count is decremented for a connection that has none.
HalfDelPlainRef(c, f) ==
  /\ recv' = IF f = "receive" THEN recv \ {c} ELSE recv
  /\ snd' = IF f = "send" THEN snd \ {c} ELSE snd
  /\ count' = CountDel(c, f)
  /\ sr' = [sr EXCEPT ![c] = @ - 1]
  /\ owner' = IF LastHalf(c) THEN [owner EXCEPT ![c] = NoOwner] ELSE owner
  /\ regular' = IF LastHalf(c) THEN regular \ {c} ELSE regular
  /\ IF CallsOwner(c) THEN TransportClosed(owner[c]) ELSE UNCHANGED transVars

HalfDel(c, f) ==
  /\ recv' = IF f = "receive" THEN recv \ {c} ELSE recv
  /\ snd' = IF f = "send" THEN snd \ {c} ELSE snd
  /\ count' = CountDel(c, f)
  /\ sr' = [sr EXCEPT ![c] = IF LastHalf(c) THEN 0 ELSE @ - 1]
  /\ owner' = IF LastHalf(c) THEN [owner EXCEPT ![c] = NoOwner] ELSE owner
  /\ regular' = IF LastHalf(c) THEN regular \ {c} ELSE regular
  /\ IF CallsOwner(c) THEN TransportClosed(owner[c]) ELSE UNCHANGED transVars

-----------------------------------------------------------------------------
(* Event handlers.  Each runs to completion: the program has one thread     *)
(* besides the resolver's.                                                  *)

\* peer_call() of p from the batch; a no-op once peer_shutdown_flag is set.
Call(p) ==
  /\ phase \in {"dispatch", "always"}
  /\ ~shutdown
  /\ p \in batch
  /\ batch' = batch \ {p}
  /\ UNCHANGED phase

\* receive_read(): end of file or an error deletes the connection.
ReceiveEof(c) ==
  /\ Call(RecvPeer(c))
  /\ HalfDel(c, "receive")
  /\ ready' = ready \ {RecvPeer(c)}
  /\ UNCHANGED <<shutdown, broken>>

\* Bug: send_write() deletes the sends it cannot write to.
ReceiveDataDeletes(c) ==
  /\ Call(RecvPeer(c))
  /\ \/ UNCHANGED <<count, recv, snd, sr, owner, regular, transVars>>
     \/ \E d \in snd \ {c} : HalfDel(d, "send")
  /\ ready' = ready \ {RecvPeer(c)}
  /\ UNCHANGED <<shutdown, broken>>

\* send_write(): the packets go to every send but that of the connection they
\* came from; those it cannot write to are only marked, with shutdown().
SendWrite(c) ==
  \E failed \in SUBSET (snd \ {c}) : broken' = broken \cup failed

\* receive_read(): data.  A full buffer deletes the connection afterwards.
ReceiveData(c) ==
  /\ Call(RecvPeer(c))
  /\ SendWrite(c)
  /\ \/ UNCHANGED <<count, recv, snd, sr, owner, regular, transVars>>
     \/ HalfDel(c, "receive")
  /\ ready' = ready \ {RecvPeer(c)}
  /\ UNCHANGED shutdown

\* send_del_wrapper(): EPOLLHUP or EPOLLERR, a send asks for nothing else.
SendHup(c) ==
  /\ Call(SendPeer(c))
  /\ HalfDel(c, "send")
  /\ broken' = broken \ {c}
  /\ ready' = ready \ {SendPeer(c)}
  /\ UNCHANGED shutdown

\* wakeup_handler(): the inner peer's handler, then wakeup_del().
Wakeup(t) ==
  /\ Call(WakePeer(t))
  /\ handler[t] = "retry"
  /\ Start(t, [wake EXCEPT ![t] = @ - 1], count)
  /\ ready' = ready \ {WakePeer(t)}
  /\ UNCHANGED <<shutdown, alive>>

\* The three outcomes of a handler that may leave the transport without an
\* fd of its own: it keeps (or replaces) the fd, or retries later.
KeepFd(t, h) ==
  /\ handler' = [handler EXCEPT ![t] = h]
  /\ UNCHANGED <<reg, wake, armed>>
DropFdAndRetry(t) ==
  /\ Retry(t, wake)
  /\ reg' = [reg EXCEPT ![t] = FALSE]

\* outgoing_resolve_handler(): resolution fails, or no address accepts the
\* attempt; otherwise a connection attempt is in progress.
OutgoingResolved(t) ==
  /\ Kind[t] = "outgoing" /\ handler[t] = "resolved"
  /\ Call(OwnPeer(t))
  /\ DropFdAndRetry(t) \/ KeepFd(t, "connected")
  /\ ready' = ready \ {OwnPeer(t)}
  /\ UNCHANGED <<shutdown, count, connVars, alive, retry, child, log>>

\* Bug: event_handler is left as it was when the connection is made.
OutgoingConnectedStale(t) ==
  /\ Kind[t] = "outgoing" /\ handler[t] = "connected"
  /\ Call(OwnPeer(t))
  /\ \/ /\ DropFdAndRetry(t) \/ KeepFd(t, "connected")
        /\ UNCHANGED <<count, connVars>>
     \/ /\ \E c \in Conns : FlowNew(c, FlowOf[t], t, FALSE)
        /\ count' = CountNew(count, FlowOf[t])
        /\ reg' = [reg EXCEPT ![t] = FALSE]
        /\ UNCHANGED <<handler, wake, armed>>
  /\ ready' = ready \ {OwnPeer(t)}
  /\ UNCHANGED <<shutdown, alive, retry, child, log>>

\* outgoing_connect_handler(): the attempt succeeded, or the next address
\* is tried, or there is none left.
OutgoingConnected(t) ==
  /\ Kind[t] = "outgoing" /\ handler[t] = "connected"
  /\ Call(OwnPeer(t))
  /\ \/ /\ DropFdAndRetry(t) \/ KeepFd(t, "connected")
        /\ UNCHANGED <<count, connVars>>
     \/ /\ \E c \in Conns : FlowNew(c, FlowOf[t], t, FALSE)
        /\ count' = CountNew(count, FlowOf[t])
        /\ handler' = [handler EXCEPT ![t] = "closed"]
        /\ reg' = [reg EXCEPT ![t] = FALSE]
        /\ UNCHANGED <<wake, armed>>
  /\ ready' = ready \ {OwnPeer(t)}
  /\ UNCHANGED <<shutdown, alive, retry, child, log>>

\* incoming_listen(): resolution or every bind() fails, or it listens.
IncomingListen(t) ==
  /\ Kind[t] = "incoming" /\ handler[t] = "resolved"
  /\ Call(OwnPeer(t))
  /\ DropFdAndRetry(t) \/ KeepFd(t, "accept")
  /\ ready' = ready \ {OwnPeer(t)}
  /\ UNCHANGED <<shutdown, count, connVars, alive, retry, child, log>>

\* incoming_handler(): accept4() or the greeting fails, or a connection
\* without an on_close is made.
IncomingAccept(t) ==
  /\ Kind[t] = "incoming" /\ handler[t] = "accept"
  /\ Call(OwnPeer(t))
  /\ \/ UNCHANGED <<count, connVars>>
     \/ /\ \E c \in Conns : FlowNew(c, FlowOf[t], NoOwner, FALSE)
        /\ count' = CountNew(count, FlowOf[t])
  /\ ready' = ready \ {OwnPeer(t)}
  /\ UNCHANGED <<shutdown, transVars>>

\* exec_sigchld_handler(): one waitpid(WNOHANG) per signal read.
ExecSigchld ==
  /\ Call(SigchldPeer)
  /\ \/ \E t \in alive :
          /\ child[t] = "zombie" /\ handler[t] = "died"
          /\ child' = [child EXCEPT ![t] = "none"]
          /\ log' = [log EXCEPT ![t] = FALSE]
          /\ Retry(t, wake)
          /\ ready' = ready \ {SigchldPeer, LogPeer(t)}
          /\ UNCHANGED <<reg, retry>>
     \/ /\ \A t \in alive : child[t] # "zombie"
        /\ ready' = ready \ {SigchldPeer}
        /\ UNCHANGED <<handler, reg, wake, armed, retry, child, log>>
  /\ UNCHANGED <<shutdown, alive, count, connVars>>

\* exec_log_handler(): a line to log, or the end of the stream.  After
\* exec_child_cleanup() in the same batch the fd is -1 and the read fails.
ExecLog(t) ==
  /\ Call(LogPeer(t))
  /\ \/ log[t] /\ UNCHANGED log
     \/ log' = [log EXCEPT ![t] = FALSE]
  /\ ready' = ready \ {LogPeer(t)}
  /\ UNCHANGED <<shutdown, count, connVars,
                 alive, handler, reg, wake, armed, retry, child>>

\* peer_shutdown_handler(): SIGINT or SIGTERM.
ShutdownSignal ==
  /\ Call(ShutdownPeer)
  /\ shutdown' = TRUE
  /\ ready' = ready \ {ShutdownPeer}
  /\ UNCHANGED <<count, connVars, transVars>>

-----------------------------------------------------------------------------
(* peer_loop() *)

\* Bug: transports and connections that both send and receive are not inputs.
InputsRemainPlain == count["receive"] # 0

InputsRemain  == count["receive"] + count["send_receive"] # 0
OutputsRemain == count["send"] + count["send_receive"] # 0

\* "No remaining inputs" / "No remaining outputs".
NoneRemaining ==
  /\ phase = "loop"
  /\ ~InputsRemain \/ ~OutputsRemain
  /\ shutdown' = TRUE
  /\ phase' = "clean_receive"
  /\ UNCHANGED <<ready, batch, count, connVars, transVars>>

\* epoll_wait(): everything that is ready, up to MAX_EVENTS.  It blocks
\* when nothing is ready and the always-trigger list is empty.
EpollWait ==
  /\ phase = "loop"
  /\ InputsRemain /\ OutputsRemain
  /\ ready # {} \/ AlwaysTrigger # {}
  /\ \E B \in SUBSET ready :
       /\ B = ready \/ Cardinality(B) = MaxEvents
       /\ Cardinality(B) <= MaxEvents
       /\ batch' = B
  /\ phase' = "dispatch"
  /\ UNCHANGED <<shutdown, ready, count, connVars, transVars>>

\* The batch is done; the always-trigger list is walked.
WalkAlways ==
  /\ phase = "dispatch" /\ batch = {} /\ ~shutdown
  /\ batch' = {RecvPeer(c) : c \in AlwaysTrigger}
  /\ phase' = IF AlwaysTrigger = {} THEN "loop" ELSE "always"
  /\ UNCHANGED <<shutdown, ready, count, connVars, transVars>>

WalkDone ==
  /\ phase = "always" /\ batch = {} /\ ~shutdown
  /\ phase' = "loop"
  /\ UNCHANGED <<shutdown, ready, batch, count, connVars, transVars>>

\* Bug: the flag is looked at only when another event has arrived.
LeaveLoopLate ==
  /\ phase \in {"dispatch", "always"} /\ shutdown /\ ready # {}
  /\ batch' = {}
  /\ phase' = "clean_receive"
  /\ UNCHANGED <<shutdown, ready, count, connVars, transVars>>

\* Every remaining peer_call() is a no-op and the loop ends.
LeaveLoop ==
  /\ phase \in {"dispatch", "always"} /\ shutdown
  /\ batch' = {}
  /\ phase' = "clean_receive"
  /\ UNCHANGED <<shutdown, ready, count, connVars, transVars>>

-----------------------------------------------------------------------------
(* main(): start-up *)

\* outgoing_new(), incoming_new(), exec_new(), file_new(), called for each
\* option of the kind by opts_call() in the kind's *_init().
TransportNew(t) ==
  /\ phase = Kind[t]
  /\ t \notin alive /\ Cardinality(alive) < MaxOptions
  /\ alive' = alive \cup {t}
  /\ Start(t, wake, [count EXCEPT ![FlowOf[t]] = @ + 1])
  /\ UNCHANGED loopVars

\* Every option of the kind that is on the command line was handled.
InitDone ==
  /\ phase \in Kinds
  /\ phase' = After(phase)
  /\ UNCHANGED <<shutdown, ready, batch, count, connVars, transVars>>

\* stdinout_init(): stdin and stdout have no transport to recreate them.
StdinoutInit ==
  /\ phase \in {"stdin", "stdout"}
  /\ LET f == IF phase = "stdin" THEN "receive" ELSE "send" IN
       \/ /\ f \in StdFlows
          /\ \E c \in Conns, isRegular \in BOOLEAN :
               FlowNew(c, f, NoOwner, isRegular)
          /\ count' = CountNew(count, f)
          /\ phase' = After(phase)
       \/ \* the option is not given
          /\ phase' = After(phase)
          /\ UNCHANGED <<count, connVars>>
       \/ \* the greeting cannot be written: opts_call() exits
          /\ f \in StdFlows /\ HelloMayFail(f)
          /\ phase' = "exited"
          /\ UNCHANGED <<count, connVars>>
  /\ UNCHANGED <<shutdown, ready, batch, transVars>>

-----------------------------------------------------------------------------
(* main(): tear-down.  peer_call() does nothing now, so no on_close runs.   *)

ReceiveCleanup ==
  /\ phase = "clean_receive"
  /\ recv' = {}
  /\ count' = [count EXCEPT !["receive"] = @ - Cardinality(recv)]
  /\ UNCHANGED <<snd, sr, transVars>>

SendCleanup ==
  /\ phase = "clean_send"
  /\ snd' = {}
  /\ count' = [count EXCEPT !["send"] = @ - Cardinality(snd)]
  /\ UNCHANGED <<recv, sr, transVars>>

SendReceiveCleanup ==
  /\ phase = "clean_send_receive"
  /\ sr' = [c \in Conns |-> 0]
  /\ UNCHANGED <<recv, snd, count, transVars>>

\* incoming_cleanup(), outgoing_cleanup(), exec_cleanup(), file_cleanup():
\* every transport of kind k is freed; exec_del() also kills and reaps.
TransportCleanup(k) ==
  /\ phase = CleanPhase(k)
  /\ alive' = {t \in alive : Kind[t] # k}
  /\ count' = [f \in Flows |-> count[f] -
                 Cardinality({t \in alive : Kind[t] = k /\ FlowOf[t] = f})]
  /\ reg' = [t \in Transports |-> reg[t] /\ Kind[t] # k]
  /\ child' = [t \in Transports |-> IF Kind[t] = k THEN "none" ELSE child[t]]
  /\ log' = [t \in Transports |-> log[t] /\ Kind[t] # k]
  /\ UNCHANGED <<recv, snd, sr, handler, wake, armed, retry>>

\* Bug: only the wakeups of transports that still exist are deleted.
WakeupCleanupLive ==
  /\ phase = "clean_wakeup"
  /\ wake' = [t \in Transports |-> IF t \in alive THEN 0 ELSE wake[t]]
  /\ UNCHANGED <<recv, snd, sr, count,
                 alive, handler, reg, armed, retry, child, log>>

WakeupCleanup ==
  /\ phase = "clean_wakeup"
  /\ wake' = [t \in Transports |-> 0]
  /\ UNCHANGED <<recv, snd, sr, count,
                 alive, handler, reg, armed, retry, child, log>>

Cleanup ==
  /\ \/ ReceiveCleanup \/ SendCleanup \/ SendReceiveCleanup \/ WakeupCleanup
     \/ \E k \in Kinds : TransportCleanup(k)
  /\ phase' = After(phase)
  /\ UNCHANGED <<shutdown, ready, batch, owner, regular, broken>>

-----------------------------------------------------------------------------
(* The environment.  Events matter only at epoll_wait(), so they are added  *)
(* while the program is there.                                              *)

\* The kernel finds p ready: data, end of file, a hang-up, a finished
\* resolution or connection attempt, a client, an expired timer, a signal.
BecomeReady(p) ==
  /\ phase = "loop"
  /\ p \in Pollable \ ready
  /\ ready' = ready \cup {p}
  /\ UNCHANGED <<phase, shutdown, batch, count, connVars, transVars>>

\* A child exits.  SIGCHLD reaches the signalfd once exec_init() has made
\* it, and a pending SIGCHLD absorbs further ones.
ChildExit(t) ==
  /\ ~shutdown /\ phase # "exited"
  /\ child[t] = "running"
  /\ child' = [child EXCEPT ![t] = "zombie"]
  /\ ready' = IF phase \in {"outgoing", "incoming", "exec"}
              THEN ready ELSE ready \cup {SigchldPeer}
  /\ UNCHANGED <<phase, shutdown, batch, count, connVars,
                 alive, handler, reg, wake, armed, retry, log>>

\* A child is stopped or continued: SIGCHLD with nothing to reap.
ChildStop(t) ==
  /\ phase = "loop"
  /\ child[t] = "running"
  /\ ready' = ready \cup {SigchldPeer}
  /\ UNCHANGED <<phase, shutdown, batch, count, connVars, transVars>>

-----------------------------------------------------------------------------
(* The specification *)

Init ==
  /\ phase = "outgoing"
  /\ shutdown = FALSE
  /\ ready = {} /\ batch = {}
  /\ count = [f \in Flows |-> 0]
  /\ recv = {} /\ snd = {}
  /\ sr = [c \in Conns |-> 0]
  /\ owner = [c \in Conns |-> NoOwner]
  /\ regular = {} /\ broken = {}
  /\ alive = {}
  /\ handler = [t \in Transports |-> "retry"]
  /\ reg = [t \in Transports |-> FALSE]
  /\ wake = [t \in Transports |-> 0]
  /\ armed = {}
  /\ retry = [t \in Transports |-> FALSE]
  /\ child = [t \in Transports |-> "none"]
  /\ log = [t \in Transports |-> FALSE]

Handler ==
  \/ \E c \in Conns : ReceiveEof(c) \/ ReceiveData(c) \/ SendHup(c)
  \/ \E t \in Transports :
       \/ Wakeup(t) \/ OutgoingResolved(t) \/ OutgoingConnected(t)
       \/ IncomingListen(t) \/ IncomingAccept(t) \/ ExecLog(t)
  \/ ExecSigchld \/ ShutdownSignal

Program ==
  \/ \E t \in Transports : TransportNew(t)
  \/ InitDone \/ StdinoutInit
  \/ NoneRemaining \/ EpollWait \/ Handler
  \/ WalkAlways \/ WalkDone \/ LeaveLoop
  \/ Cleanup

Environment ==
  \/ \E p \in Peers : BecomeReady(p)
  \/ \E t \in Transports : ChildExit(t) \/ ChildStop(t)

Terminated == phase \in {"done", "exited"} /\ UNCHANGED vars

Next == Program \/ Environment \/ Terminated

Spec == Init /\ [][Next]_vars

-----------------------------------------------------------------------------
(* Properties *)

\* Type correctness: in particular no counter is ever decremented below 0
\* (they are uint32_t in the code and would wrap).
TypeOK ==
  /\ phase \in Phases
  /\ shutdown \in BOOLEAN
  /\ ready \subseteq Peers
  /\ batch \subseteq Peers
  /\ count \in [Flows -> Nat]
  /\ recv \subseteq Conns /\ snd \subseteq Conns
  /\ sr \in [Conns -> 0..2]
  /\ owner \in [Conns -> Transports \cup {NoOwner}]
  /\ regular \subseteq Conns /\ broken \subseteq Conns
  /\ alive \subseteq Transports
  /\ handler \in [Transports -> Handlers]
  /\ reg \in [Transports -> BOOLEAN]
  /\ wake \in [Transports -> Nat]
  /\ armed \subseteq Transports
  /\ retry \in [Transports -> BOOLEAN]
  /\ child \in [Transports -> {"none", "running", "zombie"}]
  /\ log \in [Transports -> BOOLEAN]

\* The object a peer pointer leads to is allocated (and, for a transport,
\* its fd is the one the event was for).
Valid(p) ==
  \/ \E c \in recv : p = RecvPeer(c)
  \/ \E c \in snd : p = SendPeer(c)
  \/ \E t \in alive : p = OwnPeer(t) /\ reg[t]
  \/ \E t \in alive : p = WakePeer(t) /\ wake[t] > 0
  \/ \E t \in alive : p = LogPeer(t)
  \/ p \in {ShutdownPeer, SigchldPeer}

\* peer_loop() calls peers through pointers it fetched before the earlier
\* handlers of the same batch ran.  No handler frees or reuses a peer that is
\* still to be called: every pointer is valid when it is used.
NoDanglingPeer == ~shutdown => \A p \in batch : Valid(p)

Live == {c \in Conns : c \in recv \/ c \in snd \/ sr[c] > 0}
Owned(t) == {c \in Live : owner[c] = t}

\* What can make a transport run again: its fd in the epoll set, a pending
\* wakeup, a connection that will call on_close, or a child to reap.
Activities(t) ==
  (IF reg[t] THEN 1 ELSE 0) + wake[t] + Cardinality(Owned(t))
    + (IF child[t] # "none" THEN 1 ELSE 0)

\* A transport is never lost and never doubled: while the loop runs, each
\* allocated transport has exactly one thing that will call it.
OneActivity == ~shutdown => \A t \in alive : Activities(t) = 1

\* The function pointer in a transport's peer is the right one for whatever
\* will call it: epoll, a wakeup, on_close, or exec_sigchld_handler().
HandlerMatches ==
  ~shutdown => \A t \in alive :
     /\ reg[t] => handler[t] \in {"resolved", "connected", "accept"}
     /\ wake[t] > 0 => handler[t] = "retry"
     /\ Owned(t) # {} => handler[t] = "closed"
     /\ child[t] # "none" => handler[t] = "died"

\* The struct send_receive of a connection counts its live halves: it is
\* freed, and on_close called, when the second half goes and not before.
SendReceiveRefs ==
  ~shutdown => \A c \in Conns : sr[c] > 0 =>
     sr[c] = (IF c \in recv THEN 1 ELSE 0) + (IF c \in snd THEN 1 ELSE 0)

\* The counters peer_loop() decides by count what they stand for: live
\* receives (sends) plus transports that may make another one.
TransportsOf(f) == {t \in alive : FlowOf[t] = f}
CountsExact ==
  /\ count["receive"] = Cardinality(recv) + Cardinality(TransportsOf("receive"))
  /\ count["send"] = Cardinality(snd) + Cardinality(TransportsOf("send"))
  /\ count["send_receive"] = Cardinality(TransportsOf("send_receive"))

\* "No remaining inputs/outputs" stops the loop only when no connection
\* could still deliver (or take) a packet and no transport could make one.
StopsOnlyWhenUseless ==
  [][phase = "loop" /\ shutdown' =>
       \/ recv = {} /\ \A t \in alive : ~HasReceive(FlowOf[t])
       \/ snd = {} /\ \A t \in alive : ~HasSend(FlowOf[t])]_vars

\* After main()'s cleanup calls nothing is left allocated: no connection,
\* no transport, no child, no wakeup.
CleanExit ==
  phase = "done" =>
    /\ Live = {} /\ alive = {}
    /\ \A t \in Transports : wake[t] = 0 /\ child[t] = "none" /\ ~reg[t] /\ ~log[t]
    /\ \A f \in Flows : count[f] = 0

-----------------------------------------------------------------------------
(* Liveness *)

\* The program runs; an armed timer expires; and a socket that was shut down
\* in both directions reports EPOLLHUP (a plain send on TCP, for which
\* socket_connected_send() has already shut down the other direction; assumed
\* here of outgoing connections only).  With at
\* most MaxEvents peers epoll_wait() returns every ready one, so nothing need be
\* assumed of the order of its ready list.  (Fairness of timers and sockets is
\* strong only because events are added in phase "loop", which a program busy
\* with a regular file keeps leaving.)
HupFollowsShutdown(c) ==
  /\ c \in broken /\ sr[c] = 0
  /\ owner[c] # NoOwner /\ Kind[owner[c]] = "outgoing"
  /\ BecomeReady(SendPeer(c))

Fairness ==
  /\ WF_vars(Program)
  /\ \A t \in Transports : SF_vars(BecomeReady(WakePeer(t)))
  /\ \A c \in Conns : SF_vars(HupFollowsShutdown(c))

LiveSpec == Spec /\ Fairness

\* A transport that waits to retry is called again, or the program shuts down,
\* unless the jitter made the delay 0, which disarms the timer (wakeup.c:81).
RetryHappens ==
  \A t \in Transports :
    (wake[t] > 0 /\ t \in armed /\ phase = "loop") ~> (WakePeer(t) \in batch \/ shutdown)

\* A send whose write failed is deleted, or the program shuts down.
FailedSendDeleted ==
  \A c \in Conns : (c \in broken \cap snd) ~> (c \notin broken \cap snd \/ shutdown)

\* Once the loop is told to stop, main() returns.
ShutdownCompletes == shutdown ~> phase = "done"

=============================================================================
