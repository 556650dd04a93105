-------------------------------- MODULE Exec --------------------------------
(***************************************************************************)
(* The child processes of exec.c: fork, SIGCHLD through a signalfd, one    *)
(* waitpid() per signal read, respawning, and kill() and waitpid() at      *)
(* shutdown.  The kernel keeps at most one SIGCHLD pending, gives a pid    *)
(* out again once its process has been waited for, and discards a SIGCHLD  *)
(* that arrives before it is blocked for the signalfd.  A child runs on    *)
(* its own: it enters its process group, may be stopped, and may exit      *)
(* between any two steps of the program, in particular between the read()  *)
(* and the waitpid() of the handler.                                       *)
(***************************************************************************)
EXTENDS Integers, FiniteSets

CONSTANTS
  Execs,      \* the --exec-* options
  Pids,       \* process identifiers the kernel may give out
  NoPid,      \* exec->child = -1, or an exec that was not spawned yet
  MayStop,    \* may children be stopped and continued?
  MayDieEarly \* may children exit before exec_init() is done?

ASSUME ExecAssumption ==
  /\ IsFiniteSet(Execs) /\ IsFiniteSet(Pids)
  /\ NoPid \notin Pids
  /\ MayStop \in BOOLEAN /\ MayDieEarly \in BOOLEAN

VARIABLES
  main,      \* "init", "loop", "reaping" (between read() and waitpid()),
             \* "cleanup", "killed" (between kill() and waitpid()), "done",
             \* "aborted" by a failed assertion
  child,     \* exec->child
  waiting,   \* execs with a pending wakeup
  known,     \* execs in exec_head
  proc,      \* state of each process: "free", "forked" (not yet in its own
             \* process group), "running", "zombie"
  termed,    \* processes that were sent SIGTERM
  sigchld    \* is SIGCHLD pending?

vars == <<main, child, waiting, known, proc, termed, sigchld>>

Init ==
  /\ main = "init"
  /\ child = [e \in Execs |-> NoPid]
  /\ waiting = {} /\ known = {}
  /\ proc = [p \in Pids |-> "free"]
  /\ termed = {} /\ sigchld = FALSE

Alive(p) == proc[p] \in {"forked", "running"}
Children == {p \in Pids : proc[p] # "free"}

-----------------------------------------------------------------------------
(* The program *)

\* exec_spawn(): fork().
Spawn(e) ==
  \E p \in Pids :
    /\ proc[p] = "free"
    /\ proc' = [proc EXCEPT ![p] = "forked"]
    /\ child' = [child EXCEPT ![e] = p]

\* exec_new(), from opts_call() in exec_init().
ExecNew(e) ==
  /\ main = "init" /\ e \notin known
  /\ Spawn(e)
  /\ known' = known \cup {e}
  /\ UNCHANGED <<main, waiting, termed, sigchld>>

\* The rest of exec_init(): from here on SIGCHLD is kept for the signalfd.
SigchldBlocked ==
  /\ main = "init" /\ known = Execs
  /\ main' = "loop"
  /\ UNCHANGED <<child, waiting, known, proc, termed, sigchld>>

\* The wakeup: exec_spawn_wrapper().
Respawn(e) ==
  /\ main = "loop" /\ e \in waiting
  /\ Spawn(e)
  /\ waiting' = waiting \ {e}
  /\ UNCHANGED <<main, known, termed, sigchld>>

\* exec_sigchld_handler(): read() of the signalfd.
ReadSiginfo ==
  /\ main = "loop" /\ sigchld
  /\ sigchld' = FALSE
  /\ main' = "reaping"
  /\ UNCHANGED <<child, waiting, known, proc, termed>>

\* Bug: exec->child still names the reaped process.
WaitpidKeepsChild ==
  /\ main = "reaping"
  /\ \E p \in Pids :
       /\ proc[p] = "zombie"
       /\ proc' = [proc EXCEPT ![p] = "free"]
       /\ waiting' = waiting \cup {e \in known : child[e] = p}
  /\ main' = "loop"
  /\ UNCHANGED <<child, known, termed, sigchld>>

\* Bug: a child that is only stopped is treated as dead.
WaitpidUntraced ==
  /\ main = "reaping"
  /\ \E p \in Children :
       /\ waiting' = waiting \cup {e \in known : child[e] = p}
       /\ child' = [e \in Execs |-> IF child[e] = p THEN NoPid ELSE child[e]]
  /\ main' = "loop"
  /\ UNCHANGED <<known, proc, termed, sigchld>>

\* Bug: a dead child is not replaced.
WaitpidForgets ==
  /\ main = "reaping"
  /\ \E p \in Pids :
       /\ proc[p] = "zombie"
       /\ proc' = [proc EXCEPT ![p] = "free"]
       /\ child' = [e \in Execs |-> IF child[e] = p THEN NoPid ELSE child[e]]
  /\ main' = "loop"
  /\ UNCHANGED <<waiting, known, termed, sigchld>>

\* exec_sigchld_handler(): waitpid(-1, WNOHANG) reaps some zombie, and its exec
\* schedules a respawn; or all children live; or there is none at all.
Waitpid ==
  /\ main = "reaping"
  /\ \/ \E p \in Pids :
          /\ proc[p] = "zombie"
          /\ proc' = [proc EXCEPT ![p] = "free"]
          /\ child' = [e \in Execs |-> IF child[e] = p THEN NoPid ELSE child[e]]
          /\ waiting' = waiting \cup {e \in known : child[e] = p}
          /\ termed' = termed \ {p}
          /\ main' = "loop"
     \/ /\ Children # {} /\ \A p \in Children : Alive(p)
        /\ main' = "loop"
        /\ UNCHANGED <<child, waiting, proc, termed>>
     \/ \* ECHILD: assert(pid > 0)
        /\ Children = {}
        /\ main' = "aborted"
        /\ UNCHANGED <<child, waiting, proc, termed>>
  /\ UNCHANGED <<known, sigchld>>

\* SIGINT or SIGTERM: the loop ends and exec_cleanup() begins.
Shutdown ==
  /\ main = "loop"
  /\ main' = "cleanup"
  /\ UNCHANGED <<child, waiting, known, proc, termed, sigchld>>

\* exec_del(): kill(0 - child) reaches the child's process group, if the
\* child has made it already.  The exec it is working on is the one left in
\* known that it CHOOSEs: the head of exec_head.
Current == CHOOSE e \in known : TRUE
ExecKill ==
  /\ main = "cleanup" /\ known # {}
  /\ child[Current] # NoPid
  /\ termed' = IF proc[child[Current]] = "forked" THEN termed
               ELSE termed \cup {child[Current]}
  /\ main' = "killed"
  /\ UNCHANGED <<child, waiting, known, proc, sigchld>>

\* exec_del(): waitpid() blocks until the child is a zombie.
ExecReap ==
  /\ main = "killed"
  /\ proc[child[Current]] = "zombie"
  /\ proc' = [proc EXCEPT ![child[Current]] = "free"]
  /\ termed' = termed \ {child[Current]}
  /\ child' = [child EXCEPT ![Current] = NoPid]
  /\ main' = "cleanup"
  /\ UNCHANGED <<waiting, known, sigchld>>

\* Bug: children are killed and not waited for.
ExecFreeUnreaped ==
  /\ main = "cleanup" /\ known # {}
  /\ known' = known \ {Current}
  /\ UNCHANGED <<main, child, waiting, proc, termed, sigchld>>

\* The rest of exec_del(), without a child.
ExecFree ==
  /\ main = "cleanup" /\ known # {}
  /\ child[Current] = NoPid
  /\ known' = known \ {Current}
  /\ UNCHANGED <<main, child, waiting, proc, termed, sigchld>>

\* exec_cleanup() is done; wakeup_cleanup() drops the wakeups.
CleanupDone ==
  /\ main = "cleanup" /\ known = {}
  /\ main' = "done"
  /\ waiting' = {}
  /\ UNCHANGED <<child, known, proc, termed, sigchld>>

-----------------------------------------------------------------------------
(* The children *)

\* setpgid(0, 0) in exec_child().
Setpgid(p) ==
  /\ proc[p] = "forked"
  /\ proc' = [proc EXCEPT ![p] = "running"]
  /\ UNCHANGED <<main, child, waiting, known, termed, sigchld>>

\* SIGCHLD is discarded while it is not blocked.
ChildExit(p) ==
  /\ Alive(p) /\ main \notin {"done", "aborted"}
  /\ MayDieEarly \/ main # "init"
  /\ proc' = [proc EXCEPT ![p] = "zombie"]
  /\ sigchld' = (main # "init")
  /\ UNCHANGED <<main, child, waiting, known, termed>>

ChildStop(p) ==
  /\ MayStop /\ proc[p] = "running" /\ main \in {"loop", "reaping"}
  /\ sigchld' = TRUE
  /\ UNCHANGED <<main, child, waiting, known, proc, termed>>

-----------------------------------------------------------------------------

Program ==
  \/ \E e \in Execs : ExecNew(e) \/ Respawn(e)
  \/ SigchldBlocked \/ ReadSiginfo \/ Waitpid
  \/ ExecKill \/ ExecReap \/ ExecFree \/ CleanupDone

Stopped == main \in {"done", "aborted"} /\ UNCHANGED vars

Next == \/ Program \/ Shutdown \/ Stopped
        \/ \E p \in Pids : Setpgid(p) \/ ChildExit(p) \/ ChildStop(p)

Spec == Init /\ [][Next]_vars

\* The program runs, wakeups fire, a pending SIGCHLD is read, a child gets to
\* its setpgid(), and one that is sent SIGTERM exits.
Fairness ==
  /\ WF_vars(SigchldBlocked) /\ WF_vars(ReadSiginfo) /\ WF_vars(Waitpid)
  /\ WF_vars(ExecKill) /\ WF_vars(ExecReap) /\ WF_vars(ExecFree)
  /\ WF_vars(CleanupDone)
  /\ \A e \in Execs : WF_vars(ExecNew(e)) /\ SF_vars(Respawn(e))
  /\ \A p \in Pids : WF_vars(Setpgid(p)) /\ WF_vars(p \in termed /\ ChildExit(p))

LiveSpec == Spec /\ Fairness

-----------------------------------------------------------------------------
(* Properties *)

\* Type correctness.
TypeOK ==
  /\ main \in {"init", "loop", "reaping", "cleanup", "killed", "done", "aborted"}
  /\ child \in [Execs -> Pids \cup {NoPid}]
  /\ waiting \subseteq Execs /\ known \subseteq Execs
  /\ proc \in [Pids -> {"free", "forked", "running", "zombie"}]
  /\ termed \subseteq Pids
  /\ sigchld \in BOOLEAN

\* exec->child is a process of ours that nobody has waited for, and of one
\* exec only: kill(0 - child) in exec_del() never reaches a recycled pid, and
\* its assert(waitpid(child) == child) holds.
ChildIsOurs ==
  \A e \in Execs : child[e] # NoPid =>
    /\ proc[child[e]] # "free"
    /\ \A f \in Execs : child[f] = child[e] => f = e

\* Each process, running or dead, is the child of some exec: a respawn never
\* loses track of the process before it.
NoOrphan == \A p \in Children : \E e \in known : child[e] = p

\* While the loop runs an exec has a child or waits to spawn one, not both.
ChildOrWakeup ==
  main \in {"loop", "reaping"} =>
    \A e \in Execs : (child[e] = NoPid) <=> (e \in waiting)

\* exec_cleanup() leaves no child behind, running or dead.
CleanupReapsAll == main = "done" => Children = {}

\* "SIGCHILD will fire and clean this up when the process actually dies.":
\* a dead child is reaped, unless the program shuts down first.
DeadChildReaped ==
  \A e \in Execs :
    (\E p \in Pids : child[e] = p /\ proc[p] = "zombie")
       ~> (child[e] = NoPid \/ main \in {"cleanup", "killed", "done"})

=============================================================================
