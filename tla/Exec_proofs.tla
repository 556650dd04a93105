---------------------------- MODULE Exec_proofs -----------------------------
(***************************************************************************)
(* For any number of execs and pids, with or without stops and early       *)
(* deaths: exec->child always names a process of ours, no process is lost, *)
(* and a clean-up that ends leaves none behind.                            *)
(***************************************************************************)
EXTENDS Exec, TLAPS

-----------------------------------------------------------------------------
(* The inductive invariant *)

\* What main() has come to: exec_init() gives each exec a child and nothing
\* waits yet; the loop runs with all of them; exec_del() is between kill() and
\* waitpid() only for an exec with a child; nothing is left at the end.
Progress ==
  /\ main = "init" => waiting = {} /\ \A e \in known : child[e] # NoPid
  /\ main \in {"loop", "reaping"} => known = Execs
  /\ main = "killed" => known # {} /\ child[Current] # NoPid
  /\ main = "done" => known = {}

\* An exec that is not in exec_head has no child.
UnknownHasNone == \A e \in Execs \ known : child[e] = NoPid

IInv ==
  /\ TypeOK /\ Progress /\ UnknownHasNone
  /\ ChildIsOurs /\ NoOrphan /\ ChildOrWakeup

-----------------------------------------------------------------------------
(* Lemmas *)

\* The head of a list that is not empty is on it.
LEMMA CurrentKnown == ASSUME known # {} PROVE Current \in known
BY DEF Current

LEMMA InitInv == Init => IInv
BY ExecAssumption
   DEF Init, IInv, TypeOK, Progress, UnknownHasNone, ChildIsOurs, NoOrphan, ChildOrWakeup, Children

\* exec_spawn() gives a pid that nobody has to an exec that has none.
LEMMA SpawnKeeps ==
  ASSUME TypeOK, ChildIsOurs, NoOrphan, NEW e \in Execs, Spawn(e), child[e] = NoPid,
         known' = known \cup {e}
  PROVE  /\ child' \in [Execs -> Pids \cup {NoPid}]
         /\ proc' \in [Pids -> {"free", "forked", "running", "zombie"}]
         /\ (child')[e] # NoPid
         /\ \A f \in Execs : f # e => (child')[f] = child[f]
         /\ ChildIsOurs' /\ NoOrphan'
<1>1. PICK p \in Pids : /\ proc[p] = "free"
                        /\ proc' = [proc EXCEPT ![p] = "forked"]
                        /\ child' = [child EXCEPT ![e] = p]
  BY DEF Spawn
<1>2. (child')[e] = p /\ p # NoPid /\ \A f \in Execs : f # e => (child')[f] = child[f]
  BY <1>1, ExecAssumption DEF TypeOK
<1>3. (proc')[p] = "forked" /\ \A q \in Pids : q # p => (proc')[q] = proc[q]
  BY <1>1 DEF TypeOK
<1>4. \A f \in Execs : child[f] # p
  BY <1>1, <1>2 DEF ChildIsOurs
<1>5. ChildIsOurs'
  BY <1>2, <1>3, <1>4 DEF ChildIsOurs, TypeOK
<1>6. NoOrphan'
  <2> SUFFICES ASSUME NEW q \in Pids, (proc')[q] # "free"
               PROVE  \E f \in known' : (child')[f] = q
    BY DEF NoOrphan, Children
  <2>1. CASE q = p
    BY <1>2, <2>1
  <2>2. CASE q # p
    <3>1. PICK f \in known : child[f] = q
      BY <1>3, <2>2 DEF NoOrphan, Children
    <3>2. f # e /\ f \in Execs
      BY <3>1, ExecAssumption DEF TypeOK
    <3> QED BY <1>2, <3>1, <3>2
  <2> QED BY <2>1, <2>2
<1> QED BY <1>1, <1>2, <1>5, <1>6 DEF TypeOK

LEMMA ExecNewInv ==
  ASSUME IInv, NEW e \in Execs, ExecNew(e)
  PROVE  IInv'
<1> USE DEF IInv
<1>1. child[e] = NoPid /\ Spawn(e) /\ known' = known \cup {e}
  BY DEF ExecNew, UnknownHasNone
<1>2. /\ child' \in [Execs -> Pids \cup {NoPid}]
      /\ proc' \in [Pids -> {"free", "forked", "running", "zombie"}]
      /\ (child')[e] # NoPid
      /\ \A f \in Execs : f # e => (child')[f] = child[f]
      /\ ChildIsOurs' /\ NoOrphan'
  BY <1>1, SpawnKeeps
<1>3. TypeOK' /\ UnknownHasNone'
  BY <1>1, <1>2 DEF ExecNew, TypeOK, UnknownHasNone
<1>4. Progress' /\ ChildOrWakeup'
  BY <1>1, <1>2 DEF ExecNew, Progress, ChildOrWakeup, TypeOK
<1> QED BY <1>2, <1>3, <1>4

LEMMA RespawnInv ==
  ASSUME IInv, NEW e \in Execs, Respawn(e)
  PROVE  IInv'
<1> USE DEF IInv
<1>1. child[e] = NoPid /\ Spawn(e) /\ known = Execs /\ known' = known \cup {e}
  BY DEF Respawn, Progress, ChildOrWakeup
<1>2. /\ child' \in [Execs -> Pids \cup {NoPid}]
      /\ proc' \in [Pids -> {"free", "forked", "running", "zombie"}]
      /\ (child')[e] # NoPid
      /\ \A f \in Execs : f # e => (child')[f] = child[f]
      /\ ChildIsOurs' /\ NoOrphan'
  BY <1>1, SpawnKeeps
<1>3. TypeOK' /\ UnknownHasNone'
  BY <1>1, <1>2 DEF Respawn, TypeOK, UnknownHasNone
<1>4. Progress' /\ ChildOrWakeup'
  BY <1>1, <1>2 DEF Respawn, Progress, ChildOrWakeup, TypeOK
<1> QED BY <1>2, <1>3, <1>4

\* Reaping a process that an exec may have: no exec has it afterwards.
LEMMA ReapKeeps ==
  ASSUME TypeOK, ChildIsOurs, NoOrphan, UnknownHasNone, NEW p \in Pids,
         proc' = [proc EXCEPT ![p] = "free"],
         child' = [e \in Execs |-> IF child[e] = p THEN NoPid ELSE child[e]],
         known' = known
  PROVE  /\ child' \in [Execs -> Pids \cup {NoPid}]
         /\ proc' \in [Pids -> {"free", "forked", "running", "zombie"}]
         /\ UnknownHasNone' /\ ChildIsOurs' /\ NoOrphan'
<1>1. /\ child' \in [Execs -> Pids \cup {NoPid}]
      /\ proc' \in [Pids -> {"free", "forked", "running", "zombie"}]
  BY DEF TypeOK
<1>2. \A q \in Pids : (proc')[q] = IF q = p THEN "free" ELSE proc[q]
  BY DEF TypeOK
<1>3. \A e \in Execs : (child')[e] = IF child[e] = p THEN NoPid ELSE child[e]
  OBVIOUS
<1>4. UnknownHasNone' /\ ChildIsOurs'
  BY <1>1, <1>2, <1>3, ExecAssumption DEF UnknownHasNone, ChildIsOurs, TypeOK
<1>5. NoOrphan'
  <2> SUFFICES ASSUME NEW q \in Pids, (proc')[q] # "free"
               PROVE  \E f \in known : (child')[f] = q
    BY DEF NoOrphan, Children
  <2>1. q # p /\ proc[q] # "free"
    BY <1>2
  <2>2. PICK f \in known : child[f] = q
    BY <2>1 DEF NoOrphan, Children
  <2> QED BY <1>3, <2>1, <2>2 DEF TypeOK
<1> QED BY <1>1, <1>4, <1>5

LEMMA WaitpidInv ==
  ASSUME IInv, Waitpid
  PROVE  IInv'
<1> USE DEF IInv
<1>1. ASSUME NEW p \in Pids, proc[p] = "zombie",
             proc' = [proc EXCEPT ![p] = "free"],
             child' = [e \in Execs |-> IF child[e] = p THEN NoPid ELSE child[e]],
             waiting' = waiting \cup {e \in known : child[e] = p},
             termed' = termed \ {p}, main' = "loop", UNCHANGED <<known, sigchld>>,
             main = "reaping"
      PROVE  IInv'
  <2>1. /\ child' \in [Execs -> Pids \cup {NoPid}]
        /\ proc' \in [Pids -> {"free", "forked", "running", "zombie"}]
        /\ UnknownHasNone' /\ ChildIsOurs' /\ NoOrphan'
    BY <1>1, ReapKeeps
  <2>2. TypeOK' /\ Progress'
    BY <1>1, <2>1 DEF TypeOK, Progress
  <2>3. ChildOrWakeup'
    BY <1>1, ExecAssumption DEF ChildOrWakeup, Progress, TypeOK
  <2> QED BY <2>1, <2>2, <2>3
<1>2. ASSUME main = "reaping", main' \in {"loop", "aborted"},
             UNCHANGED <<child, waiting, proc, termed, known, sigchld>>
      PROVE  IInv'
  BY <1>2 DEF TypeOK, Progress, UnknownHasNone, ChildIsOurs, NoOrphan, Children, ChildOrWakeup
<1> QED BY <1>1, <1>2 DEF Waitpid

LEMMA ExecReapInv ==
  ASSUME IInv, ExecReap
  PROVE  IInv'
<1> USE DEF IInv
<1>1. Current \in known /\ Current \in Execs /\ child[Current] \in Pids
  BY CurrentKnown DEF ExecReap, Progress, TypeOK
<1>2. \A e \in Execs : child[e] = child[Current] => e = Current
  BY <1>1, ExecAssumption DEF ChildIsOurs
<1>3. child' = [e \in Execs |-> IF child[e] = child[Current] THEN NoPid ELSE child[e]]
  BY <1>1, <1>2 DEF ExecReap, TypeOK
<1>4. /\ child' \in [Execs -> Pids \cup {NoPid}]
      /\ proc' \in [Pids -> {"free", "forked", "running", "zombie"}]
      /\ UnknownHasNone' /\ ChildIsOurs' /\ NoOrphan'
  <2> DEFINE p == child[Current]
  <2>1. proc' = [proc EXCEPT ![p] = "free"] /\ known' = known /\ p \in Pids
    BY <1>1 DEF ExecReap
  <2>2. child' = [e \in Execs |-> IF child[e] = p THEN NoPid ELSE child[e]]
    BY <1>3
  <2> HIDE DEF p
  <2> QED BY <2>1, <2>2, ReapKeeps
<1>5. TypeOK' /\ Progress' /\ ChildOrWakeup'
  BY <1>4 DEF ExecReap, TypeOK, Progress, ChildOrWakeup
<1> QED BY <1>4, <1>5

\* The steps that change neither children nor processes, or only the state of
\* a process that stays one.
LEMMA OtherInv ==
  ASSUME IInv,
         \/ SigchldBlocked \/ ReadSiginfo \/ ExecKill \/ ExecFree \/ CleanupDone \/ Shutdown
         \/ UNCHANGED vars
         \/ \E p \in Pids : Setpgid(p) \/ ChildExit(p) \/ ChildStop(p)
  PROVE  IInv'
<1> USE DEF IInv
<1>1. ASSUME \/ SigchldBlocked \/ ReadSiginfo \/ CleanupDone \/ Shutdown \/ UNCHANGED vars
      PROVE  IInv'
  BY <1>1 DEF SigchldBlocked, ReadSiginfo, CleanupDone, Shutdown, vars, TypeOK, Progress,
              UnknownHasNone, ChildIsOurs, NoOrphan, Children, ChildOrWakeup, Current
<1>2. ASSUME ExecKill PROVE IInv'
  <2>1. Current' = Current /\ Current \in known
    BY <1>2, CurrentKnown DEF ExecKill, Current
  <2> QED
    BY <1>2, <2>1 DEF ExecKill, TypeOK, Progress, UnknownHasNone, ChildIsOurs, NoOrphan, Children,
                      ChildOrWakeup
<1>3. ASSUME ExecFree PROVE IInv'
  <2>1. Current \in known
    BY <1>3, CurrentKnown DEF ExecFree
  <2>2. NoOrphan'
    BY <1>3, <2>1, ExecAssumption DEF ExecFree, NoOrphan, Children
  <2> QED
    BY <1>3, <2>1, <2>2 DEF ExecFree, TypeOK, Progress, UnknownHasNone, ChildIsOurs, ChildOrWakeup
<1>4. ASSUME NEW p \in Pids, Setpgid(p) \/ ChildExit(p) \/ ChildStop(p) PROVE IInv'
  <2>1. /\ UNCHANGED <<main, child, waiting, known, termed>>
        /\ proc' \in [Pids -> {"free", "forked", "running", "zombie"}]
        /\ sigchld' \in BOOLEAN
        /\ \A q \in Pids : (proc')[q] = "free" <=> proc[q] = "free"
    BY <1>4 DEF Setpgid, ChildExit, ChildStop, Alive, TypeOK
  <2>2. Current' = Current
    BY <2>1 DEF Current
  <2>3. TypeOK' /\ Progress' /\ UnknownHasNone' /\ ChildOrWakeup'
    BY <2>1, <2>2 DEF TypeOK, Progress, UnknownHasNone, ChildOrWakeup
  <2>4. ChildIsOurs' /\ NoOrphan'
    BY <2>1 DEF ChildIsOurs, NoOrphan, Children, TypeOK
  <2> QED BY <2>3, <2>4
<1> QED BY <1>1, <1>2, <1>3, <1>4

LEMMA NextInv == IInv /\ [Next]_vars => IInv'
BY ExecNewInv, RespawnInv, WaitpidInv, ExecReapInv, OtherInv DEF Next, Program, Stopped

-----------------------------------------------------------------------------
(* Theorems *)

\* The invariant of exec.c and its processes.
THEOREM InductiveInvariant == Spec => []IInv
BY InitInv, NextInv, PTL DEF Spec

\* Types of the bookkeeping and of the kernel's tables.
THEOREM TypeCorrect == Spec => []TypeOK
BY InductiveInvariant, PTL DEF IInv

\* exec->child is never a recycled pid, so that kill() in exec_del() reaches
\* nobody else and its waitpid() returns the child.
THEOREM KillsOwnChild == Spec => []ChildIsOurs
BY InductiveInvariant, PTL DEF IInv

\* exec_spawn() never overwrites a child that lives or has not been reaped.
THEOREM NeverLosesProcess == Spec => []NoOrphan
BY InductiveInvariant, PTL DEF IInv

\* exec_sigchld_handler() schedules one respawn for each child it reaps, and
\* nothing else does.
THEOREM RespawnsExactly == Spec => []ChildOrWakeup
BY InductiveInvariant, PTL DEF IInv

\* When exec_cleanup() returns there is no child left, running or dead.
THEOREM LeavesNoChild == Spec => []CleanupReapsAll
<1>1. IInv => CleanupReapsAll
  BY DEF IInv, Progress, NoOrphan, CleanupReapsAll
<1> QED BY <1>1, InductiveInvariant, PTL

=============================================================================
