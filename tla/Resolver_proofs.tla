--------------------------- MODULE Resolver_proofs ---------------------------
(***************************************************************************)
(* Theorems about Resolver, for any number of threads and resolutions and  *)
(* any size of the request socket.                                         *)
(***************************************************************************)
EXTENDS Resolver, TLAPS

(***************************************************************************)
(* The inductive invariant.  The properties of Resolver are not inductive  *)
(* alone: that nothing is in flight after the join rests on what a thread  *)
(* knew when it left its loop, and that an answer finds its reader on what *)
(* the main thread has open in each phase.                                 *)
(***************************************************************************)

\* A thread leaves its loop only when nobody can ask any more, and main()
\* goes on only when every thread has left.
ExitedLast ==
  /\ \A i \in Threads : pc[i] = "exited" => main # "run" /\ queue = <<>>
  /\ main \in {"joined", "done"} => \A i \in Threads : pc[i] = "exited"

\* A descriptor the main thread has open is for a resolution that exists, and
\* an answer can only be in a socket that is open.
FdsNest == answers \subseteq callerFd /\ callerFd \subseteq allocated

\* Whatever the main thread waits for is on its way.
NothingLost ==
  \A r \in callerFd : r \in Queued \/ r \in answers \/ \E i \in Threads : Owns(i, r)

\* Only a thread outside its lookup has no resolution.
OwnersHold == \A i \in Threads : pc[i] \in {"lookup", "send"} => res[i] \in Reqs

IInv ==
  /\ TypeOK /\ OneOwner /\ AnswerHasReader /\ JoinDrains
  /\ ExitedLast /\ FdsNest /\ NothingLost /\ OwnersHold

-----------------------------------------------------------------------------
(* The request socket *)

\* Sending adds the pointer to those that are queued.
LEMMA QueuedAppend ==
  ASSUME queue \in Seq(Reqs), NEW r \in Reqs, queue' = Append(queue, r)
  PROVE  Queued' = Queued \cup {r}
BY DEF Queued

\* Receiving takes one pointer out; if each is queued once, it is gone then.
LEMMA QueuedTail ==
  ASSUME queue \in Seq(Reqs), queue # <<>>, queue' = Tail(queue),
         \A j, k \in 1..Len(queue) : queue[j] = queue[k] => j = k
  PROVE  /\ Head(queue) \in Queued
         /\ Queued' = Queued \ {Head(queue)}
         /\ \A j, k \in 1..Len(queue') : queue'[j] = queue'[k] => j = k
         /\ queue' \in Seq(Reqs) /\ Len(queue') < Len(queue)
<1>1. Len(queue) \in Nat \ {0} /\ Head(queue) = queue[1]
  OBVIOUS
<1>2. /\ queue' \in Seq(Reqs)
      /\ Len(queue') = Len(queue) - 1
      /\ \A k \in 1..Len(queue') : queue'[k] = queue[k + 1]
  OBVIOUS
<1>3. Head(queue) \in Queued
  BY <1>1 DEF Queued
<1>4. \A j, k \in 1..Len(queue') : queue'[j] = queue'[k] => j = k
  BY <1>1, <1>2
<1>5. Queued' \subseteq Queued \ {Head(queue)}
  BY <1>1, <1>2 DEF Queued
<1>6. ASSUME NEW r \in Queued \ {Head(queue)} PROVE r \in Queued'
  <2>1. PICK k \in 1..Len(queue) : r = queue[k]
    BY <1>6 DEF Queued
  <2>2. k # 1 /\ k - 1 \in 1..Len(queue') /\ queue'[k - 1] = queue[k]
    BY <1>1, <1>2, <1>6, <2>1
  <2> QED BY <2>1, <2>2 DEF Queued
<1> QED BY <1>1, <1>2, <1>3, <1>4, <1>5, <1>6

-----------------------------------------------------------------------------
(* The invariant *)

LEMMA InitInv == Init => IInv
BY ResolverAssumption
   DEF Init, IInv, TypeOK, OneOwner, AnswerHasReader, JoinDrains, ExitedLast,
       FdsNest, NothingLost, OwnersHold, Queued, Owns

\* Every step of the main thread keeps the invariant.
LEMMA MainInv == ASSUME IInv, MainNext PROVE IInv'
<1>1. queue \in Seq(Reqs) /\ Queued \subseteq Reqs /\ callerFd \subseteq Reqs
  BY DEF IInv, TypeOK, Queued
<1>2. ASSUME NEW r \in Reqs, Resolve(r) PROVE IInv'
  <2>1. Queued' = Queued \cup {r}
    BY <1>1, <1>2, QueuedAppend DEF Resolve
  <2>2. r \notin Queued /\ r \notin answers /\ \A i \in Threads : ~Owns(i, r)
    BY <1>2 DEF Resolve, IInv, OneOwner
  <2>3. \A i \in Threads, q \in Reqs : Owns(i, q)' <=> Owns(i, q)
    BY <1>2 DEF Resolve, Owns
  <2>4. TypeOK'
    BY <1>2, ResolverAssumption DEF Resolve, IInv, TypeOK
  <2>5. \A j, k \in 1..Len(queue') : queue'[j] = queue'[k] => j = k
    BY <1>1, <1>2, <2>2 DEF Resolve, IInv, OneOwner, Queued
  <2>6. OneOwner'
    BY <1>1, <1>2, <2>1, <2>2, <2>3, <2>5 DEF Resolve, IInv, OneOwner
  <2>7. AnswerHasReader' /\ JoinDrains' /\ ExitedLast' /\ FdsNest'
    BY <1>2, <2>1, <2>3
       DEF Resolve, IInv, AnswerHasReader, JoinDrains, ExitedLast, FdsNest
  <2>8. NothingLost' /\ OwnersHold'
    BY <1>1, <1>2, <2>1, <2>3 DEF Resolve, IInv, NothingLost, OwnersHold
  <2> QED BY <2>4, <2>6, <2>7, <2>8 DEF IInv
<1>3. ASSUME NEW r \in Reqs, ResolveResult(r) PROVE IInv'
  <2>1. r \notin Queued /\ \A i \in Threads : ~Owns(i, r)
    BY <1>3 DEF ResolveResult, IInv, OneOwner
  <2>2. Queued' = Queued /\ \A i \in Threads, q \in Reqs : Owns(i, q)' <=> Owns(i, q)
    BY <1>3 DEF ResolveResult, Owns, Queued
  <2>3. TypeOK' /\ OneOwner'
    BY <1>3, <2>1, <2>2 DEF ResolveResult, IInv, TypeOK, OneOwner
  <2>4. AnswerHasReader' /\ JoinDrains' /\ ExitedLast' /\ FdsNest'
    BY <1>3, <2>1, <2>2
       DEF ResolveResult, IInv, AnswerHasReader, JoinDrains, ExitedLast, FdsNest
  <2>5. NothingLost' /\ OwnersHold'
    BY <1>1, <1>3, <2>2 DEF ResolveResult, IInv, NothingLost, OwnersHold
  <2> QED BY <2>3, <2>4, <2>5 DEF IInv
<1>4. ASSUME NEW r \in Reqs, TransportDel(r) PROVE IInv'
  <2>1. r \notin Queued /\ \A i \in Threads : ~Owns(i, r)
    BY <1>4 DEF TransportDel, IInv, ExitedLast, JoinDrains, Queued
  <2>2. Queued' = Queued /\ \A i \in Threads, q \in Reqs : Owns(i, q)' <=> Owns(i, q)
    BY <1>4 DEF TransportDel, Owns, Queued
  <2>3. TypeOK' /\ OneOwner'
    BY <1>4, <2>1, <2>2 DEF TransportDel, IInv, TypeOK, OneOwner
  <2>4. AnswerHasReader' /\ JoinDrains' /\ ExitedLast' /\ FdsNest'
    BY <1>4, <2>1, <2>2
       DEF TransportDel, IInv, AnswerHasReader, JoinDrains, ExitedLast, FdsNest
  <2>5. NothingLost' /\ OwnersHold'
    BY <1>1, <1>4, <2>2 DEF TransportDel, IInv, NothingLost, OwnersHold
  <2> QED BY <2>3, <2>4, <2>5 DEF IInv
<1>5. ASSUME CloseWriteFd \/ Joined \/ Exit PROVE IInv'
  <2>1. Queued' = Queued /\ \A i \in Threads, q \in Reqs : Owns(i, q)' <=> Owns(i, q)
    BY <1>5 DEF CloseWriteFd, Joined, Exit, Owns, Queued
  <2>2. TypeOK' /\ OneOwner' /\ AnswerHasReader'
    BY <1>5, <2>1
       DEF CloseWriteFd, Joined, Exit, IInv, TypeOK, OneOwner, AnswerHasReader
  <2>3. ExitedLast'
    BY <1>5 DEF CloseWriteFd, Joined, Exit, IInv, ExitedLast
  <2>4. JoinDrains'
    BY <2>3, ResolverAssumption DEF JoinDrains, ExitedLast, Owns
  <2>5. FdsNest' /\ NothingLost' /\ OwnersHold'
    BY <1>1, <1>5, <2>1
       DEF CloseWriteFd, Joined, Exit, IInv, FdsNest, NothingLost, OwnersHold
  <2> QED BY <2>2, <2>3, <2>4, <2>5 DEF IInv
<1> QED BY <1>2, <1>3, <1>4, <1>5 DEF MainNext

\* Every step of a thread keeps the invariant.
LEMMA ThreadInv == ASSUME IInv, NEW i \in Threads, ThreadNext(i) PROVE IInv'
<1> USE DEF IInv
<1>0. Queued \subseteq Reqs /\ callerFd \subseteq Reqs
  BY DEF Queued, TypeOK
<1>1. CASE Recv(i)
  <2> DEFINE r == Head(queue)
  <2>1. /\ r \in Queued /\ Queued' = Queued \ {r}
        /\ \A j, k \in 1..Len(queue') : queue'[j] = queue'[k] => j = k
        /\ queue' \in Seq(Reqs) /\ Len(queue') < Len(queue)
    BY <1>1, QueuedTail DEF Recv, TypeOK, OneOwner
  <2>2. r \in Reqs
    BY <2>1 DEF Queued, TypeOK
  <2>3. \A j \in Threads, q \in Reqs :
          Owns(j, q)' <=> (IF j = i THEN q = r ELSE Owns(j, q))
    BY <1>1, <2>2 DEF Recv, Owns, TypeOK
  <2>4. TypeOK'
    BY <1>1, <2>1, <2>2, ResolverAssumption DEF Recv, TypeOK
  <2>5. OneOwner'
    BY <1>0, <1>1, <2>1, <2>2, <2>3 DEF Recv, OneOwner
  <2>6. AnswerHasReader' /\ JoinDrains' /\ ExitedLast' /\ FdsNest'
    BY <1>1, <2>1, <2>2, <2>3
       DEF Recv, TypeOK, AnswerHasReader, JoinDrains, ExitedLast, FdsNest
  <2>7. \A q \in Reqs : ~Owns(i, q)
    BY <1>1 DEF Recv, Owns
  <2>8. ASSUME NEW q \in callerFd
        PROVE  (q \in Queued \/ q \in answers \/ \E j \in Threads : Owns(j, q))'
    BY <1>0, <1>1, <2>1, <2>2, <2>3, <2>7 DEF Recv, NothingLost
  <2>9. NothingLost'
    BY <1>1, <2>8 DEF Recv, NothingLost
  <2>10. OwnersHold'
    BY <1>1, <2>2 DEF Recv, TypeOK, OwnersHold
  <2> QED BY <2>4, <2>5, <2>6, <2>9, <2>10
<1>2. CASE RecvEof(i) \/ Getaddrinfo(i) \/ CloseReturnFd(i)
  <2>1. Queued' = Queued /\ \A j \in Threads, q \in Reqs : Owns(j, q)' <=> Owns(j, q)
    BY <1>2 DEF RecvEof, Getaddrinfo, CloseReturnFd, Owns, Queued, TypeOK
  <2>2. TypeOK'
    BY <1>2 DEF RecvEof, Getaddrinfo, CloseReturnFd, TypeOK
  <2>3. OneOwner' /\ AnswerHasReader' /\ JoinDrains' /\ FdsNest' /\ NothingLost'
    BY <1>0, <1>2, <2>1 DEF RecvEof, Getaddrinfo, CloseReturnFd, OneOwner,
                            AnswerHasReader, JoinDrains, FdsNest, NothingLost
  <2>4. ExitedLast'
    BY <1>2 DEF RecvEof, Getaddrinfo, CloseReturnFd, ExitedLast, TypeOK
  <2>5. OwnersHold'
    BY <1>2 DEF RecvEof, Getaddrinfo, CloseReturnFd, OwnersHold, TypeOK
  <2> QED BY <2>2, <2>3, <2>4, <2>5
<1>3. CASE Send(i)
  <2> DEFINE r == res[i]
  <2>1. r \in Reqs /\ Owns(i, r) /\ r \notin Queued
    BY <1>3 DEF Send, Owns, OwnersHold, OneOwner
  <2>2. /\ Queued' = Queued
        /\ \A j \in Threads, q \in Reqs : Owns(j, q)' <=> Owns(j, q) /\ j # i
    BY <1>3 DEF Send, Owns, Queued, TypeOK
  <2>3. TypeOK'
    BY <1>3, <2>1 DEF Send, TypeOK
  <2>4. OneOwner'
    BY <1>0, <1>3, <2>1, <2>2 DEF Send, OneOwner, FdsNest
  <2>5. AnswerHasReader' /\ JoinDrains' /\ ExitedLast' /\ FdsNest'
    BY <1>3, <2>1, <2>2
       DEF Send, TypeOK, AnswerHasReader, JoinDrains, ExitedLast, FdsNest
  <2>6. NothingLost' /\ OwnersHold'
    BY <1>3, <2>1, <2>2 DEF Send, TypeOK, Owns, NothingLost, OwnersHold
  <2> QED BY <2>3, <2>4, <2>5, <2>6
<1> QED BY <1>1, <1>2, <1>3 DEF ThreadNext

LEMMA NextInv == IInv /\ [Next]_vars => IInv'
<1> SUFFICES ASSUME IInv, [Next]_vars PROVE IInv'
  OBVIOUS
<1>1. CASE UNCHANGED vars
  BY <1>1 DEF vars, IInv, TypeOK, OneOwner, AnswerHasReader, JoinDrains,
              ExitedLast, FdsNest, NothingLost, OwnersHold, Queued, Owns
<1> QED BY <1>1, MainInv, ThreadInv DEF Next, Terminated

THEOREM InductiveInvariant == Spec => []IInv
BY InitInv, NextInv, PTL DEF Spec

-----------------------------------------------------------------------------
(* What follows from the invariant *)

\* The struct asyncaddrinfo_resolution has one owner at a time, with any
\* number of threads: no two of them, nor one and the main thread, touch it
\* at once.
THEOREM Ownership == Spec => []OneOwner
BY InductiveInvariant, PTL DEF IInv

\* The types of the resolver's state, and its bound on the request socket.
THEOREM TypeCorrect == Spec => []TypeOK
BY InductiveInvariant, PTL DEF IInv

\* The assertion in asyncaddrinfo_main() that send() succeeds never fails,
\* also not while the program shuts down.
THEOREM AnswersFindReader == Spec => []AnswerHasReader
BY InductiveInvariant, PTL DEF IInv

\* Once asyncaddrinfo_cleanup() has joined its threads nothing is in flight.
THEOREM JoinIsComplete == Spec => []JoinDrains
BY InductiveInvariant, PTL DEF IInv

-----------------------------------------------------------------------------
(* Refinement: each step of the pool is a step of AsyncCall or none. *)

LEMMA InitRefines == Init => Call!Init
BY DEF Init, Call!Init, statusBar

LEMMA StepRefines ==
  ASSUME IInv, [Next]_vars
  PROVE  [Call!Next]_(Call!vars)
<1> USE DEF Call!vars
<1>1. ASSUME NEW r \in Reqs, Resolve(r) PROVE Call!Ask(r)
  <2>1. statusBar[r] = "idle"
    BY <1>1 DEF Resolve, IInv, FdsNest, statusBar
  <2>2. statusBar' = [statusBar EXCEPT ![r] = "pending"]
    BY <1>1 DEF Resolve, IInv, FdsNest, statusBar
  <2> QED BY <1>1, <2>1, <2>2 DEF Resolve, Call!Ask
<1>2. ASSUME NEW r \in Reqs, ResolveResult(r) PROVE Call!Collect(r)
  <2>1. statusBar[r] = "answered"
    BY <1>2 DEF ResolveResult, statusBar
  <2>2. statusBar' = [statusBar EXCEPT ![r] = "idle"]
    BY <1>2 DEF ResolveResult, statusBar
  <2> QED BY <1>2, <2>1, <2>2 DEF ResolveResult, Call!Collect
<1>3. ASSUME NEW r \in Reqs, TransportDel(r) PROVE Call!Abandon(r)
  <2>1. callerFd \subseteq answers
    BY <1>3 DEF TransportDel, IInv, TypeOK, JoinDrains, NothingLost, Queued
  <2>2. statusBar[r] = "answered" /\ \A q \in Reqs : statusBar[q] # "pending"
    BY <1>3, <2>1 DEF TransportDel, statusBar
  <2>3. statusBar' = [statusBar EXCEPT ![r] = "abandoned"]
    BY <1>3 DEF TransportDel, IInv, FdsNest, statusBar
  <2> QED BY <1>3, <2>2, <2>3 DEF TransportDel, Call!Abandon
<1>4. ASSUME CloseWriteFd PROVE Call!Close
  BY <1>4 DEF CloseWriteFd, Call!Close, statusBar
<1>5. ASSUME NEW i \in Threads, Send(i) PROVE Call!Answer(res[i])
  <2>1. res[i] \in Reqs /\ res[i] \notin answers
    BY <1>5 DEF Send, IInv, OwnersHold, OneOwner, Owns
  <2>2. statusBar[res[i]] = "pending"
    BY <1>5, <2>1 DEF Send, statusBar
  <2>3. statusBar' = [statusBar EXCEPT ![res[i]] = "answered"]
    BY <1>5, <2>1 DEF Send, statusBar
  <2> QED BY <1>5, <2>2, <2>3 DEF Send, Call!Answer
<1>6. ASSUME \/ Joined \/ Exit \/ UNCHANGED vars
             \/ \E i \in Threads : \/ Recv(i) \/ RecvEof(i)
                                   \/ Getaddrinfo(i) \/ CloseReturnFd(i)
      PROVE  UNCHANGED Call!vars
  BY <1>6 DEF Joined, Exit, vars, Recv, RecvEof, Getaddrinfo, CloseReturnFd, statusBar
<1>7. ASSUME NEW i \in Threads, Send(i) PROVE res[i] \in Reqs
  BY <1>7 DEF Send, IInv, OwnersHold
<1> QED
  BY <1>1, <1>2, <1>3, <1>4, <1>5, <1>6, <1>7
     DEF Next, MainNext, ThreadNext, Terminated, Call!Next

\* The pool of threads implements AsyncCall: however its steps interleave, a
\* caller sees each request answered once, collected once, and never dropped
\* while it is pending.
THEOREM Refinement == Spec => RefinesAsyncCall
BY InitRefines, StepRefines, InductiveInvariant, PTL DEF Spec, RefinesAsyncCall, Call!Spec

=============================================================================
