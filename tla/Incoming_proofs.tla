-------------------------- MODULE Incoming_proofs ---------------------------
(***************************************************************************)
(* For any number of descriptors, clients and late resolver threads: the   *)
(* handler of a listener is called for its own open descriptor, nothing is *)
(* leaked, and a clean-up that aborts has met a pending retry.             *)
(***************************************************************************)
EXTENDS Incoming, FiniteSetTheorems, WellFoundedInduction, TLAPS

-----------------------------------------------------------------------------
(* The inductive invariant *)

\* What the loop has open, and that it is polled.
Uses ==
  /\ FdsOn("answer") = IF handler = "listen" THEN {peerFd} ELSE {}
  /\ FdsOn("listener") = IF handler = "accept" THEN {peerFd} ELSE {}
  /\ FdsOn("timer") = IF handler = "retry" THEN {wakeFd} ELSE {}
  /\ \/ handler = "listen" /\ ~answered /\ \E f \in Fds : FdsOn("return") = {f}
     \/ ~(handler = "listen" /\ ~answered) /\ FdsOn("return") = {}
  /\ handler # "retry" => peerFd \in polled /\ wakeFd = -1
  /\ handler = "retry" => wakeFd \in polled
  /\ FdsOn("client") \subseteq polled

\* The kernel always has a descriptor to give out.
Bounded ==
  /\ Cardinality(FdsOn("client")) <= MaxClients
  /\ Cardinality(FdsOn("returned")) <= MaxReturned

\* What a clean-up finds unless a retry waits.
Closable ==
  handler # "retry" =>
    /\ state = "cleanup_transport" =>
         peerFd \in polled /\ table[peerFd] \in {"answer", "listener"} /\ wakeFd = -1
    /\ state = "cleanup_wakeup" => wakeFd = -1
    /\ state # "aborted"

IInv == TypeOK /\ (state = "run" => Uses /\ Bounded) /\ Closable

-----------------------------------------------------------------------------
(* Descriptors *)

\* A set of descriptors that is not empty has a lowest one.
LEMMA HasLowest ==
  ASSUME NEW T \in SUBSET Nat, T # {}, IsFiniteSet(T)
  PROVE  \E f \in T : \A g \in T : f <= g
<1> DEFINE R == StrictSubsetOrdering(Nat)
           S == FiniteSubsetsOf(Nat)
           U == {0..f : f \in T}
<1>1. IsWellFoundedOn(R, S)
  BY FS_StrictSubsetOrderingWellFounded
<1>2. U \subseteq S /\ U # {}
  <2>1. \A f \in T : IsFiniteSet(0..f) /\ 0..f \subseteq Nat
    BY FS_Interval
  <2> QED BY <2>1 DEF FiniteSubsetsOf
<1>3. PICK x \in U : \A y \in U : ~(<<y, x>> \in R)
  <2> HIDE DEF R, S, U
  <2> QED BY <1>1, <1>2, WFMin
<1>4. PICK f \in T : x = 0..f
  BY <1>3
<1>5. ASSUME NEW g \in T, g < f PROVE FALSE
  <2>1. 0..g \subseteq Nat /\ x \subseteq Nat /\ 0..g \subseteq x
    BY <1>4, <1>5
  <2>2. f \in x /\ f \notin 0..g
    BY <1>4, <1>5
  <2>3. <<0..g, x>> \in R
    BY <2>1, <2>2 DEF StrictSubsetOrdering
  <2> QED BY <1>3, <2>3
<1> QED BY <1>5

LEMMA FdsFinite == IsFiniteSet(Fds) /\ Cardinality(Fds) = MaxFd + 1 /\ Fds \subseteq Nat
BY IncomingAssumption, FS_Interval DEF Fds

\* The kernel gives out a descriptor that is not open, if there is one.
LEMMA LowestFree ==
  ASSUME NEW tab, FreeFds(tab) # {}
  PROVE  Lowest(tab) \in Fds /\ tab[Lowest(tab)] = "free"
<1>1. FreeFds(tab) \in SUBSET Nat /\ IsFiniteSet(FreeFds(tab))
  BY FdsFinite, FS_Subset DEF FreeFds
<1>2. \E f \in FreeFds(tab) : \A g \in FreeFds(tab) : f <= g
  BY <1>1, HasLowest
<1>3. Lowest(tab) \in FreeFds(tab)
  BY <1>2 DEF Lowest
<1> QED BY <1>3 DEF FreeFds

\* One more element makes a set larger by one at most.
LEMMA OneMore ==
  ASSUME NEW S, IsFiniteSet(S), NEW x, NEW n \in Nat, Cardinality(S) <= n
  PROVE  IsFiniteSet(S \cup {x}) /\ Cardinality(S \cup {x}) <= n + 1
<1>1. Cardinality(S) \in Nat
  BY FS_CardinalityType
<1> QED BY <1>1, FS_AddElement

\* While nothing resolves, two descriptors are free: x and another one.
LEMMA Room ==
  ASSUME TypeOK, Uses, Bounded, handler # "listen", NEW x
  PROVE  \E f \in FreeFds(table) : f # x
<1> DEFINE C == FdsOn("client")
           R == FdsOn("returned")
           y == IF handler = "accept" THEN peerFd ELSE wakeFd
<1>1. IsFiniteSet(C) /\ IsFiniteSet(R)
  BY FdsFinite, FS_Subset DEF FdsOn
<1>2. SUFFICES ASSUME FreeFds(table) \subseteq {x} PROVE FALSE
  OBVIOUS
<1>3. Fds \subseteq C \cup R \cup {y} \cup {x}
  <2> SUFFICES ASSUME NEW f \in Fds, f # x PROVE f \in C \cup R \cup {y}
    OBVIOUS
  <2>1. table[f] \in Objects /\ table[f] # "free"
    BY <1>2 DEF TypeOK, FreeFds
  <2>2. f \notin FdsOn("answer") /\ f \notin FdsOn("return")
    BY DEF Uses
  <2>3. f \in FdsOn("listener") \/ f \in FdsOn("timer") => f = y
    BY DEF Uses, TypeOK
  <2> QED BY <2>1, <2>2, <2>3 DEF Objects, FdsOn
<1>4. IsFiniteSet(C \cup R) /\ Cardinality(C \cup R) <= MaxClients + MaxReturned
  <2>1. /\ IsFiniteSet(C \cup R)
        /\ Cardinality(C \cup R) = Cardinality(C) + Cardinality(R) - Cardinality(C \cap R)
    BY <1>1, FS_Union
  <2>2. Cardinality(C) \in Nat /\ Cardinality(R) \in Nat /\ Cardinality(C \cap R) \in Nat
    BY <1>1, FS_CardinalityType, FS_Intersection
  <2> QED BY <2>1, <2>2, IncomingAssumption DEF Bounded
<1>5. /\ IsFiniteSet(C \cup R \cup {y} \cup {x})
      /\ Cardinality(C \cup R \cup {y} \cup {x}) <= MaxClients + MaxReturned + 2
  <2> HIDE DEF C, R, y
  <2>1. MaxClients + MaxReturned \in Nat /\ MaxClients + MaxReturned + 1 \in Nat
    BY IncomingAssumption
  <2>2. /\ IsFiniteSet(C \cup R \cup {y})
        /\ Cardinality(C \cup R \cup {y}) <= MaxClients + MaxReturned + 1
    BY <1>4, <2>1, OneMore
  <2>3. /\ IsFiniteSet(C \cup R \cup {y} \cup {x})
        /\ Cardinality(C \cup R \cup {y} \cup {x}) <= (MaxClients + MaxReturned + 1) + 1
    BY <2>1, <2>2, OneMore
  <2>4. (MaxClients + MaxReturned + 1) + 1 = MaxClients + MaxReturned + 2
    BY IncomingAssumption
  <2> QED BY <2>3, <2>4
<1>6. MaxFd + 1 <= MaxClients + MaxReturned + 2
  <2> HIDE DEF C, R, y
  <2>1. Cardinality(Fds) <= Cardinality(C \cup R \cup {y} \cup {x})
    BY <1>3, <1>5, FS_Subset
  <2>2. Cardinality(C \cup R \cup {y} \cup {x}) \in Nat
    BY <1>5, FS_CardinalityType
  <2> QED BY <1>5, <2>1, <2>2, FdsFinite, IncomingAssumption
<1> QED BY <1>6, IncomingAssumption

\* A set of descriptors that loses one, or changes in none, stays within its bound.
LEMMA Shrinks ==
  ASSUME NEW T, NEW S, T \subseteq S, S \subseteq Fds, NEW n \in Nat, Cardinality(S) <= n
  PROVE  Cardinality(T) <= n
<1>1. IsFiniteSet(S) /\ Cardinality(S) \in Nat
  BY FdsFinite, FS_Subset, FS_CardinalityType
<1>2. IsFiniteSet(T) /\ Cardinality(T) <= Cardinality(S) /\ Cardinality(T) \in Nat
  BY <1>1, FS_Subset, FS_CardinalityType
<1> QED BY <1>1, <1>2

\* One more fits while the bound is not reached.
LEMMA Grows ==
  ASSUME NEW S, S \subseteq Fds, NEW x, NEW n \in Nat, Cardinality(S) < n
  PROVE  Cardinality(S \cup {x}) <= n
<1>1. IsFiniteSet(S) /\ Cardinality(S) \in Nat
  BY FdsFinite, FS_Subset, FS_CardinalityType
<1> QED BY <1>1, FS_AddElement

-----------------------------------------------------------------------------
(* Steps *)

LEMMA InitInv == Init => IInv
<1> SUFFICES ASSUME Init PROVE IInv
  OBVIOUS
<1>1. 0 \in Fds /\ 1 \in Fds
  BY IncomingAssumption DEF Fds
<1>2. TypeOK /\ Closable
  BY <1>1 DEF Init, TypeOK, Closable, Objects
<1>3. Uses
  BY <1>1 DEF Init, Uses, FdsOn
<1>4. FdsOn("client") = {} /\ FdsOn("returned") = {}
  BY DEF Init, FdsOn
<1>5. Bounded
  BY <1>4, FS_EmptySet, IncomingAssumption DEF Bounded
<1> QED BY <1>2, <1>3, <1>5 DEF IInv

\* A resolver thread answers or closes its end.
LEMMA ResolverInv ==
  ASSUME IInv, ResolverAnswers \/ ResolverCloses
  PROVE  IInv'
<1>1. ASSUME ResolverAnswers PROVE IInv'
  <2>1. PICK f \in FdsOn("return") : table' = [table EXCEPT ![f] = "returned"]
    BY <1>1 DEF ResolverAnswers
  <2>2. f \in Fds /\ table[f] = "return"
    BY <2>1 DEF FdsOn
  <2>3. /\ table' \in [Fds -> Objects]
        /\ \A g \in Fds : (table')[g] = IF g = f THEN "returned" ELSE table[g]
    BY <2>1, <2>2 DEF IInv, TypeOK, Objects
  <2>4. /\ FdsOn("returned")' = FdsOn("returned") \cup {f}
        /\ FdsOn("return")' = FdsOn("return") \ {f}
        /\ UNCHANGED <<FdsOn("answer"), FdsOn("listener"), FdsOn("timer"), FdsOn("client")>>
    BY <2>2, <2>3 DEF FdsOn
  <2>5. TypeOK' /\ Closable'
    BY <1>1, <2>2, <2>3 DEF ResolverAnswers, IInv, TypeOK, Closable
  <2>6. ASSUME state = "run" PROVE Uses'
    BY <1>1, <2>1, <2>4, <2>6 DEF ResolverAnswers, IInv, Uses
  <2>7. ASSUME state = "run" PROVE Bounded'
    <3>1. Cardinality(FdsOn("returned") \cup {f}) <= MaxReturned
      BY <1>1, Grows, IncomingAssumption DEF ResolverAnswers, FdsOn
    <3> QED BY <2>4, <2>7, <3>1 DEF IInv, Bounded
  <2> QED BY <1>1, <2>5, <2>6, <2>7 DEF IInv, ResolverAnswers
<1>2. ASSUME ResolverCloses PROVE IInv'
  <2>1. PICK f \in FdsOn("returned") : table' = [table EXCEPT ![f] = "free"]
    BY <1>2 DEF ResolverCloses, Closed
  <2>2. f \in Fds /\ table[f] = "returned"
    BY <2>1 DEF FdsOn
  <2>3. /\ table' \in [Fds -> Objects]
        /\ \A g \in Fds : (table')[g] = IF g = f THEN "free" ELSE table[g]
    BY <2>1, <2>2 DEF IInv, TypeOK, Objects
  <2>4. /\ FdsOn("returned")' \subseteq FdsOn("returned")
        /\ UNCHANGED <<FdsOn("return"), FdsOn("answer"), FdsOn("listener"), FdsOn("timer"), FdsOn("client")>>
    BY <2>2, <2>3 DEF FdsOn
  <2>5. TypeOK' /\ Closable'
    BY <1>2, <2>2, <2>3 DEF ResolverCloses, IInv, TypeOK, Closable
  <2>6. ASSUME state = "run" PROVE Uses'
    BY <1>2, <2>4, <2>6 DEF ResolverCloses, IInv, Uses
  <2>7. ASSUME state = "run" PROVE Bounded'
    <3>1. Cardinality(FdsOn("returned")') <= MaxReturned
      BY <2>4, <2>7, Shrinks, IncomingAssumption DEF IInv, Bounded, FdsOn
    <3> QED BY <2>4, <2>7, <3>1 DEF IInv, Bounded
  <2> QED BY <1>2, <2>5, <2>6, <2>7 DEF IInv, ResolverCloses
<1> QED BY <1>1, <1>2

\* incoming_retry() with the table and the epoll set of the moment.
LEMMA RetryEffect ==
  ASSUME NEW tab \in [Fds -> Objects], NEW pol, IncomingRetry(tab, pol),
         NEW f, f = Lowest(tab), FreeFds(tab) # {}
  PROVE  /\ handler' = "retry" /\ wakeFd' = f /\ f \in Fds /\ tab[f] = "free"
         /\ polled' = pol \cup {f}
         /\ table' \in [Fds -> Objects]
         /\ \A g \in Fds : (table')[g] = IF g = f THEN "timer" ELSE tab[g]
BY LowestFree DEF IncomingRetry, Opened, Objects

\* incoming_listen() closes the answer socket and opens one descriptor, while
\* resolver threads close some of theirs.
LEMMA IncomingListenInv ==
  ASSUME IInv, IncomingListen
  PROVE  IInv'
<1>1. /\ state = "run" /\ state' = "run" /\ handler = "listen" /\ answered /\ answered' = answered
      /\ Uses /\ Bounded /\ TypeOK
  BY DEF IncomingListen, IInv
<1>2. peerFd \in Fds /\ table[peerFd] = "answer" /\ wakeFd = -1 /\ peerFd \in polled
  BY <1>1 DEF Uses, FdsOn
<1> DEFINE pol == polled \ {peerFd}
           Left(F) == ClosedAll(table, {peerFd} \cup F)
<1>3. ASSUME NEW F \in SUBSET FdsOn("returned")
      PROVE  /\ Left(F) \in [Fds -> Objects]
             /\ \A g \in Fds : Left(F)[g] = IF g = peerFd \/ g \in F THEN "free" ELSE table[g]
             /\ FreeFds(Left(F)) # {} /\ Lowest(Left(F)) \in Fds
             /\ Left(F)[Lowest(Left(F))] = "free"
  <2>1. /\ Left(F) \in [Fds -> Objects]
        /\ \A g \in Fds : Left(F)[g] = IF g = peerFd \/ g \in F THEN "free" ELSE table[g]
    BY <1>1 DEF ClosedAll, TypeOK, Objects
  <2> HIDE DEF Left
  <2>2. peerFd \in FreeFds(Left(F))
    BY <1>2, <2>1 DEF FreeFds
  <2> QED BY <2>1, <2>2, LowestFree
<1>4. pol \subseteq Fds
  BY <1>1 DEF TypeOK
<1>5. \E F \in SUBSET FdsOn("returned") : \E f \in Fds : \E object \in {"timer", "listener"} :
        /\ Left(F)[f] = "free"
        /\ polled' = pol \cup {f} /\ table' \in [Fds -> Objects]
        /\ \A g \in Fds : (table')[g] = IF g = f THEN object ELSE Left(F)[g]
        /\ \/ /\ object = "timer" /\ handler' = "retry" /\ wakeFd' = f
              /\ peerFd' \in Fds \cup {-1}
           \/ object = "listener" /\ handler' = "accept" /\ peerFd' = f /\ wakeFd' = wakeFd
  <2>1. PICK late \in SUBSET FdsOn("returned") : \E early \in SUBSET late :
          \/ /\ peerFd' \in {-1, Lowest(Left(early))}
             /\ IncomingRetry(Left(late), pol)
          \/ /\ peerFd' = Lowest(Left(early))
             /\ table' = Opened(Left(early), "listener")
             /\ polled' = pol \cup {Lowest(Left(early))}
             /\ handler' = "accept" /\ UNCHANGED wakeFd
    BY DEF IncomingListen
  <2> HIDE DEF Left, pol
  <2>2. PICK early \in SUBSET late :
          \/ /\ peerFd' \in {-1, Lowest(Left(early))}
             /\ IncomingRetry(Left(late), pol)
          \/ /\ peerFd' = Lowest(Left(early))
             /\ table' = Opened(Left(early), "listener")
             /\ polled' = pol \cup {Lowest(Left(early))}
             /\ handler' = "accept" /\ UNCHANGED wakeFd
    BY <2>1
  <2>3. early \in SUBSET FdsOn("returned")
    BY <2>1, <2>2
  <2>4. Lowest(Left(early)) \in Fds
    BY <1>3, <2>3
  <2>5. CASE peerFd' \in {-1, Lowest(Left(early))} /\ IncomingRetry(Left(late), pol)
    <3> DEFINE f == Lowest(Left(late))
    <3>1. Left(late) \in [Fds -> Objects] /\ FreeFds(Left(late)) # {}
      BY <1>3
    <3>2. /\ handler' = "retry" /\ wakeFd' = f /\ f \in Fds /\ Left(late)[f] = "free"
          /\ polled' = pol \cup {f} /\ table' \in [Fds -> Objects]
          /\ \A g \in Fds : (table')[g] = IF g = f THEN "timer" ELSE Left(late)[g]
      BY <2>5, <3>1, RetryEffect
    <3> HIDE DEF f
    <3> QED BY <2>4, <2>5, <3>2
  <2>6. CASE /\ peerFd' = Lowest(Left(early))
             /\ table' = Opened(Left(early), "listener")
             /\ polled' = pol \cup {Lowest(Left(early))}
             /\ handler' = "accept" /\ UNCHANGED wakeFd
    <3> DEFINE f == Lowest(Left(early))
    <3>1. Left(early) \in [Fds -> Objects] /\ f \in Fds /\ Left(early)[f] = "free"
      BY <1>3, <2>3
    <3>2. table' = [Left(early) EXCEPT ![f] = "listener"]
      BY <2>6 DEF Opened
    <3> HIDE DEF f
    <3>3. /\ table' \in [Fds -> Objects]
          /\ \A g \in Fds : (table')[g] = IF g = f THEN "listener" ELSE Left(early)[g]
      BY <3>1, <3>2 DEF Objects
    <3>4. peerFd' = f /\ polled' = pol \cup {f}
      BY <2>6 DEF f
    <3> QED BY <2>3, <2>6, <3>1, <3>3, <3>4
  <2> QED BY <2>2, <2>5, <2>6
<1>6. PICK F \in SUBSET FdsOn("returned"), f \in Fds, object \in {"timer", "listener"} :
        /\ Left(F)[f] = "free"
        /\ polled' = pol \cup {f} /\ table' \in [Fds -> Objects]
        /\ \A g \in Fds : (table')[g] = IF g = f THEN object ELSE Left(F)[g]
        /\ \/ /\ object = "timer" /\ handler' = "retry" /\ wakeFd' = f
              /\ peerFd' \in Fds \cup {-1}
           \/ object = "listener" /\ handler' = "accept" /\ peerFd' = f /\ wakeFd' = wakeFd
  BY <1>5
<1>7. \A g \in Fds : Left(F)[g] = IF g = peerFd \/ g \in F THEN "free" ELSE table[g]
  BY <1>3
<1> HIDE DEF Left, pol
<1>8. /\ FdsOn("answer")' = {} /\ FdsOn("return")' = {}
      /\ FdsOn("client")' = FdsOn("client") /\ FdsOn("returned")' \subseteq FdsOn("returned")
      /\ FdsOn("timer")' = IF handler' = "retry" THEN {wakeFd'} ELSE {}
      /\ FdsOn("listener")' = IF handler' = "accept" THEN {peerFd'} ELSE {}
  <2>1. /\ \A g \in Fds : table[g] = "answer" <=> g = peerFd
        /\ \A g \in Fds : table[g] \notin {"return", "timer", "listener"}
        /\ \A g \in F : table[g] = "returned"
    BY <1>1 DEF Uses, FdsOn
  <2>2. /\ \A g \in Fds : Left(F)[g] \notin {"answer", "return", "timer", "listener"}
        /\ \A g \in Fds : Left(F)[g] = "client" <=> table[g] = "client"
        /\ \A g \in Fds : Left(F)[g] = "returned" => table[g] = "returned"
    BY <1>2, <1>7, <2>1
  <2> QED BY <1>6, <2>2 DEF FdsOn
<1>9. TypeOK'
  BY <1>1, <1>2, <1>4, <1>6 DEF TypeOK
<1>10. Uses'
  <2>1. FdsOn("client") \subseteq pol
    BY <1>1, <1>2 DEF Uses, FdsOn, pol
  <2> QED BY <1>1, <1>2, <1>6, <1>8, <2>1 DEF Uses
<1>11. Bounded'
  <2>1. Cardinality(FdsOn("returned")') <= MaxReturned
    BY <1>1, <1>8, Shrinks, IncomingAssumption DEF Bounded, FdsOn
  <2> QED BY <1>1, <1>8, <2>1 DEF Bounded
<1>12. Closable'
  BY <1>1 DEF Closable
<1> QED BY <1>9, <1>10, <1>11, <1>12 DEF IInv

\* wakeup_handler() opens a socket pair before it closes the timer.
LEMMA IncomingRetriedInv ==
  ASSUME IInv, IncomingRetried
  PROVE  IInv'
<1> DEFINE a == Lowest(table)
           one == Opened(table, "answer")
           b == Lowest(one)
<1>1. /\ state = "run" /\ state' = "run" /\ handler = "retry" /\ handler' = "listen"
      /\ answered' = FALSE /\ wakeFd' = -1 /\ Uses /\ Bounded /\ TypeOK
  BY DEF IncomingRetried, IInv
<1>2. wakeFd \in Fds /\ table[wakeFd] = "timer" /\ wakeFd \in polled
  BY <1>1 DEF Uses, FdsOn
<1>3. a \in Fds /\ table[a] = "free"
  BY <1>1, Room, LowestFree
<1>4. /\ one \in [Fds -> Objects]
      /\ \A g \in Fds : one[g] = IF g = a THEN "answer" ELSE table[g]
  BY <1>1, <1>3 DEF Opened, TypeOK, Objects
<1>5. b \in Fds /\ one[b] = "free"
  <2>1. PICK f \in FreeFds(table) : f # a
    BY <1>1, Room
  <2>2. f \in FreeFds(one)
    BY <1>4, <2>1 DEF FreeFds
  <2> QED BY <2>2, LowestFree
<1>6. a # b /\ a # wakeFd /\ b # wakeFd
  BY <1>2, <1>3, <1>4, <1>5
<1>7. /\ table' \in [Fds -> Objects]
      /\ \A g \in Fds : (table')[g] = IF g = wakeFd THEN "free"
                                       ELSE IF g = b THEN "return" ELSE one[g]
      /\ peerFd' = a /\ polled' = (polled \cup {a}) \ {wakeFd}
  <2>1. table' = Closed(Opened(one, "return"), wakeFd)
    BY DEF IncomingRetried
  <2> HIDE DEF one, a
  <2>2. table' = [[one EXCEPT ![b] = "return"] EXCEPT ![wakeFd] = "free"]
    BY <2>1 DEF Closed, Opened, b
  <2>3. peerFd' = a /\ polled' = (polled \cup {a}) \ {wakeFd}
    BY DEF IncomingRetried, a
  <2> HIDE DEF b
  <2> QED BY <1>2, <1>4, <1>5, <2>2, <2>3 DEF Objects
<1> HIDE DEF a, one, b
<1>8. /\ \A g \in Fds : table[g] = "timer" <=> g = wakeFd
      /\ \A g \in Fds : table[g] \notin {"answer", "return", "listener"}
  BY <1>1 DEF Uses, FdsOn
<1>9. /\ FdsOn("answer")' = {a} /\ FdsOn("return")' = {b}
      /\ FdsOn("timer")' = {} /\ FdsOn("listener")' = {}
      /\ FdsOn("client")' = FdsOn("client") /\ FdsOn("returned")' = FdsOn("returned")
  BY <1>2, <1>3, <1>4, <1>5, <1>6, <1>7, <1>8 DEF FdsOn
<1>10. TypeOK'
  BY <1>1, <1>3, <1>7 DEF TypeOK
<1>11. Uses'
  <2>1. wakeFd \notin FdsOn("client")
    BY <1>2 DEF FdsOn
  <2> QED BY <1>1, <1>5, <1>6, <1>7, <1>9, <2>1 DEF Uses
<1>12. Bounded' /\ Closable'
  BY <1>1, <1>9 DEF Bounded, Closable
<1> QED BY <1>10, <1>11, <1>12 DEF IInv

\* A client comes or goes.
LEMMA ClientInv ==
  ASSUME IInv, IncomingHandler \/ ClientDel
  PROVE  IInv'
<1>1. ASSUME IncomingHandler, table' = Opened(table, "client"), polled' = polled \cup {Lowest(table)}
      PROVE  IInv'
  <2> DEFINE f == Lowest(table)
  <2>1. /\ state = "run" /\ handler = "accept" /\ Uses /\ Bounded /\ TypeOK
        /\ Cardinality(FdsOn("client")) < MaxClients
        /\ UNCHANGED <<state, handler, peerFd, wakeFd, answered>>
    BY <1>1 DEF IncomingHandler, IInv
  <2>2. f \in Fds /\ table[f] = "free"
    BY <2>1, Room, LowestFree
  <2>3. table' = [table EXCEPT ![f] = "client"] /\ polled' = polled \cup {f}
    BY <1>1 DEF Opened
  <2> HIDE DEF f
  <2>4. /\ table' \in [Fds -> Objects]
        /\ \A g \in Fds : (table')[g] = IF g = f THEN "client" ELSE table[g]
    BY <2>1, <2>2, <2>3 DEF TypeOK, Objects
  <2>5. /\ FdsOn("client")' = FdsOn("client") \cup {f}
        /\ UNCHANGED <<FdsOn("returned"), FdsOn("return"), FdsOn("answer"), FdsOn("listener"), FdsOn("timer")>>
    BY <2>2, <2>4 DEF FdsOn
  <2>6. Uses'
    BY <2>1, <2>3, <2>5 DEF Uses
  <2>7. Bounded'
    <3>1. Cardinality(FdsOn("client") \cup {f}) <= MaxClients
      BY <2>1, Grows, IncomingAssumption DEF FdsOn
    <3> QED BY <2>1, <2>5, <3>1 DEF Bounded
  <2>8. TypeOK' /\ Closable'
    BY <2>1, <2>2, <2>3, <2>4 DEF TypeOK, Closable
  <2> QED BY <2>6, <2>7, <2>8 DEF IInv
<1>2. ASSUME IncomingHandler, UNCHANGED <<table, polled>> PROVE IInv'
  BY <1>2 DEF IncomingHandler, IInv, TypeOK, Uses, Bounded, Closable, FdsOn
<1>3. ASSUME ClientDel PROVE IInv'
  <2>1. /\ state = "run" /\ Uses /\ Bounded /\ TypeOK
        /\ UNCHANGED <<state, handler, peerFd, wakeFd, answered>>
    BY <1>3 DEF ClientDel, IInv
  <2>2. PICK f \in FdsOn("client") : table' = [table EXCEPT ![f] = "free"] /\ polled' = polled \ {f}
    BY <1>3 DEF ClientDel, Closed
  <2>3. f \in Fds /\ table[f] = "client"
    BY <2>2 DEF FdsOn
  <2>4. /\ table' \in [Fds -> Objects]
        /\ \A g \in Fds : (table')[g] = IF g = f THEN "free" ELSE table[g]
    BY <2>1, <2>2, <2>3 DEF TypeOK, Objects
  <2>5. /\ FdsOn("client")' = FdsOn("client") \ {f}
        /\ UNCHANGED <<FdsOn("returned"), FdsOn("return"), FdsOn("answer"), FdsOn("listener"), FdsOn("timer")>>
    BY <2>3, <2>4 DEF FdsOn
  <2>6. f \notin FdsOn("answer") \cup FdsOn("listener") \cup FdsOn("timer")
    BY <2>3 DEF FdsOn
  <2>7. Uses'
    BY <2>1, <2>2, <2>5, <2>6 DEF Uses, TypeOK
  <2>8. Bounded'
    <3>1. Cardinality(FdsOn("client") \ {f}) <= MaxClients
      BY <2>1, Shrinks, IncomingAssumption DEF Bounded, FdsOn
    <3> QED BY <2>1, <2>5, <3>1 DEF Bounded
  <2>9. TypeOK' /\ Closable'
    BY <2>1, <2>2, <2>4 DEF TypeOK, Closable
  <2> QED BY <2>7, <2>8, <2>9 DEF IInv
<1> QED BY <1>1, <1>2, <1>3 DEF IncomingHandler

\* The clean-up.
LEMMA CleanupInv ==
  ASSUME IInv, Shutdown \/ IncomingDel \/ WakeupDel
  PROVE  IInv'
<1>1. ASSUME Shutdown PROVE IInv'
  <2>1. /\ state = "run" /\ state' = "cleanup_transport" /\ Uses /\ TypeOK
        /\ UNCHANGED <<handler, peerFd, wakeFd, answered>>
        /\ table' = [f \in Fds |-> IF table[f] = "client" THEN "free" ELSE table[f]]
        /\ polled' = polled \ FdsOn("client")
    BY <1>1 DEF Shutdown, IInv
  <2>2. TypeOK'
    BY <2>1 DEF TypeOK, Objects
  <2>3. ASSUME handler # "retry"
        PROVE  peerFd \in Fds /\ peerFd \in polled /\ table[peerFd] \in {"answer", "listener"} /\ wakeFd = -1
    BY <2>1, <2>3 DEF Uses, FdsOn, TypeOK
  <2>4. Closable'
    BY <2>1, <2>3 DEF Closable, FdsOn
  <2> QED BY <2>1, <2>2, <2>4 DEF IInv
<1>2. ASSUME IncomingDel PROVE IInv'
  <2>1. TypeOK' /\ state' # "run"
    BY <1>2 DEF IncomingDel, PeerClose, Closed, IInv, TypeOK, Objects
  <2>2. Closable'
    BY <1>2 DEF IncomingDel, PeerClose, IInv, Closable
  <2> QED BY <2>1, <2>2 DEF IInv
<1>3. ASSUME WakeupDel PROVE IInv'
  <2>1. TypeOK' /\ state' # "run"
    BY <1>3 DEF WakeupDel, PeerClose, Closed, IInv, TypeOK, Objects
  <2>2. Closable'
    BY <1>3 DEF WakeupDel, PeerClose, IInv, Closable
  <2> QED BY <2>1, <2>2 DEF IInv
<1> QED BY <1>1, <1>2, <1>3

LEMMA NextInv == IInv /\ [Next]_vars => IInv'
<1> SUFFICES ASSUME IInv, [Next]_vars PROVE IInv'
  OBVIOUS
<1>1. ASSUME UNCHANGED vars PROVE IInv'
  BY <1>1 DEF vars, IInv, TypeOK, Uses, Bounded, Closable, FdsOn
<1> QED
  BY <1>1, ResolverInv, IncomingListenInv, IncomingRetriedInv, ClientInv, CleanupInv
     DEF Next, Stopped

-----------------------------------------------------------------------------
(* Theorems *)

\* The invariant of a listener and its descriptors.
THEOREM InductiveInvariant == Spec => []IInv
BY InitInv, NextInv, PTL DEF Spec

\* Types of the listener's state and of the kernel's table.
THEOREM TypeCorrect == Spec => []TypeOK
BY InductiveInvariant, PTL DEF IInv

\* The handler that incoming->peer names is called for its own descriptor,
\* which is open and polled, however descriptors have been reused before.
THEOREM HandlersFit == Spec => []HandlerHasItsFd
<1>1. IInv => HandlerHasItsFd
  BY DEF IInv, Uses, HandlerHasItsFd, FdsOn
<1> QED BY <1>1, InductiveInvariant, PTL

\* No path of incoming_listen() or incoming_handler() leaks a descriptor.
THEOREM NothingLeaks == Spec => []FdsAccounted
<1>1. IInv => FdsAccounted
  <2> SUFFICES ASSUME IInv, state = "run" PROVE FdsAccounted
    BY DEF FdsAccounted
  <2>1. \A f : Cardinality({f}) = 1
    BY FS_Singleton
  <2>2. Cardinality({}) = 0
    BY FS_EmptySet
  <2> QED BY <2>1, <2>2 DEF IInv, Uses, FdsAccounted
<1> QED BY <1>1, InductiveInvariant, PTL

\* peer_close() fails an assertion at shutdown only if a retry waits.
THEOREM AbortsOnlyThen == Spec => []AbortsOnlyInRetry
<1>1. IInv => AbortsOnlyInRetry
  BY DEF IInv, Closable, AbortsOnlyInRetry
<1> QED BY <1>1, InductiveInvariant, PTL

=============================================================================
