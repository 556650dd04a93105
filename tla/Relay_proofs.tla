---------------------------- MODULE Relay_proofs ----------------------------
(***************************************************************************)
(* For any number of processes, networks, formats, rates, widths and hop   *)
(* limits: where connections make no loop every process relays every       *)
(* packet once, and the time between packets survives the way.             *)
(*                                                                         *)
(* The argument has three parts.  A network without loops is a tree with   *)
(* the source at its root: every process has a depth d and a rounding w on *)
(* its way, and each link leads one step down or is the way back of one    *)
(* that does (TreeRooted).  A packet goes down every branch once, because  *)
(* the way back is the same socket (OnceInv).  And a reader's state is at  *)
(* all times that of a counter which has followed its writer's clock from  *)
(* the first packet on, which takes that no wrap goes unnoticed (TimeInv). *)
(***************************************************************************)
EXTENDS Relay, FiniteSetTheorems, FunctionTheorems, WellFoundedInduction, TLAPS

-----------------------------------------------------------------------------
(* Networks without loops: definitions *)

\* A link leads away from the source, or towards it.
Down(l, d) == d[l.to] = d[l.from] + 1
Up(l, d) == d[l.from] = d[l.to] + 1

\* The network as a tree with its root at s: the depth d of each process, and
\* the sum w of the ratios on the way to it.
Rooted(s, d, w) ==
  /\ d \in [Nodes -> Nat] /\ w \in [Nodes -> Nat]
  /\ d[s] = 0 /\ w[s] = 0
  /\ \A n \in Nodes : d[n] < Cardinality(Nodes) /\ w[n] <= Rounding
  /\ \A l \in net.links : Down(l, d) \/ Up(l, d)
  /\ \A n \in Nodes \ {s} : \E l \in net.links : l.to = n /\ Down(l, d)
  /\ \A l \in net.links : Down(l, d) => l.to # s /\ w[l.to] = w[l.from] + Ratio[l.format]
  /\ \A l, k \in net.links : Down(l, d) /\ Down(k, d) /\ l.to = k.to => l = k
  /\ \A l, k \in net.links : Down(l, d) /\ Up(k, d) /\ k.from = l.to => SameSocket(k, l)

-----------------------------------------------------------------------------
(* Least members, and sums of ratios *)

\* A set of numbers has a least member.  This and LeastSubset stand in for
\* induction: a claim about all processes is shown by the one nearest to the
\* source for which it would fail.
LEMMA LeastNat ==
  ASSUME NEW T \in SUBSET Nat, T # {}
  PROVE  \E i \in T : \A j \in T : i <= j
<1>1. PICK i \in T : TRUE
  OBVIOUS
<1> DEFINE R == StrictSubsetOrdering(Nat)
           S == FiniteSubsetsOf(Nat)
           U == {0..j : j \in T}
<1>2. IsWellFoundedOn(R, S)
  BY FS_StrictSubsetOrderingWellFounded
<1>3. U \subseteq S /\ U # {}
  <2>1. \A j \in T : IsFiniteSet(0..j) /\ 0..j \subseteq Nat
    BY FS_Interval
  <2> QED BY <2>1 DEF FiniteSubsetsOf
<1>4. PICK x \in U : \A y \in U : ~(<<y, x>> \in R)
  <2> HIDE DEF R, S, U
  <2> QED BY <1>2, <1>3, WFMin
<1>5. PICK f \in T : x = 0..f
  BY <1>4
<1>6. ASSUME NEW g \in T, g < f PROVE FALSE
  <2>1. 0..g \subseteq Nat /\ x \subseteq Nat /\ 0..g \subseteq x
    BY <1>5, <1>6
  <2>2. f \in x /\ f \notin 0..g
    BY <1>5, <1>6
  <2>3. <<0..g, x>> \in R
    BY <2>1, <2>2 DEF StrictSubsetOrdering
  <2> QED BY <1>4, <2>3
<1> QED BY <1>6

\* A finite set has a smallest member of any kind of subsets.
LEMMA LeastSubset ==
  ASSUME NEW V, IsFiniteSet(V), NEW U \in SUBSET SUBSET V, U # {}
  PROVE  \E x \in U : \A y \in U : y \subseteq x => y = x
<1> DEFINE R == StrictSubsetOrdering(V)
<1>1. IsWellFoundedOn(R, SUBSET V)
  BY FS_StrictSubsetOrderingWellFounded, FS_FiniteSubsetsOfFinite
<1>2. PICK x \in U : \A y \in U : ~(<<y, x>> \in R)
  <2> HIDE DEF R
  <2> QED BY <1>1, WFMin
<1>3. ASSUME NEW y \in U, y \subseteq x, y # x PROVE FALSE
  BY <1>2, <1>3 DEF StrictSubsetOrdering
<1> QED BY <1>3

\* The ticks of a link, and of a set of links.
TicksOf(l) == {l} \X (1..Ratio[l.format])
AllTicks(L) == UNION {TicksOf(l) : l \in L}

\* A link has as many ticks as its ratio says.
LEMMA TicksOfLink ==
  ASSUME NEW l \in Links
  PROVE  /\ Ratio[l.format] \in Nat
         /\ IsFiniteSet(TicksOf(l)) /\ Cardinality(TicksOf(l)) = Ratio[l.format]
<1>1. Ratio[l.format] \in Nat
  BY RelayAssumption DEF Links
<1>2. IsFiniteSet({l}) /\ Cardinality({l}) = 1
  BY FS_Singleton, Zenon
<1> DEFINE r == Ratio[l.format]
<1>3. IsFiniteSet(1..r) /\ Cardinality(1..r) = r
  <2> HIDE DEF r
  <2>1. r \in Nat
    BY <1>1 DEF r
  <2> QED BY <2>1, FS_Interval
<1>4. IsFiniteSet(TicksOf(l)) /\ Cardinality(TicksOf(l)) = 1 * r
  <2> HIDE DEF r
  <2> QED BY <1>2, <1>3, FS_Product DEF TicksOf, r
<1> QED BY <1>1, <1>4

\* Finitely many links have finitely many ticks.
LEMMA AllTicksFinite ==
  ASSUME NEW L, L \subseteq Links, IsFiniteSet(L)
  PROVE  IsFiniteSet(AllTicks(L)) /\ Cardinality(AllTicks(L)) \in Nat
<1> DEFINE S == {TicksOf(k) : k \in L}
           f == [k \in L |-> TicksOf(k)]
<1>1. f \in Surjection(L, S)
  BY DEF Surjection
<1>2. IsFiniteSet(S)
  <2> HIDE DEF f, S
  <2> QED BY <1>1, FS_Surjection
<1>3. \A T \in S : IsFiniteSet(T)
  BY TicksOfLink
<1>4. IsFiniteSet(UNION S)
  <2> HIDE DEF S
  <2> QED BY <1>2, <1>3, FS_UNION
<1>5. UNION S = AllTicks(L)
  BY DEF AllTicks
<1> QED BY <1>4, <1>5, FS_CardinalityType

\* Ticks is the sum of the ratios: one link more adds its ratio.
LEMMA TicksAdd ==
  ASSUME NEW L, L \subseteq Links, IsFiniteSet(L), NEW l \in Links, l \notin L
  PROVE  /\ Ticks(L) \in Nat /\ Ticks(L \cup {l}) = Ticks(L) + Ratio[l.format]
<1>1. AllTicks(L \cup {l}) = AllTicks(L) \cup TicksOf(l)
  BY DEF AllTicks
<1>2. AllTicks(L) \cap TicksOf(l) = {}
  <2>1. \A k \in Links : \A x \in TicksOf(k) : x[1] = k
    BY DEF TicksOf
  <2> QED BY <2>1 DEF AllTicks
<1>3. Cardinality(AllTicks(L) \cap TicksOf(l)) = 0
  BY <1>2, FS_EmptySet
<1>4. Cardinality(AllTicks(L) \cup TicksOf(l))
      = Cardinality(AllTicks(L)) + Cardinality(TicksOf(l)) - Cardinality(AllTicks(L) \cap TicksOf(l))
  BY AllTicksFinite, TicksOfLink, FS_Union
<1>5. Cardinality(AllTicks(L)) \in Nat /\ Cardinality(TicksOf(l)) = Ratio[l.format]
      /\ Ratio[l.format] \in Nat
  BY AllTicksFinite, TicksOfLink
<1>6. Cardinality(AllTicks(L \cup {l})) = Cardinality(AllTicks(L)) + Ratio[l.format]
  <2>1. Cardinality(AllTicks(L) \cup TicksOf(l)) = Cardinality(AllTicks(L)) + Ratio[l.format]
    BY <1>3, <1>4, <1>5
  <2> QED BY <1>1, <2>1, Zenon
<1>7. Ticks(L) = Cardinality(AllTicks(L)) /\ Ticks(L \cup {l}) = Cardinality(AllTicks(L \cup {l}))
  BY DEF Ticks, AllTicks, TicksOf
<1> QED BY <1>5, <1>6, <1>7

\* Fewer links have fewer ticks.
LEMMA TicksSubset ==
  ASSUME NEW L, L \subseteq Links, IsFiniteSet(L), NEW K \in SUBSET L
  PROVE  Ticks(K) <= Ticks(L) /\ Ticks(K) \in Nat /\ Ticks(L) \in Nat
<1>1. AllTicks(K) \subseteq AllTicks(L)
  BY DEF AllTicks
<1>2. IsFiniteSet(AllTicks(L)) /\ Cardinality(AllTicks(L)) \in Nat
  BY AllTicksFinite
<1>3. Cardinality(AllTicks(K)) <= Cardinality(AllTicks(L)) /\ Cardinality(AllTicks(K)) \in Nat
  BY <1>1, <1>2, FS_Subset, FS_CardinalityType
<1>4. Ticks(L) = Cardinality(AllTicks(L)) /\ Ticks(K) = Cardinality(AllTicks(K))
  BY DEF Ticks, AllTicks, TicksOf
<1> QED BY <1>2, <1>3, <1>4

-----------------------------------------------------------------------------
(* Networks without loops *)

\* What RelayAssumption says of the network of a behaviour.
LEMMA NetFacts ==
  ASSUME net \in Networks
  PROVE  /\ net.links \subseteq Links /\ IsFiniteSet(net.links)
         /\ net.sources \subseteq Nodes /\ net.packets \in Nat
         /\ \A l \in net.links : /\ l.from \in Nodes /\ l.to \in Nodes /\ l.format \in Formats
                                 /\ Ratio[l.format] \in Nat /\ Period[l.format] \in Nat \ {0}
         /\ \A l, k \in net.links : l.both /\ k.both /\ l.from = k.from /\ l.to = k.to => l = k
         /\ Rounding \in Nat
<1>1. net.links \subseteq Links /\ IsFiniteSet(net.links) /\ net.sources \subseteq Nodes /\ net.packets \in Nat
  BY RelayAssumption DEF IsNetwork
<1>2. \A l, k \in net.links : l.both /\ k.both /\ l.from = k.from /\ l.to = k.to => l = k
  BY RelayAssumption DEF IsNetwork
<1>3. \A l \in Links : l.from \in Nodes /\ l.to \in Nodes /\ l.format \in Formats
  BY DEF Links
<1>4. \A f \in Formats : Ratio[f] \in Nat /\ Period[f] \in Nat \ {0}
  BY RelayAssumption
<1>5. Rounding \in Nat
  BY <1>1, TicksSubset DEF Rounding
<1> QED BY <1>1, <1>2, <1>3, <1>4, <1>5

\* Some processes T that a source s feeds: the link e[n] by which n is reached,
\* how many links away it is, and the rounding on the way.
Grown(s, T, d, e, w) ==
  /\ s \in T
  /\ d \in [T -> Nat] /\ w \in [T -> Nat] /\ e \in [T \ {s} -> net.links]
  /\ d[s] = 0 /\ w[s] = 0
  /\ \A n \in T : d[n] < Cardinality(T) /\ w[n] <= Ticks({e[m] : m \in T \ {s}})
  /\ \A n \in T \ {s} : /\ e[n].to = n /\ e[n].from \in T
                        /\ d[n] = d[e[n].from] + 1
                        /\ w[n] = w[e[n].from] + Ratio[e[n].format]

IsGrown(s, T) == \E d, e, w : Grown(s, T, d, e, w)

\* A link out of T leads to one more process.
LEMMA GrowsOn ==
  ASSUME net \in Networks, NEW s \in Nodes, NEW T \in SUBSET Nodes, IsGrown(s, T),
         NEW l \in net.links, l.from \in T, l.to \notin T
  PROVE  IsGrown(s, T \cup {l.to})
<1>1. PICK d, e, w : Grown(s, T, d, e, w)
  BY DEF IsGrown
<1> DEFINE n == l.to
           U == T \cup {n}
           d2 == [m \in U |-> IF m = n THEN d[l.from] + 1 ELSE d[m]]
           w2 == [m \in U |-> IF m = n THEN w[l.from] + Ratio[l.format] ELSE w[m]]
           e2 == [m \in U \ {s} |-> IF m = n THEN l ELSE e[m]]
           E == {e[m] : m \in T \ {s}}
           E2 == {e2[m] : m \in U \ {s}}
<1>2. /\ n \notin T /\ n \in Nodes /\ s \in T /\ n # s /\ l.from \in T /\ l.from # n
      /\ d \in [T -> Nat] /\ w \in [T -> Nat] /\ e \in [T \ {s} -> net.links]
      /\ d[s] = 0 /\ w[s] = 0 /\ Ratio[l.format] \in Nat
  BY <1>1, NetFacts DEF Grown
<1>3. /\ d2 \in [U -> Nat] /\ w2 \in [U -> Nat] /\ e2 \in [U \ {s} -> net.links]
      /\ d2[s] = 0 /\ w2[s] = 0
  BY <1>2
<1>4. E2 = E \cup {l} /\ l \notin E
  <2>1. \A m \in T \ {s} : e2[m] = e[m] /\ e[m].to = m
    BY <1>1, <1>2 DEF Grown
  <2>2. e2[n] = l
    BY <1>2
  <2>3. E2 = E \cup {l}
    <3>1. U \ {s} = (T \ {s}) \cup {n}
      BY <1>2
    <3> HIDE DEF e2, n
    <3> QED BY <2>1, <2>2, <3>1
  <2>4. l \notin E
    <3>1. \A m \in T \ {s} : e[m].to # l.to
      BY <1>2, <2>1
    <3> QED BY <3>1
  <2> HIDE DEF E, E2
  <2> QED BY <2>3, <2>4
<1>5. IsFiniteSet(E) /\ E \subseteq Links /\ Ticks(E) \in Nat /\ Ticks(E2) = Ticks(E) + Ratio[l.format]
  <2>1. E \subseteq net.links
    BY <1>2
  <2>2. IsFiniteSet(E) /\ E \subseteq Links
    <3> HIDE DEF E
    <3> QED BY <2>1, NetFacts, FS_Subset
  <2>3. Ticks(E) \in Nat /\ Ticks(E \cup {l}) = Ticks(E) + Ratio[l.format]
    <3> HIDE DEF E, E2
    <3> QED BY <2>2, <1>4, NetFacts, TicksAdd
  <2>4. Ticks(E2) = Ticks(E \cup {l})
    <3> HIDE DEF E, E2
    <3> QED BY <1>4, Zenon
  <2> QED BY <2>2, <2>3, <2>4
<1>6. Cardinality(T) \in Nat /\ Cardinality(U) = Cardinality(T) + 1
  <2>1. IsFiniteSet(T)
    BY RelayAssumption, FS_Subset
  <2>2. Cardinality(T) \in Nat
    BY <2>1, FS_CardinalityType
  <2>3. Cardinality(T \cup {n}) = Cardinality(T) + 1
    <3> HIDE DEF n
    <3> QED BY <1>2, <2>1, FS_AddElement
  <2> QED BY <2>2, <2>3
<1>7. \A m \in U : d2[m] < Cardinality(U) /\ w2[m] <= Ticks(E2)
  <2>1. \A m \in T : d[m] < Cardinality(T) /\ w[m] <= Ticks(E)
    BY <1>1 DEF Grown
  <2> HIDE DEF E, E2
  <2>2. ASSUME NEW m \in T PROVE d2[m] < Cardinality(U) /\ w2[m] <= Ticks(E2)
    <3>1. d2[m] = d[m] /\ w2[m] = w[m] /\ d[m] \in Nat /\ w[m] \in Nat
      BY <1>2
    <3> HIDE DEF d2, w2, U
    <3> QED BY <1>2, <1>5, <1>6, <2>1, <3>1
  <2>3. d2[n] < Cardinality(U) /\ w2[n] <= Ticks(E2)
    <3>1. d2[n] = d[l.from] + 1 /\ w2[n] = w[l.from] + Ratio[l.format]
          /\ d[l.from] \in Nat /\ w[l.from] \in Nat
      BY <1>2
    <3> HIDE DEF d2, w2, U
    <3> QED BY <1>2, <1>5, <1>6, <2>1, <3>1
  <2> HIDE DEF d2, w2, n
  <2> QED BY <2>2, <2>3
<1>8. \A m \in U \ {s} : /\ e2[m].to = m /\ e2[m].from \in U
                         /\ d2[m] = d2[e2[m].from] + 1
                         /\ w2[m] = w2[e2[m].from] + Ratio[e2[m].format]
  <2>1. \A m \in T \ {s} : /\ e[m].to = m /\ e[m].from \in T
                           /\ d[m] = d[e[m].from] + 1
                           /\ w[m] = w[e[m].from] + Ratio[e[m].format]
    BY <1>1 DEF Grown
  <2>2. ASSUME NEW m \in T \ {s}
        PROVE  /\ e2[m].to = m /\ e2[m].from \in U
               /\ d2[m] = d2[e2[m].from] + 1
               /\ w2[m] = w2[e2[m].from] + Ratio[e2[m].format]
    <3>1. e2[m] = e[m] /\ d2[m] = d[m] /\ w2[m] = w[m] /\ e[m].from \in T
      BY <1>2, <2>1
    <3>2. d2[e[m].from] = d[e[m].from] /\ w2[e[m].from] = w[e[m].from]
      BY <1>2, <3>1
    <3> HIDE DEF d2, w2, e2
    <3> QED BY <2>1, <3>1, <3>2
  <2>3. /\ e2[n].to = n /\ e2[n].from \in U
        /\ d2[n] = d2[e2[n].from] + 1
        /\ w2[n] = w2[e2[n].from] + Ratio[e2[n].format]
    <3>1. e2[n] = l /\ d2[n] = d[l.from] + 1 /\ w2[n] = w[l.from] + Ratio[l.format]
      BY <1>2
    <3>2. d2[l.from] = d[l.from] /\ w2[l.from] = w[l.from]
      BY <1>2
    <3> HIDE DEF d2, w2, e2
    <3> QED BY <1>2, <3>1, <3>2
  <2> HIDE DEF d2, w2, e2, n
  <2> QED BY <2>2, <2>3
<1>9. Grown(s, U, d2, e2, w2)
  <2> HIDE DEF d2, w2, e2, n
  <2> QED BY <1>2, <1>3, <1>7, <1>8 DEF Grown
<1> QED
  <2> HIDE DEF d2, w2, e2, n
  <2> QED BY <1>9 DEF IsGrown, n

\* A source that feeds all processes reaches all of them by a tree.
LEMMA AllGrown ==
  ASSUME net \in Networks, NEW s \in Nodes, Feeds(s)
  PROVE  IsGrown(s, Nodes)
<1> DEFINE W == {S \in SUBSET Nodes : IsGrown(s, Nodes \ S)}
<1>1. IsGrown(s, {s})
  <2> DEFINE z == [n \in {s} |-> 0]
             e == [n \in {} |-> 0]
             E == {e[m] : m \in {s} \ {s}}
  <2>1. Ticks(E) \in Nat
    BY NetFacts, TicksSubset
  <2>2. Cardinality({s}) = 1
    BY FS_Singleton, Zenon
  <2>3. e \in [{s} \ {s} -> net.links]
    OBVIOUS
  <2>4. \A n \in {s} : z[n] < Cardinality({s}) /\ z[n] <= Ticks(E)
    BY <2>1, <2>2
  <2> HIDE DEF E
  <2>5. Grown(s, {s}, z, e, z)
    BY <2>3, <2>4 DEF Grown, E
  <2> HIDE DEF z, e
  <2> QED BY <2>5 DEF IsGrown
<1>2. W # {}
  <2>1. Nodes \ (Nodes \ {s}) = {s}
    OBVIOUS
  <2>2. IsGrown(s, Nodes \ (Nodes \ {s}))
    BY <1>1, <2>1, Zenon
  <2> QED BY <2>2
<1>3. PICK X \in W : \A Y \in W : Y \subseteq X => Y = X
  <2> HIDE DEF W
  <2>1. W \in SUBSET SUBSET Nodes
    BY DEF W
  <2> QED BY <1>2, <2>1, RelayAssumption, LeastSubset
<1> DEFINE T == Nodes \ X
<1>4. T \in SUBSET Nodes /\ IsGrown(s, T) /\ s \in T
  BY <1>3 DEF IsGrown, Grown
<1>5. ASSUME NEW l \in net.links, l.from \in T, l.to \notin T PROVE FALSE
  <2>1. IsGrown(s, T \cup {l.to})
    <3> HIDE DEF T
    <3> QED BY <1>4, <1>5, GrowsOn
  <2>2. l.to \in X /\ l.to \in Nodes
    BY <1>5, NetFacts
  <2>3. Nodes \ (X \ {l.to}) = T \cup {l.to}
    BY <2>2
  <2>4. IsGrown(s, Nodes \ (X \ {l.to}))
    <3> HIDE DEF T
    <3> QED BY <2>1, <2>3, Zenon
  <2>5. X \ {l.to} \in W
    BY <1>3, <2>4
  <2> QED BY <1>3, <2>2, <2>5
<1>6. T = Nodes
  <2> HIDE DEF T
  <2> QED BY <1>4, <1>5 DEF Feeds
<1> QED
  <2> HIDE DEF T
  <2> QED BY <1>4, <1>6, Zenon

\* In a network without loops every link is one of the tree or the way back
\* of one.
LEMMA TreeRooted ==
  ASSUME net \in Networks, Tree, NEW s \in net.sources
  PROVE  \E d, w : Rooted(s, d, w)
<1> DEFINE E == {{l.from, l.to} : l \in net.links}
<1>1. s \in Nodes /\ IsGrown(s, Nodes)
  BY NetFacts, AllGrown DEF Tree
<1>2. PICK d, e, w : Grown(s, Nodes, d, e, w)
  BY <1>1 DEF IsGrown
<1>3. /\ d \in [Nodes -> Nat] /\ w \in [Nodes -> Nat] /\ e \in [Nodes \ {s} -> net.links]
      /\ d[s] = 0 /\ w[s] = 0
      /\ \A n \in Nodes : d[n] < Cardinality(Nodes) /\ w[n] <= Ticks({e[m] : m \in Nodes \ {s}})
  BY <1>2 DEF Grown
<1>4. \A n \in Nodes \ {s} : /\ e[n] \in net.links /\ e[n].to = n /\ e[n].from \in Nodes
                             /\ d[n] = d[e[n].from] + 1
                             /\ w[n] = w[e[n].from] + Ratio[e[n].format]
  BY <1>2, <1>3 DEF Grown
<1>5. \A n \in Nodes : w[n] <= Rounding
  <2> DEFINE K == {e[m] : m \in Nodes \ {s}}
  <2>1. K \in SUBSET net.links
    BY <1>3
  <2>2. \A n \in Nodes : w[n] \in Nat /\ w[n] <= Ticks(K)
    BY <1>3
  <2> HIDE DEF K
  <2>3. Ticks(K) <= Rounding /\ Ticks(K) \in Nat /\ Rounding \in Nat
    BY <2>1, NetFacts, TicksSubset DEF Rounding
  <2> QED BY <2>2, <2>3
\* The tree has one connection less than processes, so there are no others.
<1>6. \A l \in net.links : \E n \in Nodes \ {s} : {l.from, l.to} = {e[n].from, n}
  <2> DEFINE f == [n \in Nodes \ {s} |-> {e[n].from, n}]
             g == [l \in net.links |-> {l.from, l.to}]
  <2>1. IsFiniteSet(E) /\ Cardinality(E) \in Nat
    <3>1. g \in Surjection(net.links, E)
      BY DEF Surjection
    <3> HIDE DEF g, E
    <3> QED BY <3>1, NetFacts, FS_Surjection, FS_CardinalityType
  <2>2. f \in Injection(Nodes \ {s}, E)
    <3>1. \A n \in Nodes \ {s} : f[n] \in E
      <4> SUFFICES ASSUME NEW n \in Nodes \ {s} PROVE f[n] \in E
        OBVIOUS
      <4>1. f[n] = {e[n].from, e[n].to} /\ e[n] \in net.links
        BY <1>4
      <4> HIDE DEF f
      <4> QED BY <4>1
    <3>2. ASSUME NEW n \in Nodes \ {s}, NEW m \in Nodes \ {s}, f[n] = f[m], n # m PROVE FALSE
      <4>1. {e[n].from, n} = {e[m].from, m}
        BY <3>2
      <4>2. e[n].from = m /\ e[m].from = n
        BY <3>2, <4>1
      <4>3. d[n] = d[m] + 1 /\ d[m] = d[n] + 1 /\ d[n] \in Nat /\ d[m] \in Nat
        BY <1>3, <1>4, <4>2
      <4> QED BY <4>3
    <3> HIDE DEF E
    <3>3. f \in [Nodes \ {s} -> E]
      BY <3>1
    <3> HIDE DEF f
    <3> QED BY <3>2, <3>3 DEF Injection, IsInjective
  <2>3. /\ Cardinality(Nodes) \in Nat
        /\ Cardinality(Nodes \ {s}) = Cardinality(Nodes) - 1
    BY <1>1, RelayAssumption, FS_CardinalityType, FS_RemoveElement
  <2>4. Cardinality(E) < Cardinality(Nodes)
    BY DEF Tree
  <2> HIDE DEF E
  <2>5. f \in Surjection(Nodes \ {s}, E)
    <3> HIDE DEF f
    <3>1. Cardinality(Nodes \ {s}) <= Cardinality(E)
      BY <2>1, <2>2, FS_Injection
    <3>2. Cardinality(Nodes \ {s}) = Cardinality(E)
      BY <2>1, <2>3, <2>4, <3>1
    <3> QED BY <2>1, <2>2, <3>2, FS_Injection
  <2> SUFFICES ASSUME NEW l \in net.links
               PROVE  \E n \in Nodes \ {s} : {l.from, l.to} = {e[n].from, n}
    OBVIOUS
  <2>6. {l.from, l.to} \in E
    BY DEF E
  <2>7. PICK n \in Nodes \ {s} : f[n] = {l.from, l.to}
    <3> HIDE DEF f
    <3> QED BY <2>5, <2>6 DEF Surjection
  <2>8. f[n] = {e[n].from, n}
    OBVIOUS
  <2> QED BY <2>7, <2>8, Zenon
<1>7. \A l \in net.links :
        /\ Down(l, d) \/ Up(l, d)
        /\ Down(l, d) => l.to # s /\ l.from = e[l.to].from /\ l.from # l.to
        /\ Up(l, d) => l.from # s /\ l.to = e[l.from].from
  <2> SUFFICES ASSUME NEW l \in net.links
               PROVE  /\ Down(l, d) \/ Up(l, d)
                      /\ Down(l, d) => l.to # s /\ l.from = e[l.to].from /\ l.from # l.to
                      /\ Up(l, d) => l.from # s /\ l.to = e[l.from].from
    OBVIOUS
  <2>1. PICK n \in Nodes \ {s} : {l.from, l.to} = {e[n].from, n}
    BY <1>6
  <2>2. \/ l.from = e[n].from /\ l.to = n
        \/ l.to = e[n].from /\ l.from = n
    BY <2>1
  <2>3. d[n] = d[e[n].from] + 1 /\ d[n] \in Nat /\ d[e[n].from] \in Nat /\ n # s
    BY <1>3, <1>4
  <2> QED BY <2>2, <2>3 DEF Down, Up
<1>8. \A l, k \in net.links : {l.from, l.to} = {k.from, k.to} /\ l # k => l.both /\ k.both
  BY DEF Tree
<1>9. ASSUME NEW l \in net.links, NEW k \in net.links, Down(l, d), Down(k, d), l.to = k.to
      PROVE  l = k
  <2>1. l.from = k.from
    BY <1>7, <1>9
  <2> QED BY <1>8, <1>9, <2>1, NetFacts
<1>10. ASSUME NEW l \in net.links, NEW k \in net.links, Down(l, d), Up(k, d), k.from = l.to
       PROVE  SameSocket(k, l)
  <2>1. k.to = l.from /\ l.from # k.from
    BY <1>7, <1>10
  <2> QED BY <1>8, <1>10, <2>1 DEF SameSocket
<1>11. \A l \in net.links : Down(l, d) => w[l.to] = w[l.from] + Ratio[l.format]
  <2> SUFFICES ASSUME NEW l \in net.links, Down(l, d) PROVE w[l.to] = w[l.from] + Ratio[l.format]
    OBVIOUS
  <2>1. l.to \in Nodes \ {s} /\ e[l.to] \in net.links /\ e[l.to].to = l.to /\ Down(e[l.to], d)
    BY <1>4, <1>7, NetFacts DEF Down
  <2>2. e[l.to] = l
    BY <1>9, <2>1
  <2> QED BY <1>4, <2>1, <2>2
<1>12. \A n \in Nodes \ {s} : \E l \in net.links : l.to = n /\ Down(l, d)
  BY <1>4 DEF Down
<1> HIDE DEF E
<1>13. Rooted(s, d, w)
  BY <1>3, <1>5, <1>7, <1>9, <1>10, <1>11, <1>12 DEF Rooted
<1> QED BY <1>13

-----------------------------------------------------------------------------
(* Types *)

Messages == [id : Nat, hops : Nat, stamp : SUBSET Nat]
Packets == [id : Nat, hops : Nat, mlat_timestamp : Nat]
Records == [id : Nat, mlat_timestamp : Nat]
States == [last : Nat, generation : Nat]

TypeOK ==
  /\ net \in Networks
  /\ clock \in Nat /\ entered \in Nat /\ breaks \in Nat
  /\ flying \in [net.links -> Seq(Messages)]
  /\ mlat \in [net.links -> States]
  /\ seen \in [Nodes -> Seq(Records)]

\* Division with a remainder.
LEMMA DivMod ==
  ASSUME NEW a \in Nat, NEW b \in Nat, b > 0
  PROVE  /\ a \div b \in Nat /\ a % b \in Nat /\ a % b < b
         /\ a = b * (a \div b) + (a % b)
OBVIOUS

\* What it says of the numbers.
LEMMA Constants ==
  /\ MlatMax \in Nat /\ MlatMax > 0 /\ Word \in Nat /\ Word > MlatMax
  /\ HopsMod \in Nat /\ HopsMod > 0 /\ MaxHops \in Nat
  /\ MaxSeen \in Nat /\ MaxSeen > 1
BY RelayAssumption DEF Word

\* Writing keeps the number of a packet and adds no hops.
LEMMA SerializeType ==
  ASSUME NEW p \in Packets, NEW f \in Formats
  PROVE  /\ Serialize(p, f) \in Messages /\ Serialize(p, f).id = p.id
         /\ Serialize(p, f).hops <= p.hops
<1>1. p.id \in Nat /\ p.hops \in Nat /\ p.mlat_timestamp \in Nat
  BY DEF Packets
<1>2. Ratio[f] \in Nat /\ Period[f] \in Nat /\ Period[f] > 0
  BY RelayAssumption
<1>3. Ratio[f] # 0 => ScaleOut(p.mlat_timestamp, f) \in Nat
  <2> SUFFICES ASSUME Ratio[f] # 0 PROVE ScaleOut(p.mlat_timestamp, f) \in Nat
    OBVIOUS
  <2>1. p.mlat_timestamp \div Ratio[f] \in Nat
    BY <1>1, <1>2, DivMod
  <2> QED BY <1>2, <2>1, DivMod DEF ScaleOut
<1> DEFINE stamp == IF Ratio[f] = 0 \/ (CountsHops(f) /\ p.mlat_timestamp = 0) THEN {}
                    ELSE {ScaleOut(p.mlat_timestamp, f)}
           hops == IF CountsHops(f) THEN p.hops ELSE 0
<1>4. stamp \subseteq Nat
  BY <1>3
<1>5. hops \in Nat /\ hops <= p.hops
  BY <1>1
<1>6. Serialize(p, f) = [id |-> p.id, hops |-> hops, stamp |-> stamp]
  BY DEF Serialize
<1> HIDE DEF stamp, hops
<1> QED BY <1>1, <1>4, <1>5, <1>6 DEF Messages

\* So does reading.
LEMMA ParseType ==
  ASSUME NEW m \in Messages, NEW f \in Formats, NEW st \in States
  PROVE  /\ ParsedState(m, f, st) \in States
         /\ Parse(m, f, st) \in Packets /\ Parse(m, f, st).id = m.id
         /\ Parse(m, f, st).hops <= m.hops
<1>1. /\ m.id \in Nat /\ m.hops \in Nat /\ m.stamp \subseteq Nat
      /\ st.last \in Nat /\ st.generation \in Nat
  BY DEF Messages, States
<1>2. Ratio[f] \in Nat /\ Period[f] \in Nat /\ Period[f] > 0
  BY RelayAssumption
<1>3. \A ts \in Nat : Widen(ts, f, st) \in States
  <2> SUFFICES ASSUME NEW ts \in Nat PROVE Widen(ts, f, st) \in States
    OBVIOUS
  <2> DEFINE g == st.generation + (IF ts < st.last THEN Period[f] ELSE 0)
  <2>1. g \in Nat
    BY <1>1, <1>2
  <2>2. Widen(ts, f, st) = [last |-> ts, generation |-> g % Word]
    BY DEF Widen
  <2> HIDE DEF g
  <2>3. g % Word \in Nat
    BY <2>1, Constants, DivMod
  <2> QED BY <2>2, <2>3 DEF States
<1>4. ParsedState(m, f, st) \in States
  BY <1>1, <1>3 DEF ParsedState
<1>5. \A x \in States : ScaleIn(f, x) \in Nat
  <2> SUFFICES ASSUME NEW x \in States PROVE ScaleIn(f, x) \in Nat
    OBVIOUS
  <2>1. x.generation + x.last \in Nat
    BY DEF States
  <2>2. (x.generation + x.last) % Word \in Nat
    BY <2>1, Constants, DivMod
  <2>3. ((x.generation + x.last) % Word) * Ratio[f] \in Nat
    BY <2>2, <1>2
  <2>4. (((x.generation + x.last) % Word) * Ratio[f]) % Word \in Nat
    BY <2>3, Constants, DivMod
  <2> QED BY <2>4, Constants, DivMod DEF ScaleIn
<1> DEFINE ts == IF m.stamp = {} THEN 0 ELSE ScaleIn(f, ParsedState(m, f, st))
           hops == m.hops % HopsMod
<1>6. ts \in Nat
  BY <1>4, <1>5
<1>7. hops \in Nat /\ hops <= m.hops
  BY <1>1, Constants, DivMod
<1>8. Parse(m, f, st) = [id |-> m.id, hops |-> hops, mlat_timestamp |-> ts]
  BY DEF Parse
<1> HIDE DEF ts, hops
<1> QED BY <1>1, <1>4, <1>6, <1>7, <1>8 DEF Packets

-----------------------------------------------------------------------------
(* Sequences of messages *)

\* A packet is in a sequence; it is there at most once.
Has(q, i) == \E k \in DOMAIN q : q[k].id = i
Once(q, i) == \A j, k \in DOMAIN q : q[j].id = i /\ q[k].id = i => j = k

\* A packet more at the end of a sequence.
LEMMA AppendHas ==
  ASSUME NEW S, NEW q \in Seq(S), NEW m \in S, NEW i
  PROVE  /\ Has(Append(q, m), i) <=> Has(q, i) \/ m.id = i
         /\ Once(q, i) /\ (m.id = i => ~Has(q, i)) => Once(Append(q, m), i)
<1> DEFINE a == Append(q, m)
<1>1. /\ Len(q) \in Nat /\ DOMAIN q = 1..Len(q) /\ DOMAIN a = 1..(Len(q) + 1)
      /\ a[Len(q) + 1] = m /\ \A k \in 1..Len(q) : a[k] = q[k]
  OBVIOUS
<1> HIDE DEF a
<1>2. \A k \in DOMAIN a : k \in DOMAIN q \/ k = Len(q) + 1
  BY <1>1
<1>3. Has(a, i) <=> Has(q, i) \/ m.id = i
  BY <1>1, <1>2 DEF Has
<1>4. Once(q, i) /\ (m.id = i => ~Has(q, i)) => Once(a, i)
  BY <1>1, <1>2 DEF Has, Once
<1> QED BY <1>3, <1>4 DEF a

\* A packet less at its front.
LEMMA TailHas ==
  ASSUME NEW S, NEW q \in Seq(S), q # <<>>, NEW i
  PROVE  /\ Has(q, i) <=> Has(Tail(q), i) \/ Head(q).id = i
         /\ Once(q, i) => Once(Tail(q), i) /\ (Head(q).id = i => ~Has(Tail(q), i))
<1> DEFINE t == Tail(q)
<1>1. /\ Len(q) \in Nat /\ Len(q) > 0 /\ DOMAIN q = 1..Len(q) /\ DOMAIN t = 1..(Len(q) - 1)
      /\ q[1] = Head(q) /\ \A k \in 1..(Len(q) - 1) : t[k] = q[k + 1]
  OBVIOUS
<1> HIDE DEF t
<1>2. \A k \in DOMAIN q : k = 1 \/ (k - 1 \in DOMAIN t /\ q[k] = t[k - 1])
  BY <1>1
<1>3. \A k \in DOMAIN t : k + 1 \in DOMAIN q /\ t[k] = q[k + 1] /\ k + 1 # 1 /\ k \in Nat
  BY <1>1
<1>4. 1 \in DOMAIN q
  BY <1>1
<1>5. Has(q, i) <=> Has(t, i) \/ Head(q).id = i
  BY <1>1, <1>2, <1>3, <1>4 DEF Has
<1>6. ASSUME Once(q, i) PROVE Once(t, i) /\ (Head(q).id = i => ~Has(t, i))
  BY <1>1, <1>3, <1>4, <1>6 DEF Has, Once
<1> QED BY <1>5, <1>6 DEF t

-----------------------------------------------------------------------------
(* What a process does with a packet *)

\* The packet with the hop counted.
Counted(p) == [p EXCEPT !.hops = @ + 1]

\* A packet that has come too far leaves no trace.
LEMMA RelayedDrops ==
  ASSUME NEW n, NEW p \in Packets, NEW via, NEW queues, Relayed(n, p, via, queues),
         p.hops + 1 > MaxHops
  PROVE  flying' = queues /\ seen' = seen
BY DEF Relayed, Packets

\* Any other is written to the recipients, with the hop counted, and recorded
\* as it came.
LEMMA RelayedSends ==
  ASSUME TypeOK, NEW n \in Nodes, NEW p \in Packets, NEW via,
         NEW queues \in [net.links -> Seq(Messages)], Relayed(n, p, via, queues),
         p.hops + 1 <= MaxHops
  PROVE  /\ Counted(p) \in Packets /\ Counted(p).id = p.id /\ Counted(p).hops = p.hops + 1
         /\ Counted(p).mlat_timestamp = p.mlat_timestamp
         /\ flying' = [l \in net.links |->
                         IF l \in Recipients(n, via)
                         THEN Append(queues[l], Serialize(Counted(p), l.format)) ELSE queues[l]]
         /\ Record(n, p)
<1>1. Counted(p) \in Packets /\ Counted(p).id = p.id /\ Counted(p).hops = p.hops + 1
      /\ Counted(p).mlat_timestamp = p.mlat_timestamp
  BY DEF Counted, Packets
<1>2. ~(Counted(p).hops > MaxHops)
  BY <1>1, Constants DEF Packets
<1>3. IF Counted(p).hops > MaxHops
      THEN flying' = queues /\ UNCHANGED seen
      ELSE /\ flying' = [l \in net.links |->
                           IF l \in Recipients(n, via)
                           THEN Append(queues[l], Serialize(Counted(p), l.format)) ELSE queues[l]]
           /\ Record(n, p)
  BY Zenon DEF Relayed, Counted
<1> QED BY <1>1, <1>2, <1>3, Zenon

\* A packet is recorded unless it is already there.
LEMMA RecordEffect ==
  ASSUME TypeOK, NEW n \in Nodes, NEW p \in Packets, Record(n, p)
  PROVE  /\ seen' \in [Nodes -> Seq(Records)]
         /\ \A m \in Nodes \ {n} : seen'[m] = seen[m]
         /\ ~Has(seen[n], p.id) =>
              seen'[n] = Append(seen[n], [id |-> p.id, mlat_timestamp |-> p.mlat_timestamp])
         /\ \A i : Has(seen'[n], i) <=> Has(seen[n], i) \/ i = p.id
         /\ \A i : Once(seen[n], i) /\ (i = p.id => ~Has(seen[n], i)) => Once(seen'[n], i)
<1> DEFINE r == [id |-> p.id, mlat_timestamp |-> p.mlat_timestamp]
           copies == {i \in DOMAIN seen[n] : seen[n][i].id = p.id}
<1>1. r \in Records /\ r.id = p.id /\ seen[n] \in Seq(Records)
  BY DEF TypeOK, Records, Packets
<1>2. Append(seen[n], r) \in Seq(Records)
  BY <1>1
<1>3. \/ seen' = [seen EXCEPT ![n] = Append(@, r)]
      \/ seen' = seen /\ ~(Cardinality(copies) < MaxSeen)
  BY DEF Record
<1>4. ~Has(seen[n], p.id) => Cardinality(copies) < MaxSeen
  <2> SUFFICES ASSUME ~Has(seen[n], p.id) PROVE Cardinality(copies) < MaxSeen
    OBVIOUS
  <2>1. copies = {}
    BY DEF Has
  <2>2. Cardinality(copies) = 0
    BY <2>1, FS_EmptySet, Zenon
  <2> QED BY <2>2, Constants
<1> HIDE DEF copies, r
<1>5. CASE seen' = [seen EXCEPT ![n] = Append(@, r)]
  <2>1. seen'[n] = Append(seen[n], r) /\ \A m \in Nodes \ {n} : seen'[m] = seen[m]
    BY <1>5 DEF TypeOK
  <2>2. seen' \in [Nodes -> Seq(Records)]
    BY <1>2, <1>5 DEF TypeOK
  <2>3. \A i : Has(seen'[n], i) <=> Has(seen[n], i) \/ i = p.id
    BY <1>1, <2>1, AppendHas
  <2>4. \A i : Once(seen[n], i) /\ (i = p.id => ~Has(seen[n], i)) => Once(seen'[n], i)
    BY <1>1, <2>1, AppendHas
  <2> QED BY <2>1, <2>2, <2>3, <2>4 DEF r
<1>6. CASE seen' = seen /\ Has(seen[n], p.id)
  BY <1>6 DEF TypeOK
<1> QED BY <1>3, <1>4, <1>5, <1>6

\* What is on the links after a packet has been relayed.
LEMMA SendEffect ==
  ASSUME TypeOK, NEW n \in Nodes, NEW p \in Packets, NEW via,
         NEW queues \in [net.links -> Seq(Messages)], Relayed(n, p, via, queues),
         p.hops + 1 <= MaxHops
  PROVE  /\ flying' \in [net.links -> Seq(Messages)]
         /\ \A l \in net.links \ Recipients(n, via) : flying'[l] = queues[l]
         /\ \A l \in Recipients(n, via) :
              /\ flying'[l] = Append(queues[l], Serialize(Counted(p), l.format))
              /\ \A i : Has(flying'[l], i) <=> Has(queues[l], i) \/ i = p.id
              /\ \A i : Once(queues[l], i) /\ (i = p.id => ~Has(queues[l], i)) => Once(flying'[l], i)
<1>1. /\ flying' = [l \in net.links |->
                      IF l \in Recipients(n, via)
                      THEN Append(queues[l], Serialize(Counted(p), l.format)) ELSE queues[l]]
      /\ Counted(p) \in Packets /\ Counted(p).id = p.id
  BY RelayedSends
<1>2. \A l \in net.links : /\ Serialize(Counted(p), l.format) \in Messages
                           /\ Serialize(Counted(p), l.format).id = p.id
  BY <1>1, NetFacts, SerializeType DEF TypeOK
<1>3. \A l \in net.links : Append(queues[l], Serialize(Counted(p), l.format)) \in Seq(Messages)
  BY <1>2
<1>4. Recipients(n, via) \subseteq net.links
  BY DEF Recipients
<1>5. flying' \in [net.links -> Seq(Messages)]
  BY <1>1, <1>3
<1>6. \A l \in Recipients(n, via) : flying'[l] = Append(queues[l], Serialize(Counted(p), l.format))
  BY <1>1, <1>4
<1>7. \A l \in net.links \ Recipients(n, via) : flying'[l] = queues[l]
  BY <1>1
<1>8. ASSUME NEW l \in Recipients(n, via)
      PROVE  /\ \A i : Has(flying'[l], i) <=> Has(queues[l], i) \/ i = p.id
             /\ \A i : Once(queues[l], i) /\ (i = p.id => ~Has(queues[l], i)) => Once(flying'[l], i)
  <2> DEFINE m == Serialize(Counted(p), l.format)
  <2>1. l \in net.links /\ m \in Messages /\ m.id = p.id /\ queues[l] \in Seq(Messages)
        /\ flying'[l] = Append(queues[l], m)
    BY <1>2, <1>4, <1>6
  <2> HIDE DEF m
  <2> QED BY <2>1, AppendHas
<1> QED BY <1>5, <1>6, <1>7, <1>8

\* The head of a queue is taken.
LEMMA ReadEffect ==
  ASSUME TypeOK, NEW l \in net.links, Receive(l)
  PROVE  LET m == Head(flying[l])
             p == Parse(m, l.format, mlat[l])
             queues == [flying EXCEPT ![l] = Tail(@)]
         IN  /\ m \in Messages /\ p \in Packets /\ p.id = m.id /\ p.hops <= m.hops
             /\ flying[l] \in Seq(Messages) /\ flying[l] # <<>>
             /\ queues \in [net.links -> Seq(Messages)]
             /\ queues[l] = Tail(flying[l]) /\ \A k \in net.links \ {l} : queues[k] = flying[k]
             /\ l.to \in Nodes /\ Relayed(l.to, p, {l}, queues)
             /\ mlat' \in [net.links -> States]
<1>1. /\ flying[l] \in Seq(Messages) /\ flying[l] # <<>> /\ mlat[l] \in States
      /\ l.to \in Nodes /\ l.format \in Formats
  BY NetFacts DEF TypeOK, Receive
<1>2. Head(flying[l]) \in Messages /\ Tail(flying[l]) \in Seq(Messages)
  BY <1>1
<1> DEFINE m == Head(flying[l])
           p == Parse(m, l.format, mlat[l])
           queues == [flying EXCEPT ![l] = Tail(@)]
<1>3. p \in Packets /\ p.id = m.id /\ p.hops <= m.hops /\ ParsedState(m, l.format, mlat[l]) \in States
  <2> HIDE DEF m
  <2> QED BY <1>1, <1>2, ParseType DEF m
<1>4. /\ queues \in [net.links -> Seq(Messages)]
      /\ queues[l] = Tail(flying[l]) /\ \A k \in net.links \ {l} : queues[k] = flying[k]
  BY <1>2 DEF TypeOK
<1>5. mlat' \in [net.links -> States]
  BY <1>3 DEF Receive, TypeOK
<1>6. Relayed(l.to, p, {l}, queues)
  BY DEF Receive
<1> HIDE DEF p, queues, m
<1>7. m \in Messages
  BY <1>2 DEF m
<1> QED BY <1>1, <1>3, <1>4, <1>5, <1>6, <1>7 DEF p, queues, m

-----------------------------------------------------------------------------
(* Every packet once *)

\* All packets anywhere have entered.
IdsKnown ==
  /\ \A l \in net.links : \A i : Has(flying[l], i) => i \in 1..entered
  /\ \A n \in Nodes : \A i : Has(seen[n], i) => i \in 1..entered

\* The copies of a packet have counted no more hops than b.
HopsFit(q, i, b) == \A k \in DOMAIN q : q[k].id = i => q[k].hops <= b

\* Packet i, which entered at s, has come no further than to the ends of the
\* links it is on, which lead away from s.
Ahead(i, d) ==
  /\ \A l \in net.links : Has(flying[l], i) => Down(l, d) /\ Has(seen[l.from], i) /\ ~Has(seen[l.to], i)
  /\ \A l \in net.links : Down(l, d) /\ Has(seen[l.to], i) => Has(seen[l.from], i)
  /\ \A l \in net.links : Once(flying[l], i)
  /\ \A n \in Nodes : Once(seen[n], i)

\* Nor has it been left anywhere.
Complete(i, s, d) ==
  /\ Has(seen[s], i)
  /\ \A l \in net.links : Down(l, d) /\ Has(seen[l.from], i) => Has(seen[l.to], i) \/ Has(flying[l], i)
  /\ \A l \in net.links : HopsFit(flying[l], i, d[l.from] + 1)

\* The second half is lost with a connection or to the hop limit.
Carried(i, s, d) == Ahead(i, d) /\ (breaks = 0 /\ HopsSuffice => Complete(i, s, d))

\* Every packet that has entered is carried so, from the process where it did.
OnceInv ==
  Tree => \A i \in 1..entered : \E s \in net.sources : \E d, w : Rooted(s, d, w) /\ Carried(i, s, d)

\* A packet more within the bound.
LEMMA AppendHops ==
  ASSUME NEW q \in Seq(Messages), NEW m \in Messages, NEW i, NEW b \in Nat,
         HopsFit(q, i, b), m.id = i => m.hops <= b
  PROVE  HopsFit(Append(q, m), i, b)
<1> DEFINE a == Append(q, m)
<1>1. /\ Len(q) \in Nat /\ DOMAIN q = 1..Len(q) /\ DOMAIN a = 1..(Len(q) + 1)
      /\ a[Len(q) + 1] = m /\ \A k \in 1..Len(q) : a[k] = q[k]
  OBVIOUS
<1> HIDE DEF a
<1>2. \A k \in DOMAIN a : k \in DOMAIN q \/ k = Len(q) + 1
  BY <1>1
<1>3. HopsFit(a, i, b)
  BY <1>1, <1>2 DEF HopsFit
<1> QED BY <1>3 DEF a

\* A packet less.
LEMMA TailHops ==
  ASSUME NEW q \in Seq(Messages), q # <<>>, NEW i, NEW b, HopsFit(q, i, b)
  PROVE  HopsFit(Tail(q), i, b) /\ (Head(q).id = i => Head(q).hops <= b)
<1> DEFINE t == Tail(q)
<1>1. /\ Len(q) \in Nat /\ Len(q) > 0 /\ DOMAIN q = 1..Len(q) /\ DOMAIN t = 1..(Len(q) - 1)
      /\ q[1] = Head(q) /\ \A k \in 1..(Len(q) - 1) : t[k] = q[k + 1]
  OBVIOUS
<1> HIDE DEF t
<1>2. \A k \in DOMAIN t : k + 1 \in DOMAIN q /\ t[k] = q[k + 1]
  BY <1>1
<1>3. 1 \in DOMAIN q
  BY <1>1
<1>4. HopsFit(t, i, b) /\ (Head(q).id = i => Head(q).hops <= b)
  BY <1>1, <1>2, <1>3 DEF HopsFit
<1> QED BY <1>4 DEF t

\* The links by which a packet that came by l goes on lead away from s.
LEMMA RecipientsDown ==
  ASSUME net \in Networks, NEW s \in Nodes, NEW d, NEW w, Rooted(s, d, w),
         NEW l \in net.links, Down(l, d)
  PROVE  /\ l.from # l.to /\ l \notin Recipients(l.to, {l})
         /\ \A k \in net.links : k \in Recipients(l.to, {l}) <=> k.from = l.to /\ Down(k, d)
<1>1. \A k \in net.links : d[k.from] \in Nat /\ d[k.to] \in Nat
  BY NetFacts DEF Rooted
<1>2. l.from # l.to
  BY <1>1 DEF Down
<1>3. ASSUME NEW k \in net.links, k.from = l.to, Down(k, d) PROVE ~SameSocket(k, l)
  <2>1. d[k.to] = d[l.from] + 2
    BY <1>1, <1>3 DEF Down
  <2>2. k.to # l.from /\ k.to # l.to
    BY <1>1, <1>3, <2>1 DEF Down
  <2> QED BY <2>2 DEF SameSocket
<1>4. ASSUME NEW k \in net.links, k.from = l.to, ~SameSocket(k, l) PROVE Down(k, d)
  BY <1>4 DEF Rooted
<1> QED BY <1>2, <1>3, <1>4 DEF Recipients

\* All links out of the source do.
LEMMA SourceDown ==
  ASSUME net \in Networks, NEW s \in Nodes, NEW d, NEW w, Rooted(s, d, w)
  PROVE  \A k \in net.links : k \in Recipients(s, {}) <=> k.from = s /\ Down(k, d)
<1>1. \A k \in net.links : d[k.from] \in Nat /\ d[k.to] \in Nat
  BY NetFacts DEF Rooted
<1>2. ASSUME NEW k \in net.links, k.from = s PROVE Down(k, d)
  BY <1>1, <1>2 DEF Rooted, Up
<1> QED BY <1>2 DEF Recipients

\* The hop limit does not stop a packet on such a link.
LEMMA HopsLeft ==
  ASSUME net \in Networks, NEW s \in Nodes, NEW d, NEW w, Rooted(s, d, w), HopsSuffice,
         NEW l \in net.links, Down(l, d), NEW p \in Packets, p.hops <= d[l.from] + 1
  PROVE  p.hops + 1 <= MaxHops /\ p.hops + 1 <= d[l.to] + 1
<1>1. /\ d[l.to] \in Nat /\ d[l.from] \in Nat /\ d[l.to] < Cardinality(Nodes)
      /\ Cardinality(Nodes) \in Nat
  BY NetFacts, RelayAssumption, FS_CardinalityType DEF Rooted
<1> QED BY <1>1, Constants DEF HopsSuffice, Down, Packets

\* receive_read() reads a packet: what comes of packet i.
LEMMA CarriedRead ==
  ASSUME TypeOK, NEW l \in net.links, Receive(l), NEW s \in Nodes, NEW d, NEW w, Rooted(s, d, w),
         NEW i, Carried(i, s, d)
  PROVE  Carried(i, s, d)'
<1> DEFINE m == Head(flying[l])
           p == Parse(m, l.format, mlat[l])
           queues == [flying EXCEPT ![l] = Tail(@)]
           R == Recipients(l.to, {l})
<1>1. /\ m \in Messages /\ p \in Packets /\ p.id = m.id /\ p.hops <= m.hops
      /\ flying[l] \in Seq(Messages) /\ flying[l] # <<>>
      /\ queues \in [net.links -> Seq(Messages)]
      /\ queues[l] = Tail(flying[l]) /\ \A k \in net.links \ {l} : queues[k] = flying[k]
      /\ l.to \in Nodes /\ Relayed(l.to, p, {l}, queues)
  BY ReadEffect
<1>2. net' = net /\ breaks' = breaks
  BY DEF Receive
<1>3. net \in Networks /\ \A k \in net.links : d[k.from] \in Nat /\ d[k.to] \in Nat /\ k.from \in Nodes /\ k.to \in Nodes
  BY NetFacts DEF Rooted, TypeOK
<1>4. Ahead(i, d) /\ (breaks = 0 /\ HopsSuffice => Complete(i, s, d))
  BY DEF Carried
<1> HIDE DEF m, p, queues
<1>5. /\ \A k \in net.links : Has(queues[k], i) <=> Has(flying[k], i) /\ ~(k = l /\ i = m.id)
      /\ \A k \in net.links : Once(queues[k], i)
      /\ i = m.id => Has(flying[l], i)
  <2>1. /\ Has(flying[l], i) <=> Has(Tail(flying[l]), i) \/ m.id = i
        /\ Once(flying[l], i) => Once(Tail(flying[l]), i) /\ (m.id = i => ~Has(Tail(flying[l]), i))
    BY <1>1, TailHas DEF m
  <2>2. \A k \in net.links : Once(flying[k], i)
    BY <1>4 DEF Ahead
  <2> QED BY <1>1, <2>1, <2>2
<1>6. i = m.id => Down(l, d) /\ Has(seen[l.from], i) /\ ~Has(seen[l.to], i)
  BY <1>4, <1>5 DEF Ahead
<1>7. ASSUME Complete(i, s, d)
      PROVE  /\ \A k \in net.links : HopsFit(queues[k], i, d[k.from] + 1)
             /\ i = m.id => p.hops <= d[l.from] + 1
  <2>1. \A k \in net.links : HopsFit(flying[k], i, d[k.from] + 1)
    BY <1>7 DEF Complete
  <2>2. HopsFit(queues[l], i, d[l.from] + 1) /\ (m.id = i => m.hops <= d[l.from] + 1)
    BY <1>1, <2>1, TailHops DEF m
  <2>3. p.hops \in Nat /\ m.hops \in Nat
    BY <1>1 DEF Packets, Messages
  <2>4. i = m.id => p.hops <= d[l.from] + 1
    BY <1>1, <1>3, <2>2, <2>3
  <2> QED BY <1>1, <2>1, <2>2, <2>4
<1>8. CASE p.hops + 1 > MaxHops
  <2>1. flying' = queues /\ seen' = seen
    BY <1>1, <1>8, RelayedDrops
  <2>2. Ahead(i, d)'
    BY <1>2, <1>4, <1>5, <2>1 DEF Ahead, Down
  <2>3. ASSUME breaks' = 0, HopsSuffice PROVE Complete(i, s, d)'
    <3>1. Complete(i, s, d)
      BY <1>2, <1>4, <2>3
    <3>2. i # m.id
      <4> SUFFICES ASSUME i = m.id PROVE FALSE
        OBVIOUS
      <4>1. p.hops + 1 <= MaxHops /\ p.hops \in Nat
        BY <1>1, <1>3, <1>6, <1>7, <2>3, <3>1, HopsLeft DEF Packets
      <4> QED BY <1>8, <4>1, Constants
    <3> QED BY <1>2, <1>5, <1>7, <2>1, <3>1, <3>2 DEF Complete, Down
  <2> QED BY <2>2, <2>3 DEF Carried, HopsSuffice
<1>9. CASE p.hops + 1 <= MaxHops
  <2>1. /\ \A k \in net.links \ R : flying'[k] = queues[k]
        /\ \A k \in R : Has(flying'[k], i) <=> Has(queues[k], i) \/ i = m.id
        /\ \A k \in R : Once(queues[k], i) /\ (i = m.id => ~Has(queues[k], i)) => Once(flying'[k], i)
        /\ \A k \in R : flying'[k] = Append(queues[k], Serialize(Counted(p), k.format))
    <3>1. \A k \in net.links \ R : flying'[k] = queues[k]
      BY <1>1, <1>9, SendEffect
    <3>2. \A k \in R : flying'[k] = Append(queues[k], Serialize(Counted(p), k.format))
      BY <1>1, <1>9, SendEffect
    <3>3. \A k \in R : \A j : Has(flying'[k], j) <=> Has(queues[k], j) \/ j = p.id
      BY <1>1, <1>9, SendEffect
    <3>4. \A k \in R : \A j : Once(queues[k], j) /\ (j = p.id => ~Has(queues[k], j)) => Once(flying'[k], j)
      BY <1>1, <1>9, SendEffect
    <3> QED BY <1>1, <3>1, <3>2, <3>3, <3>4, Zenon
  <2>2. /\ Record(l.to, p) /\ Counted(p) \in Packets /\ Counted(p).hops = p.hops + 1
    BY <1>1, <1>9, RelayedSends
  <2>3. /\ \A n \in Nodes \ {l.to} : seen'[n] = seen[n]
        /\ Has(seen'[l.to], i) <=> Has(seen[l.to], i) \/ i = m.id
        /\ Once(seen[l.to], i) /\ (i = m.id => ~Has(seen[l.to], i)) => Once(seen'[l.to], i)
    <3>1. /\ \A n \in Nodes \ {l.to} : seen'[n] = seen[n]
          /\ \A j : Has(seen'[l.to], j) <=> Has(seen[l.to], j) \/ j = p.id
          /\ \A j : Once(seen[l.to], j) /\ (j = p.id => ~Has(seen[l.to], j)) => Once(seen'[l.to], j)
      BY <1>1, <2>2, RecordEffect
    <3> QED BY <1>1, <3>1, Zenon
  <2>4. \A n \in Nodes : Has(seen'[n], i) <=> Has(seen[n], i) \/ (n = l.to /\ i = m.id)
    BY <2>3
  <2>5. \A k \in net.links : Has(flying'[k], i) <=> Has(queues[k], i) \/ (k \in R /\ i = m.id)
    BY <2>1
  <2>6. i = m.id => /\ l.from # l.to /\ l \notin R
                    /\ \A k \in net.links : k \in R <=> k.from = l.to /\ Down(k, d)
    BY <1>3, <1>6, RecipientsDown
  <2>7. R \subseteq net.links
    BY DEF Recipients
  <2> HIDE DEF R
  <2>8. i = m.id => \A k \in R : ~Has(flying[k], i) /\ ~Has(seen[k.to], i)
    BY <1>4, <1>6, <2>6, <2>7 DEF Ahead
  <2>9. \A k \in net.links : Once(flying'[k], i)
    BY <1>5, <2>1, <2>7, <2>8
  <2>10. \A n \in Nodes : Once(seen'[n], i)
    BY <1>1, <1>4, <1>6, <2>3 DEF Ahead
  <2>11. \A k \in net.links : Has(flying'[k], i) => Down(k, d) /\ Has(seen'[k.from], i) /\ ~Has(seen'[k.to], i)
    <3>1. CASE i # m.id
      BY <1>3, <1>4, <1>5, <2>4, <2>5, <3>1 DEF Ahead
    <3>2. CASE i = m.id
      <4>1. ASSUME NEW k \in R
            PROVE  Down(k, d) /\ Has(seen'[k.from], i) /\ ~Has(seen'[k.to], i)
        <5>1. k \in net.links /\ k.from = l.to /\ Down(k, d)
          BY <2>6, <2>7, <3>2
        <5>2. k.to # l.to
          BY <1>3, <5>1 DEF Down
        <5> QED BY <1>3, <2>4, <2>8, <3>2, <5>1, <5>2
      <4>2. ASSUME NEW k \in net.links, Has(queues[k], i), k \notin R
            PROVE  Down(k, d) /\ Has(seen'[k.from], i) /\ ~Has(seen'[k.to], i)
        <5>1. k # l /\ Down(k, d) /\ Has(seen[k.from], i) /\ ~Has(seen[k.to], i)
          BY <1>4, <1>5, <3>2, <4>2 DEF Ahead
        <5>2. k.to # l.to
          BY <1>6, <3>2, <5>1 DEF Rooted
        <5> QED BY <1>3, <2>4, <5>1, <5>2
      <4> QED BY <2>5, <4>1, <4>2
    <3> QED BY <3>1, <3>2
  <2>12. \A k \in net.links : Down(k, d) /\ Has(seen'[k.to], i) => Has(seen'[k.from], i)
    <3>1. CASE i # m.id
      BY <1>3, <1>4, <2>4, <3>1 DEF Ahead
    <3>2. CASE i = m.id
      <4> SUFFICES ASSUME NEW k \in net.links, Down(k, d), Has(seen'[k.to], i) PROVE Has(seen'[k.from], i)
        OBVIOUS
      <4>1. CASE k.to = l.to
        <5>1. k = l
          BY <1>6, <3>2, <4>1 DEF Rooted
        <5> QED BY <1>3, <1>6, <2>4, <3>2, <5>1
      <4>2. CASE k.to # l.to
        BY <1>3, <1>4, <2>4, <4>2 DEF Ahead
      <4> QED BY <4>1, <4>2
    <3> QED BY <3>1, <3>2
  <2>13. Ahead(i, d)'
    BY <1>2, <2>9, <2>10, <2>11, <2>12 DEF Ahead, Down
  <2>14. ASSUME breaks' = 0, HopsSuffice PROVE Complete(i, s, d)'
    <3>1. Complete(i, s, d)
      BY <1>2, <1>4, <2>14
    <3>2. Has(seen'[s], i)
      BY <2>4, <3>1 DEF Complete
    <3>3. ASSUME NEW k \in net.links, Down(k, d), Has(seen'[k.from], i)
          PROVE  Has(seen'[k.to], i) \/ Has(flying'[k], i)
      <4>1. CASE Has(seen[k.from], i)
        <5>1. Has(seen[k.to], i) \/ Has(flying[k], i)
          BY <3>1, <3>3, <4>1 DEF Complete
        <5>2. CASE k = l /\ i = m.id
          BY <1>1, <2>4, <5>2
        <5> QED BY <1>3, <1>5, <2>4, <2>5, <5>1, <5>2
      <4>2. CASE k.from = l.to /\ i = m.id
        BY <2>5, <2>6, <3>3, <4>2
      <4> QED BY <1>3, <2>4, <3>3, <4>1, <4>2
    <3>4. ASSUME NEW k \in net.links PROVE HopsFit(flying'[k], i, d[k.from] + 1)
      <4>1. CASE k \notin R
        BY <1>7, <2>1, <3>1, <4>1
      <4>2. CASE k \in R /\ i = m.id
        <5>1. k.from = l.to /\ Down(l, d) /\ p.hops <= d[l.from] + 1
          BY <1>6, <1>7, <2>6, <3>1, <4>2
        <5>2. p.hops + 1 <= d[k.from] + 1 /\ p.hops \in Nat
          BY <1>1, <1>3, <2>14, <5>1, HopsLeft DEF Packets
        <5> DEFINE x == Serialize(Counted(p), k.format)
        <5>3. x \in Messages /\ x.hops <= Counted(p).hops
          BY <1>3, <2>2, NetFacts, SerializeType
        <5>4. x.hops <= d[k.from] + 1
          <6> HIDE DEF x
          <6>1. x.hops \in Nat /\ Counted(p).hops = p.hops + 1 /\ d[k.from] \in Nat
            BY <1>3, <2>2, <5>3 DEF Messages
          <6> QED BY <5>2, <5>3, <6>1
        <5> HIDE DEF x
        <5>5. HopsFit(queues[k], i, d[k.from] + 1) /\ queues[k] \in Seq(Messages)
          BY <1>1, <1>7, <3>1
        <5>6. flying'[k] = Append(queues[k], x) /\ d[k.from] + 1 \in Nat
          BY <1>3, <2>1, <4>2 DEF x
        <5> QED BY <5>3, <5>4, <5>5, <5>6, AppendHops
      <4>3. CASE k \in R /\ i # m.id
        <5> DEFINE x == Serialize(Counted(p), k.format)
        <5>1. x \in Messages /\ x.id = Counted(p).id
          BY <1>3, <2>2, NetFacts, SerializeType
        <5>2. Counted(p).id = m.id
          BY <1>1, <1>9, RelayedSends
        <5> HIDE DEF x
        <5>3. HopsFit(queues[k], i, d[k.from] + 1) /\ queues[k] \in Seq(Messages) /\ x.id # i
          BY <1>1, <1>7, <3>1, <4>3, <5>1, <5>2
        <5>4. flying'[k] = Append(queues[k], x)
          BY <2>1, <4>3 DEF x
        <5> QED BY <1>3, <5>1, <5>3, <5>4, AppendHops
      <4> QED BY <4>1, <4>2, <4>3
    <3> QED BY <1>2, <3>2, <3>3, <3>4 DEF Complete, Down
  <2> QED BY <2>13, <2>14 DEF Carried, HopsSuffice
<1>10. p.hops \in Nat
  BY <1>1 DEF Packets
<1> QED BY <1>8, <1>9, <1>10, Constants

\* A packet enters: what comes of those that entered before.
LEMMA EnterEffect ==
  ASSUME TypeOK, NEW n \in Nodes, Enter(n)
  PROVE  LET p == [id |-> entered', hops |-> 0, mlat_timestamp |-> clock']
         IN  /\ entered' = entered + 1 /\ clock' \in Nat /\ \E gap \in Gaps : clock' = clock + gap
             /\ p \in Packets /\ p.id = entered + 1 /\ p.hops = 0 /\ p.mlat_timestamp = clock'
             /\ Relayed(n, p, {}, flying) /\ n \in net.sources
             /\ UNCHANGED <<net, breaks, mlat>>
<1> DEFINE p == [id |-> entered', hops |-> 0, mlat_timestamp |-> clock']
<1>1. /\ entered' = entered + 1 /\ (\E gap \in Gaps : clock' = clock + gap) /\ Relayed(n, p, {}, flying)
      /\ n \in net.sources /\ UNCHANGED <<net, breaks, mlat>>
  BY DEF Enter
<1>2. entered' \in Nat /\ clock' \in Nat
  BY <1>1, RelayAssumption DEF TypeOK
<1>3. p \in Packets /\ p.id = entered + 1 /\ p.hops = 0 /\ p.mlat_timestamp = clock'
  BY <1>1, <1>2 DEF Packets
<1> HIDE DEF p
<1> QED BY <1>1, <1>2, <1>3 DEF p

\* Types hold at first.
LEMMA TypeInit == Init => TypeOK
<1> SUFFICES ASSUME Init PROVE TypeOK
  OBVIOUS
<1>1. clock \in Nat
  BY RelayAssumption DEF Init
<1>2. flying \in [net.links -> Seq(Messages)] /\ seen \in [Nodes -> Seq(Records)]
  BY DEF Init
<1>3. mlat \in [net.links -> States]
  BY DEF Init, FreshState, States
<1> QED BY <1>1, <1>2, <1>3 DEF Init, TypeOK

\* Relaying keeps the types.
LEMMA TypeRelayed ==
  ASSUME TypeOK, NEW n \in Nodes, NEW p \in Packets, NEW via,
         NEW queues \in [net.links -> Seq(Messages)], Relayed(n, p, via, queues)
  PROVE  flying' \in [net.links -> Seq(Messages)] /\ seen' \in [Nodes -> Seq(Records)]
<1>1. CASE p.hops + 1 > MaxHops
  BY <1>1, RelayedDrops DEF TypeOK
<1>2. CASE p.hops + 1 <= MaxHops
  <2>1. flying' \in [net.links -> Seq(Messages)]
    BY <1>2, SendEffect
  <2>2. Record(n, p)
    BY <1>2, RelayedSends
  <2> QED BY <2>1, <2>2, RecordEffect
<1>3. p.hops \in Nat
  BY DEF Packets
<1> QED BY <1>1, <1>2, <1>3, Constants

\* So does every step.
LEMMA TypeNext == TypeOK /\ [Next]_vars => TypeOK'
<1> SUFFICES ASSUME TypeOK, [Next]_vars PROVE TypeOK'
  OBVIOUS
<1>1. ASSUME NEW n \in Nodes, Enter(n) PROVE TypeOK'
  <2>1. flying \in [net.links -> Seq(Messages)]
    BY DEF TypeOK
  <2> DEFINE p == [id |-> entered', hops |-> 0, mlat_timestamp |-> clock']
  <2>2. /\ entered' = entered + 1 /\ clock' \in Nat /\ p \in Packets /\ Relayed(n, p, {}, flying)
        /\ UNCHANGED <<net, breaks, mlat>>
    BY <1>1, EnterEffect
  <2> HIDE DEF p
  <2>3. flying' \in [net.links -> Seq(Messages)] /\ seen' \in [Nodes -> Seq(Records)]
    BY <2>1, <2>2, TypeRelayed
  <2> QED BY <2>2, <2>3 DEF TypeOK
<1>2. ASSUME NEW l \in net.links, Receive(l) PROVE TypeOK'
  <2> DEFINE p == Parse(Head(flying[l]), l.format, mlat[l])
             queues == [flying EXCEPT ![l] = Tail(@)]
  <2>1. /\ p \in Packets /\ queues \in [net.links -> Seq(Messages)] /\ l.to \in Nodes
        /\ Relayed(l.to, p, {l}, queues) /\ mlat' \in [net.links -> States]
    BY <1>2, ReadEffect
  <2> HIDE DEF p, queues
  <2>2. flying' \in [net.links -> Seq(Messages)] /\ seen' \in [Nodes -> Seq(Records)]
    BY <2>1, TypeRelayed
  <2>3. UNCHANGED <<net, clock, entered, breaks>>
    BY <1>2 DEF Receive
  <2> QED BY <2>1, <2>2, <2>3 DEF TypeOK
<1>3. ASSUME NEW l \in net.links, Break(l) PROVE TypeOK'
  <2>1. breaks' = breaks + 1 /\ UNCHANGED <<net, clock, entered, seen>>
    BY <1>3 DEF Break
  <2>2. flying' \in [net.links -> Seq(Messages)]
    BY <1>3 DEF Break, TypeOK
  <2>3. mlat' \in [net.links -> States]
    BY <1>3 DEF Break, TypeOK, FreshState, States
  <2> QED BY <2>1, <2>2, <2>3 DEF TypeOK
<1>4. ASSUME UNCHANGED vars PROVE TypeOK'
  BY <1>4 DEF vars, TypeOK
<1> QED BY <1>1, <1>2, <1>3, <1>4 DEF Next, Idle

\* Relaying invents no packets.
LEMMA IdsRelayed ==
  ASSUME TypeOK, IdsKnown, NEW n \in Nodes, NEW p \in Packets, NEW via,
         NEW queues \in [net.links -> Seq(Messages)], Relayed(n, p, via, queues),
         \A l \in net.links : \A i : Has(queues[l], i) => i \in 1..entered,
         p.id \in 1..entered', entered' \in {entered, entered + 1}
  PROVE  /\ \A l \in net.links : \A i : Has(flying'[l], i) => i \in 1..entered'
         /\ \A m \in Nodes : \A i : Has(seen'[m], i) => i \in 1..entered'
<1>1. 1..entered \subseteq 1..entered'
  BY DEF TypeOK
<1>2. CASE p.hops + 1 > MaxHops
  <2>1. flying' = queues /\ seen' = seen
    BY <1>2, RelayedDrops
  <2> QED BY <1>1, <2>1 DEF IdsKnown
<1>3. CASE p.hops + 1 <= MaxHops
  <2>1. \A l \in net.links \ Recipients(n, via) : flying'[l] = queues[l]
    BY <1>3, SendEffect
  <2>2. \A l \in Recipients(n, via) : \A i : Has(flying'[l], i) <=> Has(queues[l], i) \/ i = p.id
    BY <1>3, SendEffect
  <2>3. Record(n, p)
    BY <1>3, RelayedSends
  <2>4. /\ \A m \in Nodes \ {n} : seen'[m] = seen[m]
        /\ \A i : Has(seen'[n], i) <=> Has(seen[n], i) \/ i = p.id
    BY <2>3, RecordEffect
  <2>5. Recipients(n, via) \subseteq net.links
    BY DEF Recipients
  <2>6. \A l \in net.links : \A i : Has(flying'[l], i) => i \in 1..entered'
    BY <1>1, <2>1, <2>2, <2>5
  <2>7. \A m \in Nodes : \A i : Has(seen'[m], i) => i \in 1..entered'
    BY <1>1, <2>4 DEF IdsKnown
  <2> QED BY <2>6, <2>7
<1>4. p.hops \in Nat
  BY DEF Packets
<1> QED BY <1>2, <1>3, <1>4, Constants

\* What breaks and what is dropped leaves packets out, never adds any.
LEMMA BreakEffect ==
  ASSUME TypeOK, NEW l \in net.links, Break(l)
  PROVE  /\ \A k \in net.links : flying'[k] = flying[k] \/ flying'[k] = <<>>
         /\ breaks' = breaks + 1 /\ UNCHANGED <<net, clock, entered, seen>>
BY DEF Break

\* Nothing is in an empty sequence.
LEMMA EmptyHas == \A i : ~Has(<<>>, i) /\ Once(<<>>, i)
BY DEF Has, Once

\* Nor does any step.
LEMMA IdsNext == TypeOK /\ IdsKnown /\ [Next]_vars => IdsKnown'
<1> SUFFICES ASSUME TypeOK, IdsKnown, [Next]_vars PROVE IdsKnown'
  OBVIOUS
<1>1. ASSUME NEW n \in Nodes, Enter(n) PROVE IdsKnown'
  <2> DEFINE p == [id |-> entered', hops |-> 0, mlat_timestamp |-> clock']
  <2>1. /\ entered' = entered + 1 /\ p \in Packets /\ Relayed(n, p, {}, flying) /\ p.id = entered + 1
        /\ net' = net
    BY <1>1, EnterEffect
  <2> HIDE DEF p
  <2>2. p.id \in 1..entered' /\ entered' \in {entered, entered + 1}
    BY <2>1 DEF TypeOK
  <2>3. /\ flying \in [net.links -> Seq(Messages)]
        /\ \A l \in net.links : \A i : Has(flying[l], i) => i \in 1..entered
    BY DEF TypeOK, IdsKnown
  <2> QED BY <2>1, <2>2, <2>3, IdsRelayed DEF IdsKnown
<1>2. ASSUME NEW l \in net.links, Receive(l) PROVE IdsKnown'
  <2> DEFINE m == Head(flying[l])
             p == Parse(m, l.format, mlat[l])
             queues == [flying EXCEPT ![l] = Tail(@)]
  <2>1. /\ p \in Packets /\ p.id = m.id /\ queues \in [net.links -> Seq(Messages)] /\ l.to \in Nodes
        /\ flying[l] \in Seq(Messages) /\ flying[l] # <<>>
        /\ queues[l] = Tail(flying[l]) /\ \A k \in net.links \ {l} : queues[k] = flying[k]
        /\ Relayed(l.to, p, {l}, queues)
    BY <1>2, ReadEffect
  <2>2. UNCHANGED <<net, entered>>
    BY <1>2 DEF Receive
  <2> HIDE DEF p, queues, m
  <2>3. \A i : Has(flying[l], i) <=> Has(Tail(flying[l]), i) \/ m.id = i
    BY <2>1, TailHas DEF m
  <2>4. p.id \in 1..entered' /\ entered' \in {entered, entered + 1}
    BY <2>1, <2>2, <2>3 DEF IdsKnown
  <2>5. \A k \in net.links : \A i : Has(queues[k], i) => i \in 1..entered
    BY <2>1, <2>3 DEF IdsKnown
  <2> QED BY <2>1, <2>2, <2>4, <2>5, IdsRelayed DEF IdsKnown
<1>3. ASSUME NEW l \in net.links, Break(l) PROVE IdsKnown'
  BY <1>3, BreakEffect, EmptyHas DEF IdsKnown
<1>4. ASSUME UNCHANGED vars PROVE IdsKnown'
  BY <1>4 DEF vars, IdsKnown
<1> QED BY <1>1, <1>2, <1>3, <1>4 DEF Next, Idle

\* A packet that enters does nothing to the others.
LEMMA CarriedEnter ==
  ASSUME TypeOK, NEW n \in Nodes, Enter(n), NEW s \in Nodes, NEW d, NEW w, Rooted(s, d, w),
         NEW i \in 1..entered, Carried(i, s, d)
  PROVE  Carried(i, s, d)'
<1> DEFINE p == [id |-> entered', hops |-> 0, mlat_timestamp |-> clock']
           R == Recipients(n, {})
<1>1. /\ entered' = entered + 1 /\ p \in Packets /\ Relayed(n, p, {}, flying) /\ p.id = entered + 1
      /\ UNCHANGED <<net, breaks>>
  BY EnterEffect
<1>2. i # p.id
  BY <1>1 DEF TypeOK
<1>3. flying \in [net.links -> Seq(Messages)] /\ \A k \in net.links : d[k.from] + 1 \in Nat
  BY NetFacts DEF TypeOK, Rooted
<1> HIDE DEF p
<1>4. CASE p.hops + 1 > MaxHops
  <2>1. flying' = flying /\ seen' = seen
    BY <1>1, <1>4, RelayedDrops
  <2> QED BY <1>1, <2>1 DEF Carried, Ahead, Complete, Down, HopsSuffice
<1>5. CASE p.hops + 1 <= MaxHops
  <2>1. \A k \in net.links \ R : flying'[k] = flying[k]
    BY <1>1, <1>3, <1>5, SendEffect
  <2>2. \A k \in R : flying'[k] = Append(flying[k], Serialize(Counted(p), k.format))
    BY <1>1, <1>3, <1>5, SendEffect
  <2>3. \A k \in R : \A j : Has(flying'[k], j) <=> Has(flying[k], j) \/ j = p.id
    BY <1>1, <1>3, <1>5, SendEffect
  <2>4. \A k \in R : \A j : Once(flying[k], j) /\ (j = p.id => ~Has(flying[k], j)) => Once(flying'[k], j)
    BY <1>1, <1>3, <1>5, SendEffect
  <2>5. Record(n, p) /\ Counted(p) \in Packets /\ Counted(p).id = p.id
    BY <1>1, <1>3, <1>5, RelayedSends
  <2>6. /\ \A m \in Nodes \ {n} : seen'[m] = seen[m]
        /\ \A j : Has(seen'[n], j) <=> Has(seen[n], j) \/ j = p.id
        /\ \A j : Once(seen[n], j) /\ (j = p.id => ~Has(seen[n], j)) => Once(seen'[n], j)
    BY <1>1, <2>5, RecordEffect
  <2>7. R \subseteq net.links
    BY DEF Recipients
  <2> HIDE DEF R
  <2>8. /\ \A k \in net.links : Has(flying'[k], i) <=> Has(flying[k], i)
        /\ \A k \in net.links : Once(flying[k], i) => Once(flying'[k], i)
    BY <1>2, <2>1, <2>3, <2>4, <2>7
  <2>9. /\ \A m \in Nodes : Has(seen'[m], i) <=> Has(seen[m], i)
        /\ \A m \in Nodes : Once(seen[m], i) => Once(seen'[m], i)
    BY <1>2, <2>6
  <2>10. ASSUME NEW k \in net.links, HopsFit(flying[k], i, d[k.from] + 1)
         PROVE  HopsFit(flying'[k], i, d[k.from] + 1)
    <3>1. CASE k \notin R
      BY <2>1, <2>10, <3>1
    <3>2. CASE k \in R
      <4> DEFINE x == Serialize(Counted(p), k.format)
      <4>1. x \in Messages /\ x.id = Counted(p).id
        BY <2>5, NetFacts, SerializeType DEF TypeOK
      <4> HIDE DEF x
      <4>2. x.id # i /\ flying[k] \in Seq(Messages) /\ flying'[k] = Append(flying[k], x)
        BY <1>2, <1>3, <2>2, <2>5, <3>2, <4>1 DEF x
      <4> QED BY <1>3, <2>10, <4>1, <4>2, AppendHops
    <3> QED BY <3>1, <3>2
  <2>11. \A k \in net.links : k.from \in Nodes /\ k.to \in Nodes
    BY NetFacts DEF TypeOK
  <2>12. Ahead(i, d)'
    BY <1>1, <2>8, <2>9, <2>11 DEF Carried, Ahead, Down
  <2>13. Complete(i, s, d) => Complete(i, s, d)'
    BY <1>1, <2>8, <2>9, <2>10, <2>11 DEF Complete, Down
  <2> QED BY <1>1, <2>12, <2>13 DEF Carried, HopsSuffice
<1>6. p.hops \in Nat
  BY <1>1 DEF Packets
<1> QED BY <1>4, <1>5, <1>6, Constants

\* Nor has it been anywhere before.
LEMMA CarriedNew ==
  ASSUME TypeOK, IdsKnown, NEW s \in Nodes, Enter(s), NEW d, NEW w, Rooted(s, d, w),
         NEW i, i = entered + 1
  PROVE  Carried(i, s, d)'
<1> DEFINE p == [id |-> entered', hops |-> 0, mlat_timestamp |-> clock']
           R == Recipients(s, {})
<1>1. /\ entered' = i /\ p \in Packets /\ Relayed(s, p, {}, flying) /\ p.id = i /\ p.hops = 0
      /\ UNCHANGED <<net, breaks>>
  BY EnterEffect
<1>2. /\ \A k \in net.links : ~Has(flying[k], i)
      /\ \A n \in Nodes : ~Has(seen[n], i)
  <2>1. i \notin 1..entered
    BY DEF TypeOK
  <2> QED BY <2>1 DEF IdsKnown
<1>3. /\ flying \in [net.links -> Seq(Messages)]
      /\ \A k \in net.links : d[k.from] \in Nat /\ d[k.to] \in Nat /\ k.from \in Nodes /\ k.to \in Nodes
  BY NetFacts DEF TypeOK, Rooted
<1>4. \A q : ~Has(q, i) => Once(q, i) /\ \A b : HopsFit(q, i, b)
  BY DEF Has, Once, HopsFit
<1>5. MaxHops \in Nat /\ (HopsSuffice => MaxHops > 0)
  <2>1. Cardinality(Nodes) \in Nat /\ Cardinality(Nodes) # 0
    BY RelayAssumption, FS_CardinalityType, FS_EmptySet
  <2> QED BY <2>1, Constants DEF HopsSuffice
<1> HIDE DEF p
<1>6. CASE p.hops + 1 > MaxHops
  <2>1. flying' = flying /\ seen' = seen
    BY <1>1, <1>6, RelayedDrops
  <2>2. ~HopsSuffice
    BY <1>1, <1>5, <1>6
  <2>3. Ahead(i, d)'
    BY <1>1, <1>2, <1>3, <1>4, <2>1 DEF Ahead
  <2> QED BY <1>1, <2>2, <2>3 DEF Carried, HopsSuffice
<1>7. CASE p.hops + 1 <= MaxHops
  <2>1. \A k \in net.links \ R : flying'[k] = flying[k]
    BY <1>1, <1>3, <1>7, SendEffect
  <2>2. \A k \in R : flying'[k] = Append(flying[k], Serialize(Counted(p), k.format))
    BY <1>1, <1>3, <1>7, SendEffect
  <2>3. \A k \in R : \A j : Has(flying'[k], j) <=> Has(flying[k], j) \/ j = p.id
    BY <1>1, <1>3, <1>7, SendEffect
  <2>4. \A k \in R : \A j : Once(flying[k], j) /\ (j = p.id => ~Has(flying[k], j)) => Once(flying'[k], j)
    BY <1>1, <1>3, <1>7, SendEffect
  <2>5. Record(s, p) /\ Counted(p) \in Packets /\ Counted(p).hops = 1
    BY <1>1, <1>3, <1>7, RelayedSends
  <2>6. /\ \A m \in Nodes \ {s} : seen'[m] = seen[m]
        /\ \A j : Has(seen'[s], j) <=> Has(seen[s], j) \/ j = p.id
        /\ \A j : Once(seen[s], j) /\ (j = p.id => ~Has(seen[s], j)) => Once(seen'[s], j)
    BY <1>1, <2>5, RecordEffect
  <2>7. \A k \in net.links : k \in R <=> k.from = s /\ Down(k, d)
    BY SourceDown DEF TypeOK
  <2>8. R \subseteq net.links
    BY DEF Recipients
  <2> HIDE DEF R
  <2>9. \A k \in net.links : Has(flying'[k], i) <=> k \in R
    BY <1>1, <1>2, <2>1, <2>3
  <2>10. \A n \in Nodes : Has(seen'[n], i) <=> n = s
    BY <1>1, <1>2, <2>6
  <2>11. \A k \in net.links : Once(flying'[k], i)
    BY <1>1, <1>2, <1>4, <2>1, <2>4, <2>8
  <2>12. \A n \in Nodes : Once(seen'[n], i)
    BY <1>1, <1>2, <1>4, <2>6
  <2>13. \A k \in net.links : Down(k, d) => k.to # s
    BY DEF Rooted
  <2>14. Ahead(i, d)'
    BY <1>1, <1>3, <2>7, <2>9, <2>10, <2>11, <2>12, <2>13 DEF Ahead, Down
  <2>15. ASSUME NEW k \in net.links PROVE HopsFit(flying'[k], i, d[k.from] + 1)
    <3>1. CASE k \notin R
      BY <1>2, <1>4, <2>1, <3>1
    <3>2. CASE k \in R
      <4> DEFINE x == Serialize(Counted(p), k.format)
      <4>1. x \in Messages /\ x.hops <= Counted(p).hops
        BY <2>5, NetFacts, SerializeType DEF TypeOK
      <4> HIDE DEF x
      <4>2. x.hops <= d[k.from] + 1 /\ d[k.from] + 1 \in Nat
        BY <1>3, <2>5, <4>1 DEF Messages
      <4>3. flying[k] \in Seq(Messages) /\ flying'[k] = Append(flying[k], x) /\ HopsFit(flying[k], i, d[k.from] + 1)
        BY <1>2, <1>3, <1>4, <2>2, <3>2 DEF x
      <4> QED BY <4>1, <4>2, <4>3, AppendHops
    <3> QED BY <3>1, <3>2
  <2>16. Complete(i, s, d)'
    BY <1>1, <1>3, <2>7, <2>9, <2>10, <2>15 DEF Complete, Down
  <2> QED BY <1>1, <2>14, <2>16 DEF Carried
<1> QED BY <1>1, <1>5, <1>6, <1>7

\* A break may leave a packet out and nothing else.
LEMMA CarriedBreak ==
  ASSUME TypeOK, NEW l \in net.links, Break(l), NEW s, NEW d, NEW i, Carried(i, s, d)
  PROVE  Carried(i, s, d)'
<1>1. /\ \A k \in net.links : flying'[k] = flying[k] \/ flying'[k] = <<>>
      /\ breaks' = breaks + 1 /\ net' = net /\ seen' = seen
  BY BreakEffect
<1>2. breaks' # 0
  BY <1>1 DEF TypeOK
<1>3. Ahead(i, d)'
  BY <1>1, EmptyHas DEF Carried, Ahead, Down
<1> QED BY <1>2, <1>3 DEF Carried

\* The network does not change, and neither does what is said of it.
LEMMA RootedStays ==
  ASSUME net' = net, NEW s, NEW d, NEW w
  PROVE  /\ Rooted(s, d, w)' <=> Rooted(s, d, w)
         /\ Tree' <=> Tree
         /\ Rounding' = Rounding
BY DEF Rooted, Rounding, Ticks, Down, Up, SameSocket, Tree, Feeds

\* Every step keeps every packet on its way down the tree.
LEMMA OnceNext ==
  TypeOK /\ IdsKnown /\ OnceInv /\ [Next]_vars => OnceInv'
<1> SUFFICES ASSUME TypeOK, IdsKnown, OnceInv, [Next]_vars, Tree', NEW i \in 1..entered'
             PROVE  (\E s \in net.sources : \E d, w : Rooted(s, d, w) /\ Carried(i, s, d))'
  BY DEF OnceInv
<1>1. net' = net
  BY DEF Next, Enter, Receive, Break, Idle, vars
<1>2. Tree
  BY <1>1, RootedStays
<1>3. ASSUME i \in 1..entered
      PROVE  (\E s \in net.sources : \E d, w : Rooted(s, d, w) /\ Carried(i, s, d))'
  <2>1. PICK s \in net.sources : \E d, w : Rooted(s, d, w) /\ Carried(i, s, d)
    BY <1>2, <1>3 DEF OnceInv
  <2>2. PICK d, w : Rooted(s, d, w) /\ Carried(i, s, d)
    BY <2>1
  <2>3. s \in Nodes
    BY NetFacts DEF TypeOK
  <2>4. Carried(i, s, d)'
    <3>1. ASSUME NEW n \in Nodes, Enter(n) PROVE Carried(i, s, d)'
      BY <1>3, <2>2, <2>3, <3>1, CarriedEnter
    <3>2. ASSUME NEW l \in net.links, Receive(l) PROVE Carried(i, s, d)'
      BY <2>2, <2>3, <3>2, CarriedRead
    <3>3. ASSUME NEW l \in net.links, Break(l) PROVE Carried(i, s, d)'
      BY <2>2, <3>3, CarriedBreak
    <3>4. ASSUME UNCHANGED vars PROVE Carried(i, s, d)'
      BY <2>2, <3>4 DEF vars, Carried, Ahead, Complete, Down, HopsSuffice
    <3> QED BY <3>1, <3>2, <3>3, <3>4 DEF Next, Idle
  <2>5. Rooted(s, d, w)' /\ s \in net'.sources
    BY <1>1, <2>2, RootedStays
  <2> QED BY <2>4, <2>5
<1>4. ASSUME i \notin 1..entered
      PROVE  (\E s \in net.sources : \E d, w : Rooted(s, d, w) /\ Carried(i, s, d))'
  <2>1. entered' # entered
    BY <1>4
  <2>2. PICK s \in Nodes : Enter(s)
    BY <2>1 DEF Next, Receive, Break, Idle, vars
  <2>3. i = entered' /\ s \in net.sources
    BY <1>4, <2>2 DEF Enter, TypeOK
  <2>4. PICK d, w : Rooted(s, d, w)
    BY <1>2, <2>3, TreeRooted DEF TypeOK
  <2>5. Carried(i, s, d)'
    <3>1. i = entered + 1
      BY <2>2, <2>3 DEF Enter
    <3> QED BY <2>2, <2>4, <3>1, CarriedNew
  <2>6. Rooted(s, d, w)' /\ s \in net'.sources
    BY <1>1, <2>3, <2>4, RootedStays
  <2> QED BY <2>5, <2>6
<1> QED BY <1>3, <1>4


\* Before any packet enters.
LEMMA OnceInit == Init => IdsKnown /\ OnceInv
<1> SUFFICES ASSUME Init PROVE IdsKnown /\ OnceInv
  OBVIOUS
<1>1. IdsKnown
  BY EmptyHas DEF Init, IdsKnown
<1>2. 1..entered = {}
  BY DEF Init
<1> QED BY <1>1, <1>2 DEF OnceInv

\* A packet that is nowhere on its way has been everywhere.
LEMMA Everywhere ==
  ASSUME TypeOK, Quiet, NEW s \in Nodes, NEW d, NEW w, Rooted(s, d, w),
         NEW i, Complete(i, s, d), NEW n \in Nodes
  PROVE  Has(seen[n], i)
<1> SUFFICES ASSUME ~Has(seen[n], i) PROVE FALSE
  OBVIOUS
<1> DEFINE missing == {m \in Nodes : ~Has(seen[m], i)}
           T == {d[m] : m \in missing}
<1>1. \A m \in Nodes : d[m] \in Nat
  BY DEF Rooted
<1>2. PICK m \in missing : \A k \in missing : d[m] <= d[k]
  <2>1. T \in SUBSET Nat /\ T # {}
    BY <1>1
  <2>2. PICK t \in T : \A u \in T : t <= u
    <3> HIDE DEF T
    <3> QED BY <2>1, LeastNat
  <2> QED BY <2>2
<1>3. m \in Nodes \ {s}
  BY <1>2 DEF Complete
<1>4. PICK l \in net.links : l.to = m /\ Down(l, d)
  BY <1>3 DEF Rooted
<1>5. l.from \in Nodes /\ d[l.from] < d[m]
  BY <1>1, <1>3, <1>4, NetFacts DEF Down, TypeOK
<1>6. Has(seen[l.from], i)
  BY <1>1, <1>2, <1>5
<1>7. Has(seen[m], i) \/ Has(flying[l], i)
  BY <1>4, <1>6 DEF Complete
<1>8. ~Has(flying[l], i)
  BY EmptyHas DEF Quiet
<1> QED BY <1>2, <1>7, <1>8

\* That is enough: what has been down every branch once is everywhere once.
LEMMA OnceHolds == TypeOK /\ IdsKnown /\ OnceInv => OnceEach
<1> SUFFICES ASSUME TypeOK, IdsKnown, OnceInv, Tree
             PROVE  /\ \A n \in Nodes : IsInjective([i \in DOMAIN seen[n] |-> seen[n][i].id])
                    /\ Quiet /\ breaks = 0 /\ HopsSuffice
                         => \A n \in Nodes : Len(seen[n]) = entered
  BY DEF OnceEach
<1>1. ASSUME NEW n \in Nodes, NEW j \in DOMAIN seen[n], NEW k \in DOMAIN seen[n],
             seen[n][j].id = seen[n][k].id
      PROVE  j = k
  <2> DEFINE i == seen[n][j].id
  <2>1. i \in 1..entered
    BY DEF Has, IdsKnown
  <2>2. Once(seen[n], i)
    BY <2>1 DEF OnceInv, Carried, Ahead
  <2> QED BY <1>1, <2>2 DEF Once
<1>2. \A n \in Nodes : IsInjective([i \in DOMAIN seen[n] |-> seen[n][i].id])
  BY <1>1 DEF IsInjective
<1>3. ASSUME Quiet, breaks = 0, HopsSuffice, NEW n \in Nodes
      PROVE  Len(seen[n]) = entered
  <2> DEFINE N == Len(seen[n])
             f == [k \in 1..N |-> seen[n][k].id]
  <2>1. N \in Nat /\ DOMAIN seen[n] = 1..N /\ entered \in Nat
    BY DEF TypeOK
  <2>2. \A k \in 1..N : f[k] \in 1..entered
    BY <2>1 DEF Has, IdsKnown
  <2>3. \A i \in 1..entered : \E k \in 1..N : f[k] = i
    <3> SUFFICES ASSUME NEW i \in 1..entered PROVE \E k \in 1..N : f[k] = i
      OBVIOUS
    <3>1. PICK s \in net.sources : \E d, w : Rooted(s, d, w) /\ Carried(i, s, d)
      BY DEF OnceInv
    <3>2. PICK d, w : Rooted(s, d, w) /\ Carried(i, s, d)
      BY <3>1
    <3>3. s \in Nodes /\ Complete(i, s, d)
      BY <1>3, <3>2, NetFacts DEF TypeOK, Carried
    <3>4. Has(seen[n], i)
      BY <1>3, <3>2, <3>3, Everywhere
    <3> QED BY <2>1, <3>4 DEF Has
  <2>4. \A j, k \in 1..N : f[j] = f[k] => j = k
    BY <1>1, <2>1
  <2>5. f \in Bijection(1..N, 1..entered)
    <3>1. f \in [1..N -> 1..entered]
      BY <2>2
    <3> HIDE DEF f, N
    <3> QED BY <2>3, <2>4, <3>1 DEF Bijection, Injection, Surjection, IsInjective
  <2> HIDE DEF f, N
  <2>6. IsFiniteSet(1..N) /\ Cardinality(1..N) = N /\ Cardinality(1..entered) = entered
    BY <2>1, FS_Interval
  <2>7. Cardinality(1..entered) = Cardinality(1..N)
    <3>1. ExistsBijection(1..N, 1..entered)
      BY <2>5 DEF ExistsBijection
    <3> QED BY <2>6, <3>1, FS_Bijection
  <2> QED BY <2>6, <2>7 DEF N
<1> QED BY <1>2, <1>3


\* The types of the variables: a link holds messages, a process has records,
\* and no count or timestamp goes below zero.
THEOREM TypeCorrect == Spec => []TypeOK
<1> QED BY TypeInit, TypeNext, PTL DEF Spec

\* Whatever the formats, the number of processes, the order in which they read
\* and the connections that break: where connections make no loop no process
\* relays a packet twice, and where also none broke and the hop limit is beyond
\* the longest way, every process relays every packet (send.c:188,
\* receive.c:135).
THEOREM OncePerProcess == Spec => []OnceEach
<1>1. Init => TypeOK /\ IdsKnown /\ OnceInv
  BY TypeInit, OnceInit
<1>2. (TypeOK /\ IdsKnown /\ OnceInv) /\ [Next]_vars => (TypeOK /\ IdsKnown /\ OnceInv)'
  BY TypeNext, IdsNext, OnceNext
<1>3. TypeOK /\ IdsKnown /\ OnceInv => OnceEach
  BY OnceHolds
<1> QED BY <1>1, <1>2, <1>3, PTL DEF Spec


-----------------------------------------------------------------------------
(* Time *)

\* A link's clock when its writer writes packet k of those in a.
Tick(a, f, k) == a[k].mlat_timestamp \div Ratio[f]

\* How far it had come, in whole counters, when the link was first used.
Lost(a, f) == Period[f] * (Tick(a, f, 1) \div Period[f])

\* What is on the wire for a timestamp, in a format that has them.
Stamp(t, f) == IF CountsHops(f) /\ t = 0 THEN {} ELSE {ScaleOut(t, f)}

\* A process has relayed q: the packets in order, none of them earlier than the
\* one before, nor later by more than a gap and a rounding of r.
NodeOK(q, r, c) ==
  /\ \A k \in DOMAIN q : q[k].id = k /\ q[k].mlat_timestamp <= c
  /\ \A j, k \in DOMAIN q : j <= k => q[j].mlat_timestamp <= q[k].mlat_timestamp
  /\ \A k \in DOMAIN q : k + 1 \in DOMAIN q =>
       \E gap \in Gaps : q[k + 1].mlat_timestamp <= q[k].mlat_timestamp + gap + r

\* A link of format f by which a process that has relayed a sends to one that
\* has relayed b; q is on the way, st is the reader's state.
LinkOK(f, a, b, q, st, h) ==
  /\ Len(a) = Len(b) + Len(q)
  /\ \A k \in DOMAIN q : /\ q[k].id = Len(b) + k /\ q[k].hops <= h
                         /\ q[k].stamp = Stamp(a[Len(b) + k].mlat_timestamp, f)
  /\ \A k \in DOMAIN b : b[k].mlat_timestamp = Ratio[f] * (Tick(a, f, k) - Lost(a, f))
  /\ b = <<>> => st = FreshState
  /\ b # <<>> => /\ st.last = Tick(a, f, Len(b)) % Period[f]
                 /\ st.generation + st.last = Tick(a, f, Len(b)) - Lost(a, f)

\* The account of time: s has relayed all that entered and was the last to read
\* the clock, and every process and link is as above.
Timed(s, d, w) ==
  /\ Len(seen[s]) = entered
  /\ seen[s] # <<>> => seen[s][Len(seen[s])].mlat_timestamp = clock
  /\ \A n \in Nodes : NodeOK(seen[n], w[n], clock)
  /\ \A l \in net.links : Up(l, d) => flying[l] = <<>>
  /\ \A l \in net.links : Down(l, d) =>
       LinkOK(l.format, seen[l.from], seen[l.to], flying[l], mlat[l], d[l.from] + 1)

\* What TimeKept asks of the network and of the packets so far.
Timely ==
  /\ Tree /\ breaks = 0 /\ HopsSuffice /\ Paced
  /\ Cardinality(net.sources) = 1 /\ (\A l \in net.links : Ratio[l.format] > 0)

\* The inductive invariant of TimeKept.
TimeInv == Timely => \E s \in net.sources : \E d, w : Rooted(s, d, w) /\ Timed(s, d, w)


\* Multiplication keeps the order.
LEMMA Times ==
  ASSUME NEW r \in Nat, NEW x \in Int, NEW y \in Int, x <= y
  PROVE  r * x <= r * y
OBVIOUS

\* Division rounds down, and keeps the order.
LEMMA RoundsDown ==
  ASSUME NEW r \in Nat, r > 0, NEW t \in Nat, NEW u \in Nat, t <= u
  PROVE  /\ t \div r \in Nat /\ u \div r \in Nat /\ t \div r <= u \div r
         /\ r * (u \div r) <= u /\ u < r * (u \div r) + r
<1> DEFINE x == t \div r
           y == u \div r
           c == t % r
           e == u % r
<1>1. x \in Nat /\ c \in Nat /\ c < r /\ t = r * x + c
  BY DivMod
<1>2. y \in Nat /\ e \in Nat /\ e < r /\ u = r * y + e
  BY DivMod
<1> HIDE DEF x, y, c, e
<1>3. ASSUME y < x PROVE FALSE
  <2>1. r * (y + 1) <= r * x
    BY <1>1, <1>2, <1>3, Times
  <2>2. r * (y + 1) = r * y + r /\ r * y \in Nat /\ r * x \in Nat
    BY <1>1, <1>2
  <2> QED BY <1>1, <1>2, <2>1, <2>2
<1>4. r * y \in Nat
  BY <1>2
<1> QED BY <1>1, <1>2, <1>3, <1>4 DEF x, y

\* A counter of period p that goes from u to v, in less than a period, shows a
\* smaller value after than before exactly when it has wrapped.
LEMMA Wraps ==
  ASSUME NEW p \in Nat, p > 0, NEW u \in Nat, NEW v \in Nat, u <= v, v - u < p
  PROVE  v - u = (IF v % p < u % p THEN p ELSE 0) + (v % p) - (u % p)
<1> DEFINE a == u \div p
           b == v \div p
           x == u % p
           y == v % p
<1>1. a \in Nat /\ x \in Nat /\ x < p /\ u = p * a + x
  BY DivMod
<1>2. b \in Nat /\ y \in Nat /\ y < p /\ v = p * b + y
  BY DivMod
<1> HIDE DEF a, b, x, y
<1> DEFINE c == b - a
<1>3. c \in Int /\ p * c \in Int /\ v - u = p * c + y - x
  <2>1. p * c = p * b - p * a /\ p * a \in Nat /\ p * b \in Nat
    BY <1>1, <1>2
  <2> QED BY <1>1, <1>2, <2>1
<1> HIDE DEF c
<1>4. c >= 0
  <2> SUFFICES ASSUME c <= -1 PROVE FALSE
    BY <1>3
  <2>1. p * c <= p * (-1) /\ p * (-1) = -p
    BY <1>3, Times
  <2> QED BY <1>1, <1>2, <1>3, <2>1
<1>5. c <= 1
  <2> SUFFICES ASSUME 2 <= c PROVE FALSE
    BY <1>3
  <2>1. p * 2 <= p * c
    BY <1>3, Times
  <2> QED BY <1>1, <1>2, <1>3, <2>1
<1>6. v - u = (IF y < x THEN p ELSE 0) + y - x
  <2>1. CASE c = 0
    <3>1. p * c = 0
      BY <2>1
    <3> QED BY <1>1, <1>2, <1>3, <3>1
  <2>2. CASE c = 1
    <3>1. p * c = p
      BY <2>2
    <3> QED BY <1>1, <1>2, <1>3, <3>1
  <2> QED BY <1>3, <1>4, <1>5, <2>1, <2>2
<1> QED BY <1>6 DEF x, y

\* Two timestamps no further apart than a counter lasts, rounded.
LEMMA WithinPeriod ==
  ASSUME NEW r \in Nat, r > 0, NEW p \in Nat, NEW t \in Nat, NEW u \in Nat, t <= u,
         NEW g \in Nat, u <= t + g, g + r <= r * p
  PROVE  /\ (u \div r) - (t \div r) < p
         /\ r * (u \div r) - r * (t \div r) <= g + r
<1> DEFINE x == t \div r
           y == u \div r
<1>1. /\ x \in Nat /\ y \in Nat /\ x <= y
      /\ r * y <= u /\ u < r * y + r /\ r * x <= t /\ t < r * x + r
  BY RoundsDown
<1> HIDE DEF x, y
<1>2. r * x \in Nat /\ r * y \in Nat /\ r * p \in Nat
  BY <1>1
<1>3. r * y - r * x < g + r
  BY <1>1, <1>2
<1>4. y - x < p
  <2> SUFFICES ASSUME p <= y - x PROVE FALSE
    BY <1>1
  <2>1. r * p <= r * (y - x)
    BY <1>1, Times
  <2>2. r * (y - x) = r * y - r * x
    BY <1>1
  <2> QED BY <1>2, <1>3, <2>1, <2>2
<1> QED BY <1>2, <1>3, <1>4 DEF x, y


\* What Append does to a sequence.
LEMMA AppendFacts ==
  ASSUME NEW S, NEW q \in Seq(S), NEW m \in S
  PROVE  /\ Len(q) \in Nat /\ DOMAIN q = 1..Len(q)
         /\ Append(q, m) \in Seq(S) /\ Len(Append(q, m)) = Len(q) + 1
         /\ DOMAIN Append(q, m) = 1..(Len(q) + 1) /\ Append(q, m) # <<>>
         /\ Append(q, m)[Len(q) + 1] = m /\ \A k \in 1..Len(q) : Append(q, m)[k] = q[k]
OBVIOUS

\* What Tail does.
LEMMA TailFacts ==
  ASSUME NEW S, NEW q \in Seq(S), q # <<>>
  PROVE  /\ Len(q) \in Nat /\ Len(q) > 0 /\ DOMAIN q = 1..Len(q)
         /\ Tail(q) \in Seq(S) /\ Len(Tail(q)) = Len(q) - 1
         /\ DOMAIN Tail(q) = 1..(Len(q) - 1)
         /\ q[1] = Head(q) /\ \A k \in 1..(Len(q) - 1) : Tail(q)[k] = q[k + 1]
OBVIOUS

\* A process relays a packet and writes it to a link.
LEMMA LinkSend ==
  ASSUME NEW f, NEW a \in Seq(Records), NEW b \in Seq(Records), NEW q \in Seq(Messages),
         NEW st, NEW h, LinkOK(f, a, b, q, st, h),
         NEW r \in Records, NEW m \in Messages,
         m.id = Len(a) + 1, m.hops <= h, m.stamp = Stamp(r.mlat_timestamp, f)
  PROVE  LinkOK(f, Append(a, r), b, Append(q, m), st, h)
<1> DEFINE A == Append(a, r)
           Q == Append(q, m)
<1>1. /\ Len(a) \in Nat /\ DOMAIN a = 1..Len(a) /\ Len(A) = Len(a) + 1
      /\ A[Len(a) + 1] = r /\ \A k \in 1..Len(a) : A[k] = a[k]
  BY AppendFacts
<1>2. /\ Len(q) \in Nat /\ DOMAIN q = 1..Len(q) /\ Len(Q) = Len(q) + 1 /\ DOMAIN Q = 1..(Len(q) + 1)
      /\ Q[Len(q) + 1] = m /\ \A k \in 1..Len(q) : Q[k] = q[k]
  BY AppendFacts
<1>3. Len(b) \in Nat /\ DOMAIN b = 1..Len(b) /\ (b # <<>> => Len(b) > 0)
  OBVIOUS
<1> HIDE DEF A, Q
<1>4. Len(a) = Len(b) + Len(q)
  BY DEF LinkOK
<1>5. \A k \in 1..Len(a) : Tick(A, f, k) = Tick(a, f, k)
  BY <1>1 DEF Tick
<1>6. Len(b) > 0 => Lost(A, f) = Lost(a, f)
  <2>1. Len(b) > 0 => 1 \in 1..Len(a)
    BY <1>2, <1>3, <1>4
  <2> QED BY <1>5, <2>1 DEF Lost
<1>7. ASSUME NEW k \in DOMAIN Q
      PROVE  /\ Q[k].id = Len(b) + k /\ Q[k].hops <= h
             /\ Q[k].stamp = Stamp(A[Len(b) + k].mlat_timestamp, f)
  <2>1. CASE k \in 1..Len(q)
    <3>1. Len(b) + k \in 1..Len(a)
      BY <1>2, <1>3, <1>4, <2>1
    <3> QED BY <1>1, <1>2, <2>1, <3>1 DEF LinkOK
  <2>2. CASE k = Len(q) + 1
    <3>1. Len(b) + k = Len(a) + 1
      BY <1>2, <1>3, <1>4, <2>2
    <3> QED BY <1>1, <1>2, <2>2, <3>1
  <2> QED BY <1>2, <2>1, <2>2
<1>8. \A k \in DOMAIN b : b[k].mlat_timestamp = Ratio[f] * (Tick(A, f, k) - Lost(A, f))
  <2> SUFFICES ASSUME NEW k \in DOMAIN b
               PROVE  b[k].mlat_timestamp = Ratio[f] * (Tick(A, f, k) - Lost(A, f))
    OBVIOUS
  <2>1. k \in 1..Len(a) /\ Len(b) > 0
    BY <1>2, <1>3, <1>4
  <2>2. Tick(A, f, k) = Tick(a, f, k) /\ Lost(A, f) = Lost(a, f)
    BY <1>5, <1>6, <2>1
  <2>3. b[k].mlat_timestamp = Ratio[f] * (Tick(a, f, k) - Lost(a, f))
    BY DEF LinkOK
  <2> QED BY <2>2, <2>3, Zenon
<1>9. b # <<>> => /\ st.last = Tick(A, f, Len(b)) % Period[f]
                  /\ st.generation + st.last = Tick(A, f, Len(b)) - Lost(A, f)
  <2> SUFFICES ASSUME b # <<>>
               PROVE  /\ st.last = Tick(A, f, Len(b)) % Period[f]
                      /\ st.generation + st.last = Tick(A, f, Len(b)) - Lost(A, f)
    OBVIOUS
  <2>1. Len(b) \in 1..Len(a) /\ Len(b) > 0
    BY <1>2, <1>3, <1>4
  <2>2. Tick(A, f, Len(b)) = Tick(a, f, Len(b)) /\ Lost(A, f) = Lost(a, f)
    BY <1>5, <1>6, <2>1
  <2>3. /\ st.last = Tick(a, f, Len(b)) % Period[f]
        /\ st.generation + st.last = Tick(a, f, Len(b)) - Lost(a, f)
    BY DEF LinkOK
  <2> QED BY <2>2, <2>3, Zenon
<1>10. Len(A) = Len(b) + Len(Q) /\ (b = <<>> => st = FreshState)
  BY <1>1, <1>2, <1>3, <1>4 DEF LinkOK
<1>11. LinkOK(f, A, b, Q, st, h)
  BY <1>7, <1>8, <1>9, <1>10 DEF LinkOK
<1> QED BY <1>11 DEF A, Q

\* A value in range is its own remainder.
LEMMA SmallMod ==
  ASSUME NEW x \in Nat, NEW y \in Nat, x < y
  PROVE  x % y = x
OBVIOUS

\* Widened and scaled, a timestamp that is in range is exact.
LEMMA Rescaled ==
  ASSUME NEW f \in Formats, Ratio[f] > 0, NEW x, NEW v \in Nat,
         x.generation + x.last = v, Ratio[f] * v < MlatMax
  PROVE  ScaleIn(f, x) = Ratio[f] * v
<1> DEFINE r == Ratio[f]
<1>1. r \in Nat /\ r > 0
  BY RelayAssumption
<1>2. r * v < MlatMax
  OBVIOUS
<1>3. ScaleIn(f, x) = (((v % Word) * r) % Word) % MlatMax
  BY DEF ScaleIn
<1> HIDE DEF r
<1>4. r * v \in Nat /\ 1 * v <= v * r /\ v * r = r * v
  BY <1>1, Times
<1>5. v < Word
  BY <1>2, <1>4, Constants
<1>6. v % Word = v
  BY <1>5, Constants, SmallMod
<1>7. (v * r) % Word = v * r /\ (v * r) % MlatMax = v * r
  BY <1>2, <1>4, Constants, SmallMod
<1> QED BY <1>3, <1>4, <1>6, <1>7 DEF r


\* What the reader makes of the next timestamp: the ticks since the counter's
\* last wrap before the link was first used.
LEMMA StampRead ==
  ASSUME NEW f \in Formats, Ratio[f] > 0, NEW x \in Nat, NEW c \in Nat, c < MlatMax,
         \A gap \in Gaps : gap + x + Ratio[f] <= Ratio[f] * Period[f],
         NEW a \in Seq(Records), NEW b \in Seq(Records), NEW q \in Seq(Messages),
         NEW st \in States, NEW h, LinkOK(f, a, b, q, st, h), q # <<>>, NodeOK(a, x, c)
  PROVE  LET m == Head(q)
             j == Len(b) + 1
             y == ParsedState(m, f, st)
         IN  /\ j \in 1..Len(a) /\ m.id = j /\ m.hops <= h
             /\ Tick(a, f, j) \in Nat /\ Lost(a, f) \in Nat /\ Lost(a, f) <= Tick(a, f, j)
             /\ Ratio[f] * Tick(a, f, j) <= a[j].mlat_timestamp
             /\ y.last = Tick(a, f, j) % Period[f]
             /\ y.generation + y.last = Tick(a, f, j) - Lost(a, f)
             /\ Parse(m, f, st).mlat_timestamp = Ratio[f] * (Tick(a, f, j) - Lost(a, f))
<1> DEFINE m == Head(q)
           j == Len(b) + 1
           y == ParsedState(m, f, st)
           r == Ratio[f]
           p == Period[f]
           t == a[j].mlat_timestamp
           v == Tick(a, f, j)
           z == Lost(a, f)
<1>1. r \in Nat /\ r > 0 /\ p \in Nat /\ p > 0
  BY RelayAssumption
<1>2. /\ Len(q) \in Nat /\ Len(q) > 0 /\ DOMAIN q = 1..Len(q) /\ q[1] = m
      /\ Len(a) \in Nat /\ Len(b) \in Nat /\ DOMAIN a = 1..Len(a)
  BY TailFacts
<1>3. Len(a) = Len(b) + Len(q)
  BY DEF LinkOK
<1>4. j \in 1..Len(a) /\ 1 \in 1..Len(a) /\ 1 \in DOMAIN q
  BY <1>2, <1>3
<1>5. m.id = j /\ m.hops <= h /\ m.stamp = Stamp(t, f)
  BY <1>2, <1>4 DEF LinkOK
<1>6. \A k \in 1..Len(a) : a[k].mlat_timestamp \in Nat /\ a[k].mlat_timestamp <= c
  <2>1. \A k \in 1..Len(a) : a[k] \in Records
    BY <1>2
  <2> QED BY <1>2, <2>1 DEF NodeOK, Records
<1>7. \A k \in 1..Len(a) : k <= j => a[k].mlat_timestamp <= t
  BY <1>2, <1>4 DEF NodeOK
<1>8. v = t \div r
  BY DEF Tick
<1>9. z = p * ((a[1].mlat_timestamp \div r) \div p)
  BY DEF Lost, Tick
<1>10. t \in Nat /\ t <= c /\ a[1].mlat_timestamp \in Nat /\ a[1].mlat_timestamp <= t
  BY <1>4, <1>6, <1>7
<1>11. st.last \in Nat /\ st.generation \in Nat
  BY DEF States
<1> HIDE DEF r, p, t, v, z, j, m
<1>12. v \in Nat /\ r * v <= t /\ a[1].mlat_timestamp \div r \in Nat /\ a[1].mlat_timestamp \div r <= v
  BY <1>1, <1>8, <1>10, RoundsDown
<1>13. z \in Nat /\ z <= v
  <2> DEFINE u == a[1].mlat_timestamp \div r
  <2>1. u \in Nat /\ u <= v /\ z = p * (u \div p)
    BY <1>9, <1>12
  <2> HIDE DEF u
  <2>2. p * (u \div p) <= u /\ u \div p \in Nat
    BY <1>1, <2>1, RoundsDown
  <2>3. p * (u \div p) \in Nat
    BY <1>1, <2>2
  <2> QED BY <1>12, <2>1, <2>2, <2>3
<1>14. r * (v - z) <= r * v /\ r * (v - z) \in Nat /\ r * v \in Nat
  BY <1>1, <1>12, <1>13, Times
<1>15. r * (v - z) < MlatMax
  BY <1>10, <1>12, <1>14, Constants
<1>16. Parse(m, f, st).mlat_timestamp = IF m.stamp = {} THEN 0 ELSE ScaleIn(f, y)
  BY DEF Parse
\* A timestamp of zero is left out.
<1>17. CASE CountsHops(f) /\ t = 0
  <2>1. m.stamp = {}
    BY <1>5, <1>17 DEF Stamp
  <2>2. y = st
    BY <2>1 DEF ParsedState
  <2>3. v = 0 /\ z = 0
    <3>1. r * v = 0
      BY <1>12, <1>14, <1>17
    <3>2. v = 0
      <4> SUFFICES ASSUME 1 <= v PROVE FALSE
        BY <1>12
      <4>1. r * 1 <= r * v
        BY <1>1, <1>12, Times
      <4> QED BY <1>1, <3>1, <4>1
    <3> QED BY <1>13, <3>2
  <2>4. v % p = 0 /\ r * (v - z) = 0
    BY <1>1, <2>3
  <2>5. st.last = 0 /\ st.generation = 0
    <3>1. CASE b = <<>>
      BY <3>1 DEF LinkOK, FreshState
    <3>2. CASE b # <<>>
      <4> DEFINE u == Tick(a, f, Len(b))
                 o == a[Len(b)].mlat_timestamp
      <4>1. Len(b) \in 1..Len(a) /\ Len(b) <= j
        BY <1>2, <1>3, <3>2 DEF j
      <4>2. o \in Nat /\ o <= t
        BY <1>6, <1>7, <4>1
      <4>3. u = o \div r
        BY DEF Tick, r
      <4>5. st.last = u % p /\ st.generation + st.last = u - z
        BY <3>2 DEF LinkOK, p, z
      <4> HIDE DEF u, o
      <4>4. u \in Nat /\ u <= v
        BY <1>1, <1>8, <1>10, <4>2, <4>3, RoundsDown
      <4>6. u = 0
        BY <2>3, <4>4
      <4>7. u % p = 0
        BY <1>1, <4>6
      <4> QED BY <1>11, <2>3, <4>5, <4>6, <4>7
    <3> QED BY <3>1, <3>2
  <2>6. y.last = v % p /\ y.generation + y.last = v - z
    BY <2>2, <2>3, <2>4, <2>5
  <2>7. Parse(m, f, st).mlat_timestamp = r * (v - z)
    BY <1>16, <2>1, <2>4
  <2> HIDE DEF y
  <2> QED BY <1>4, <1>5, <1>12, <1>13, <2>6, <2>7 DEF r, p, t, v, z, j, m, y
<1>18. CASE ~(CountsHops(f) /\ t = 0)
  <2> DEFINE s == v % p
             g == st.generation + (IF s < st.last THEN p ELSE 0)
  <2>1. m.stamp = {s}
    BY <1>5, <1>8, <1>18 DEF Stamp, ScaleOut, r, p
  <2>2. s \in Nat /\ s < p
    BY <1>1, <1>12, DivMod
  <2>3. y = [last |-> s, generation |-> g % Word]
    <3>1. (CHOOSE ts \in m.stamp : TRUE) = s
      BY <2>1
    <3>2. m.stamp # {}
      BY <2>1
    <3>3. y = Widen(s, f, st)
      BY <3>1, <3>2 DEF ParsedState
    <3> QED BY <3>3 DEF Widen, p
  <2>4. g + s = v - z
    <3>1. CASE b = <<>>
      <4>1. st.last = 0 /\ st.generation = 0
        BY <3>1 DEF LinkOK, FreshState
      <4>2. z = p * (v \div p)
        BY <1>2, <1>8, <1>9, <3>1 DEF j, t
      <4>3. v = p * (v \div p) + s
        BY <1>1, <1>12, DivMod
      <4>4. g = 0
        BY <1>1, <2>2, <4>1
      <4> HIDE DEF g, s
      <4> QED BY <1>12, <1>13, <2>2, <4>2, <4>3, <4>4
    <3>2. CASE b # <<>>
      <4> DEFINE u == Tick(a, f, Len(b))
                 o == a[Len(b)].mlat_timestamp
      <4>1. Len(b) \in 1..Len(a) /\ Len(b) <= j /\ j = Len(b) + 1
        BY <1>2, <1>3, <3>2 DEF j
      <4>2. o \in Nat /\ o <= t
        BY <1>6, <1>7, <4>1
      <4>3. PICK gap \in Gaps : t <= o + gap + x
        BY <1>2, <1>4, <4>1 DEF NodeOK, t
      <4>4. gap \in Nat /\ gap + x + r <= r * p
        BY <4>3, RelayAssumption DEF r, p
      <4>5. u = o \div r
        BY DEF Tick, r
      <4>6. st.last = u % p /\ st.generation + st.last = u - z
        BY <3>2 DEF LinkOK, p, z
      <4> HIDE DEF u, o
      <4>7. u \in Nat /\ u <= v /\ v - u < p
        <5>1. gap + x \in Nat /\ t <= o + (gap + x) /\ (gap + x) + r <= r * p
          BY <1>10, <4>2, <4>3, <4>4
        <5>2. (t \div r) - (o \div r) < p
          BY <1>1, <1>10, <4>2, <5>1, WithinPeriod
        <5> QED BY <1>1, <1>8, <1>10, <4>2, <4>5, <5>2, RoundsDown
      <4>8. v - u = (IF s < u % p THEN p ELSE 0) + s - (u % p)
        BY <1>1, <1>12, <4>7, Wraps
      <4> DEFINE e == u % p
                 k == IF s < e THEN p ELSE 0
      <4>9. e = st.last /\ st.generation = u - z - e /\ g = st.generation + k /\ v - u = k + s - e
        BY <1>11, <1>13, <4>6, <4>7, <4>8
      <4>10. k \in Nat /\ e \in Nat
        BY <1>1, <1>11, <4>6
      <4> HIDE DEF s, g, e, k
      <4>11. g = u - z - e + k
        BY <4>9
      <4>12. v = u + k + s - e
        <5>1. v \in Nat /\ u \in Nat /\ s \in Nat
          BY <1>12, <2>2, <4>7
        <5>2. v - u = k + s - e
          BY <4>9
        <5> QED BY <4>10, <5>1, <5>2
      <4> QED BY <1>13, <2>2, <4>7, <4>10, <4>11, <4>12
    <3> QED BY <3>1, <3>2
  <2>5. g \in Nat
    BY <1>1, <1>11
  <2> HIDE DEF s, g, y
  <2>6. g < Word
    <3> DEFINE e == v - z
    <3>1. e \in Nat /\ g + s = e /\ r * e < MlatMax
      BY <1>12, <1>13, <1>15, <2>4
    <3> HIDE DEF e
    <3>2. e * 1 <= e * r /\ e * r = r * e /\ e * 1 = e
      BY <1>1, <3>1, Times
    <3>3. g <= e /\ e < MlatMax
      <4>1. e <= r * e
        BY <3>2
      <4>2. r * e \in Nat
        BY <1>1, <3>1
      <4> QED BY <2>2, <2>5, <3>1, <4>1, <4>2, Constants
    <3> QED BY <2>5, <3>1, <3>3, Constants
  <2>7. y.last = s /\ y.generation = g
    BY <2>3, <2>5, <2>6, Constants, SmallMod
  <2>8. ScaleIn(f, y) = r * (v - z)
    <3>1. y.generation + y.last = v - z /\ v - z \in Nat
      BY <1>12, <1>13, <2>4, <2>7
    <3> QED BY <1>1, <1>15, <3>1, Rescaled DEF r
  <2>9. Parse(m, f, st).mlat_timestamp = r * (v - z)
    BY <1>16, <2>1, <2>8
  <2> QED BY <1>4, <1>5, <1>12, <1>13, <2>4, <2>7, <2>9 DEF r, p, t, v, z, j, m, y, s
<1> QED BY <1>17, <1>18


\* A process reads a packet from a link and relays it.
LEMMA LinkRead ==
  ASSUME NEW f \in Formats, Ratio[f] > 0, NEW x \in Nat, NEW c \in Nat, c < MlatMax,
         \A gap \in Gaps : gap + x + Ratio[f] <= Ratio[f] * Period[f],
         NEW a \in Seq(Records), NEW b \in Seq(Records), NEW q \in Seq(Messages),
         NEW st \in States, NEW h, LinkOK(f, a, b, q, st, h), q # <<>>,
         NodeOK(a, x, c), NodeOK(b, x + Ratio[f], c), NEW r \in Records,
         r.id = Head(q).id, r.mlat_timestamp = Parse(Head(q), f, st).mlat_timestamp
  PROVE  /\ Head(q).id = Len(b) + 1 /\ Head(q).hops <= h
         /\ LinkOK(f, a, Append(b, r), Tail(q), ParsedState(Head(q), f, st), h)
         /\ NodeOK(Append(b, r), x + Ratio[f], c)
<1> DEFINE B == Append(b, r)
           Q == Tail(q)
           y == ParsedState(Head(q), f, st)
           N == Len(b)
           j == N + 1
           R == Ratio[f]
           z == Lost(a, f)
           v(k) == Tick(a, f, k)
<1>1. /\ j \in 1..Len(a) /\ Head(q).id = j /\ Head(q).hops <= h
      /\ v(j) \in Nat /\ z \in Nat /\ z <= v(j) /\ R * v(j) <= a[j].mlat_timestamp
      /\ y.last = v(j) % Period[f] /\ y.generation + y.last = v(j) - z
      /\ r.mlat_timestamp = R * (v(j) - z)
  BY StampRead
<1>2. /\ N \in Nat /\ DOMAIN b = 1..N /\ Len(B) = j /\ DOMAIN B = 1..j /\ B # <<>>
      /\ B[j] = r /\ \A k \in 1..N : B[k] = b[k]
  BY AppendFacts
<1>3. /\ Len(q) \in Nat /\ Len(q) > 0 /\ DOMAIN q = 1..Len(q)
      /\ Len(Q) = Len(q) - 1 /\ DOMAIN Q = 1..(Len(q) - 1)
      /\ \A k \in 1..(Len(q) - 1) : Q[k] = q[k + 1]
  BY TailFacts
<1>4. Len(a) = N + Len(q) /\ DOMAIN a = 1..Len(a) /\ R \in Nat /\ R > 0
  BY RelayAssumption DEF LinkOK
<1>5. \A k \in 1..Len(a) : a[k].mlat_timestamp \in Nat /\ a[k].mlat_timestamp <= c
  <2>1. \A k \in 1..Len(a) : a[k] \in Records
    BY <1>4
  <2> QED BY <1>4, <2>1 DEF NodeOK, Records
<1>6. \A k \in DOMAIN B : B[k].mlat_timestamp = R * (v(k) - z)
  <2>1. \A k \in 1..N : b[k].mlat_timestamp = R * (v(k) - z)
    BY <1>2 DEF LinkOK
  <2>2. \A k \in DOMAIN B : k \in 1..N \/ k = j
    BY <1>2
  <2> HIDE DEF v, z, R
  <2> QED BY <1>1, <1>2, <2>1, <2>2
<1> HIDE DEF B, Q, y
<1>7. LinkOK(f, a, B, Q, y, h)
  <2>1. Len(a) = Len(B) + Len(Q)
    BY <1>2, <1>3, <1>4
  <2>2. ASSUME NEW k \in DOMAIN Q
        PROVE  /\ Q[k].id = Len(B) + k /\ Q[k].hops <= h
               /\ Q[k].stamp = Stamp(a[Len(B) + k].mlat_timestamp, f)
    <3>1. k + 1 \in DOMAIN q /\ Len(B) + k = N + (k + 1) /\ Q[k] = q[k + 1]
      <4>1. k \in 1..(Len(q) - 1) /\ k \in Nat /\ Len(B) = N + 1 /\ N \in Nat /\ Len(q) \in Nat
        BY <1>2, <1>3
      <4> HIDE DEF N
      <4>2. k + 1 \in 1..Len(q)
        BY <4>1
      <4>3. Len(B) + k = N + (k + 1)
        BY <4>1
      <4> QED BY <1>3, <4>1, <4>2, <4>3
    <3>2. /\ q[k + 1].id = N + (k + 1) /\ q[k + 1].hops <= h
          /\ q[k + 1].stamp = Stamp(a[N + (k + 1)].mlat_timestamp, f)
      BY <3>1 DEF LinkOK
    <3> QED BY <3>1, <3>2, Zenon
  <2>3. y.last = Tick(a, f, Len(B)) % Period[f] /\ y.generation + y.last = Tick(a, f, Len(B)) - Lost(a, f)
    <3>1. Len(B) = N + 1
      BY <1>2
    <3>2. y.last = Tick(a, f, N + 1) % Period[f] /\ y.generation + y.last = Tick(a, f, N + 1) - Lost(a, f)
      BY <1>1
    <3> HIDE DEF N
    <3> QED BY <3>1, <3>2, Zenon
  <2>4. \A k \in DOMAIN B : B[k].mlat_timestamp = Ratio[f] * (Tick(a, f, k) - Lost(a, f))
    BY <1>6
  <2> QED BY <1>2, <2>1, <2>2, <2>3, <2>4 DEF LinkOK
<1>8. NodeOK(B, x + R, c)
  <2> DEFINE at(k) == a[k].mlat_timestamp
  <2>1. \A i, k \in 1..Len(a) : i <= k => at(i) \in Nat /\ at(k) \in Nat /\ at(i) <= at(k)
    BY <1>4, <1>5 DEF NodeOK
  <2>2. \A k : v(k) = at(k) \div R
    BY DEF Tick
  <2>3. \A k \in DOMAIN B : k \in 1..Len(a) /\ k <= j
    BY <1>1, <1>2
  <2> HIDE DEF v, z, R, at
  <2>4. ASSUME NEW i \in DOMAIN B, NEW k \in DOMAIN B, i <= k
        PROVE  v(i) \in Nat /\ v(k) \in Nat /\ v(i) <= v(k)
    <3>1. at(i) \in Nat /\ at(k) \in Nat /\ at(i) <= at(k)
      BY <2>1, <2>3, <2>4
    <3>2. at(i) \div R \in Nat /\ at(k) \div R \in Nat /\ at(i) \div R <= at(k) \div R
      BY <1>4, <3>1, RoundsDown
    <3> QED BY <2>2, <3>2
  <2>5. ASSUME NEW i \in DOMAIN B, NEW k \in DOMAIN B, i <= k
        PROVE  B[i].mlat_timestamp <= B[k].mlat_timestamp
    <3>1. v(i) - z \in Int /\ v(k) - z \in Int /\ v(i) - z <= v(k) - z
      BY <1>1, <2>4, <2>5
    <3>2. R * (v(i) - z) <= R * (v(k) - z)
      BY <1>4, <3>1, Times
    <3> QED BY <1>6, <3>2
  <2>6. r.mlat_timestamp <= c
    <3>1. R * (v(j) - z) <= R * v(j) /\ R * (v(j) - z) \in Int /\ R * v(j) \in Int
      BY <1>1, <1>4, Times
    <3>2. a[j].mlat_timestamp \in Nat /\ a[j].mlat_timestamp <= c
      BY <1>1, <1>5
    <3> QED BY <1>1, <3>1, <3>2
  <2>7. \A k \in 1..N : b[k].id = k /\ b[k].mlat_timestamp <= c
    BY <1>2 DEF NodeOK
  <2>8. ASSUME NEW k \in DOMAIN B PROVE B[k].id = k /\ B[k].mlat_timestamp <= c
    <3>1. CASE k = j
      BY <1>1, <1>2, <2>6, <3>1
    <3>2. CASE k \in 1..N
      BY <1>2, <2>7, <3>2
    <3> QED BY <1>2, <3>1, <3>2
  <2>9. ASSUME NEW k \in DOMAIN B, k + 1 \in DOMAIN B
        PROVE  \E gap \in Gaps : B[k + 1].mlat_timestamp <= B[k].mlat_timestamp + gap + (x + R)
    <3>1. k \in 1..Len(a) /\ k + 1 \in 1..Len(a) /\ k <= k + 1
      BY <1>2, <2>3, <2>9
    <3>2. PICK gap \in Gaps : at(k + 1) <= at(k) + gap + x
      BY <1>4, <3>1 DEF NodeOK, at
    <3>3. gap \in Nat /\ gap + x + R <= R * Period[f]
      BY <3>2, RelayAssumption DEF R
    <3>4. at(k) \in Nat /\ at(k + 1) \in Nat /\ at(k) <= at(k + 1)
      BY <2>1, <3>1
    <3>5. Period[f] \in Nat
      BY RelayAssumption
    <3>6. R * (at(k + 1) \div R) - R * (at(k) \div R) <= (gap + x) + R
      <4>1. gap + x \in Nat /\ at(k + 1) <= at(k) + (gap + x) /\ (gap + x) + R <= R * Period[f]
        BY <1>4, <3>2, <3>3, <3>4
      <4> QED BY <1>4, <3>4, <3>5, <4>1, WithinPeriod
    <3>7. R * v(k + 1) - R * v(k) <= gap + x + R
      BY <1>4, <2>2, <3>3, <3>6
    <3>8. v(k) \in Nat /\ v(k + 1) \in Nat
      BY <2>4, <2>9, <3>1
    <3>9. /\ B[k].mlat_timestamp = R * v(k) - R * z /\ B[k + 1].mlat_timestamp = R * v(k + 1) - R * z
          /\ R * v(k) \in Int /\ R * v(k + 1) \in Int /\ R * z \in Int
      <4>1. \A u \in Nat : R * (u - z) = R * u - R * z /\ R * u \in Int /\ R * z \in Int
        BY <1>1, <1>4
      <4>2. B[k].mlat_timestamp = R * (v(k) - z) /\ B[k + 1].mlat_timestamp = R * (v(k + 1) - z)
        BY <1>6, <2>9
      <4> QED BY <3>8, <4>1, <4>2
    <3>10. B[k + 1].mlat_timestamp <= B[k].mlat_timestamp + gap + (x + R)
      <4> DEFINE m == R * v(k)
                 n == R * v(k + 1)
                 o == R * z
      <4>1. m \in Int /\ n \in Int /\ o \in Int /\ n - m <= gap + x + R
        BY <3>7, <3>9
      <4>2. B[k].mlat_timestamp = m - o /\ B[k + 1].mlat_timestamp = n - o
        BY <3>9
      <4>3. gap \in Nat /\ R \in Nat
        BY <1>4, <3>3
      <4> HIDE DEF m, n, o
      <4>4. n - o <= m - o + gap + (x + R)
        BY <4>1, <4>3
      <4> QED BY <4>2, <4>4, Zenon
    <3> QED BY <3>2, <3>10
  <2> QED BY <2>5, <2>8, <2>9 DEF NodeOK
<1> QED BY <1>1, <1>7, <1>8 DEF B, Q, y


\* A process relays one packet more, no earlier than the last.
LEMMA NodeAppend ==
  ASSUME NEW q \in Seq(Records), NEW x \in Nat, NEW c \in Nat, NEW e \in Nat, NodeOK(q, x, c),
         c <= e, NEW r \in Records, r.id = Len(q) + 1, r.mlat_timestamp <= e,
         q # <<>> => /\ q[Len(q)].mlat_timestamp <= r.mlat_timestamp
                     /\ \E gap \in Gaps : r.mlat_timestamp <= q[Len(q)].mlat_timestamp + gap + x
  PROVE  NodeOK(Append(q, r), x, e)
<1> DEFINE Q == Append(q, r)
           N == Len(q)
<1>1. /\ N \in Nat /\ DOMAIN q = 1..N /\ DOMAIN Q = 1..(N + 1)
      /\ Q[N + 1] = r /\ \A k \in 1..N : Q[k] = q[k]
  BY AppendFacts
<1>2. \A k \in 1..N : q[k] \in Records
  BY <1>1
<1>3. \A k \in 1..N : q[k].mlat_timestamp \in Nat
  BY <1>2 DEF Records
<1>4. r.mlat_timestamp \in Nat /\ (N > 0 => q # <<>>)
  BY DEF Records
<1> HIDE DEF Q, N
<1>5. ASSUME NEW k \in DOMAIN Q PROVE Q[k].id = k /\ Q[k].mlat_timestamp <= e
  <2>1. CASE k = N + 1
    BY <1>1, <2>1 DEF N
  <2>2. CASE k \in 1..N
    <3>1. q[k].id = k /\ q[k].mlat_timestamp <= c
      BY <1>1, <2>2 DEF NodeOK
    <3> QED BY <1>1, <1>3, <2>2, <3>1
  <2> QED BY <1>1, <2>1, <2>2
<1>6. ASSUME NEW j \in DOMAIN Q, NEW k \in DOMAIN Q, j <= k
      PROVE  Q[j].mlat_timestamp <= Q[k].mlat_timestamp
  <2>1. CASE k \in 1..N
    <3>1. j \in 1..N
      BY <1>1, <1>6, <2>1
    <3> QED BY <1>1, <1>6, <2>1, <3>1 DEF NodeOK
  <2>2. CASE k = N + 1 /\ j \in 1..N
    <3>1. N \in 1..N /\ q # <<>>
      BY <1>1, <1>4, <2>2
    <3>2. q[j].mlat_timestamp <= q[N].mlat_timestamp
      BY <1>1, <2>2, <3>1 DEF NodeOK
    <3>3. q[N].mlat_timestamp <= r.mlat_timestamp
      BY <3>1 DEF N
    <3> QED BY <1>1, <1>3, <1>4, <2>2, <3>1, <3>2, <3>3
  <2>3. CASE k = N + 1 /\ j = N + 1
    BY <1>1, <1>4, <2>3
  <2> QED BY <1>1, <2>1, <2>2, <2>3
<1>7. ASSUME NEW k \in DOMAIN Q, k + 1 \in DOMAIN Q
      PROVE  \E gap \in Gaps : Q[k + 1].mlat_timestamp <= Q[k].mlat_timestamp + gap + x
  <2>1. k \in 1..N
    BY <1>1, <1>7
  <2>2. CASE k + 1 \in 1..N
    BY <1>1, <2>1, <2>2 DEF NodeOK
  <2>3. CASE k = N
    BY <1>1, <1>4, <2>1, <2>3 DEF N
  <2> QED BY <1>1, <2>1, <2>2, <2>3
<1> QED BY <1>5, <1>6, <1>7 DEF NodeOK, Q

\* A process that has relayed so many packets has not had the next.
LEMMA NodeNext ==
  ASSUME NEW q \in Seq(Records), NEW x, NEW c, NodeOK(q, x, c)
  PROVE  ~Has(q, Len(q) + 1)
BY DEF NodeOK, Has

\* The timestamp on the wire, in a format that has one.
LEMMA SerializeStamp ==
  ASSUME NEW p \in Packets, NEW f \in Formats, Ratio[f] > 0
  PROVE  Serialize(p, f).stamp = Stamp(p.mlat_timestamp, f)
BY RelayAssumption DEF Serialize, Stamp

\* Time does not run backwards, and connections do not mend what broke.
LEMMA TimelyStays == TypeOK /\ [Next]_vars /\ Timely' => Timely
<1> SUFFICES ASSUME TypeOK, [Next]_vars, Timely' PROVE Timely
  OBVIOUS
<1>1. net' = net
  BY DEF Next, Enter, Receive, Break, Idle, vars
<1>2. clock' \in Nat /\ breaks' \in Nat
  BY TypeNext DEF TypeOK
<1>3. clock <= clock' /\ breaks <= breaks'
  <2>1. ASSUME NEW n \in Nodes, Enter(n) PROVE clock <= clock' /\ breaks <= breaks'
    <3>1. (\E gap \in Gaps : clock' = clock + gap) /\ breaks' = breaks
      BY <2>1 DEF Enter
    <3> QED BY <3>1, RelayAssumption DEF TypeOK
  <2>2. ASSUME NEW l \in net.links, Receive(l) PROVE clock <= clock' /\ breaks <= breaks'
    BY <2>2 DEF Receive, TypeOK
  <2>3. ASSUME NEW l \in net.links, Break(l) PROVE clock <= clock' /\ breaks <= breaks'
    BY <2>3 DEF Break, TypeOK
  <2>4. ASSUME UNCHANGED vars PROVE clock <= clock' /\ breaks <= breaks'
    BY <2>4 DEF vars, TypeOK
  <2> QED BY <2>1, <2>2, <2>3, <2>4 DEF Next, Idle
<1>5. Tree /\ Rounding' = Rounding
  BY <1>1, RootedStays DEF Timely
<1>6. breaks = 0 /\ clock < MlatMax
  BY <1>2, <1>3, Constants DEF Timely, Paced, TypeOK
<1>7. \A l \in net.links, gap \in Gaps : gap + Rounding <= Ratio[l.format] * Period[l.format]
  BY <1>1, <1>5 DEF Timely, Paced
<1> QED BY <1>1, <1>5, <1>6, <1>7 DEF Timely, Paced, HopsSuffice

\* A packet enters at the source.
LEMMA TimedEnter ==
  ASSUME TypeOK, Timely, NEW s \in Nodes, Enter(s), NEW d, NEW w, Rooted(s, d, w), Timed(s, d, w)
  PROVE  Timed(s, d, w)'
<1> DEFINE p == [id |-> entered', hops |-> 0, mlat_timestamp |-> clock']
           R == Recipients(s, {})
           r == [id |-> p.id, mlat_timestamp |-> p.mlat_timestamp]
<1>1. /\ entered' = entered + 1 /\ clock' \in Nat /\ p \in Packets /\ Relayed(s, p, {}, flying)
      /\ p.id = entered + 1 /\ p.hops = 0 /\ p.mlat_timestamp = clock'
      /\ UNCHANGED <<net, breaks, mlat>>
  BY EnterEffect
<1>2. PICK gap \in Gaps : clock' = clock + gap
  BY EnterEffect
<1>3. gap \in Nat /\ clock \in Nat /\ clock <= clock'
  BY <1>2, RelayAssumption DEF TypeOK
<1>4. /\ flying \in [net.links -> Seq(Messages)]
      /\ \A k \in net.links : /\ d[k.from] \in Nat /\ d[k.to] \in Nat /\ k.from \in Nodes /\ k.to \in Nodes
                              /\ k.format \in Formats /\ Ratio[k.format] > 0
      /\ \A n \in Nodes : w[n] \in Nat /\ seen[n] \in Seq(Records)
  BY NetFacts DEF TypeOK, Rooted, Timely
<1>5. r \in Records /\ r.id = entered + 1 /\ r.mlat_timestamp = clock'
  BY <1>1 DEF Records, TypeOK
<1> HIDE DEF p, r
<1>6. p.hops + 1 <= MaxHops
  <2>1. Cardinality(Nodes) \in Nat /\ Cardinality(Nodes) # 0
    BY RelayAssumption, FS_CardinalityType, FS_EmptySet
  <2> QED BY <1>1, <2>1, Constants DEF HopsSuffice, Timely
<1>7. \A k \in net.links \ R : flying'[k] = flying[k]
  BY <1>1, <1>4, <1>6, SendEffect
<1>8. \A k \in R : flying'[k] = Append(flying[k], Serialize(Counted(p), k.format))
  BY <1>1, <1>4, <1>6, SendEffect
<1>9. /\ Record(s, p) /\ Counted(p) \in Packets /\ Counted(p).id = entered + 1 /\ Counted(p).hops = 1
      /\ Counted(p).mlat_timestamp = clock'
  BY <1>1, <1>4, <1>6, RelayedSends
<1>10. Len(seen[s]) = entered /\ \A n \in Nodes : NodeOK(seen[n], w[n], clock)
  BY DEF Timed
<1>11. ~Has(seen[s], p.id)
  BY <1>1, <1>4, <1>10, NodeNext
<1>12. /\ \A m \in Nodes \ {s} : seen'[m] = seen[m]
       /\ seen'[s] = Append(seen[s], r)
  BY <1>1, <1>9, <1>11, RecordEffect DEF r
<1>13. \A k \in net.links : k \in R <=> k.from = s /\ Down(k, d)
  BY SourceDown DEF TypeOK
<1> HIDE DEF R
<1>14. /\ Len(seen'[s]) = entered' /\ seen'[s] # <<>>
       /\ seen'[s][Len(seen'[s])].mlat_timestamp = clock'
  <2> DEFINE q == seen[s]
             Q == Append(q, r)
  <2>1. Len(Q) = Len(q) + 1 /\ Q # <<>> /\ Q[Len(q) + 1] = r
    <3>1. q \in Seq(Records)
      BY <1>4
    <3> HIDE DEF q
    <3> QED BY <1>5, <3>1, AppendFacts
  <2>2. seen'[s] = Q /\ Len(q) = entered
    BY <1>10, <1>12
  <2> HIDE DEF q, Q
  <2> QED BY <1>1, <1>5, <2>1, <2>2
<1>15. ASSUME NEW n \in Nodes PROVE NodeOK(seen'[n], w[n], clock')
  <2>1. CASE n # s
    <3>1. \A k \in DOMAIN seen[n] : seen[n][k].mlat_timestamp \in Nat
      <4>1. \A k \in DOMAIN seen[n] : seen[n][k] \in Records
        BY <1>4
      <4> QED BY <4>1 DEF Records
    <3>2. NodeOK(seen[n], w[n], clock')
      <4>1. \A k \in DOMAIN seen[n] : seen[n][k].mlat_timestamp <= clock'
        BY <1>1, <1>3, <1>10, <3>1 DEF NodeOK
      <4> QED BY <1>10, <4>1 DEF NodeOK
    <3> QED BY <1>12, <2>1, <3>2
  <2>2. CASE n = s
    <3>1. seen[s] # <<>> => seen[s][Len(seen[s])].mlat_timestamp = clock
      BY DEF Timed
    <3>2. w[s] = 0
      BY DEF Rooted
    <3>3. clock <= r.mlat_timestamp /\ r.mlat_timestamp <= clock + gap + w[s]
      BY <1>2, <1>3, <1>5, <3>2
    <3>4. seen[s] # <<>> =>
            /\ seen[s][Len(seen[s])].mlat_timestamp <= r.mlat_timestamp
            /\ \E g \in Gaps : r.mlat_timestamp <= seen[s][Len(seen[s])].mlat_timestamp + g + w[s]
      BY <1>2, <3>1, <3>3
    <3>5. r.id = Len(seen[s]) + 1 /\ r.mlat_timestamp <= clock'
      BY <1>1, <1>5, <1>10
    <3>6. NodeOK(Append(seen[s], r), w[s], clock')
      BY <1>1, <1>3, <1>4, <1>5, <1>10, <3>4, <3>5, NodeAppend
    <3> QED BY <1>12, <2>2, <3>6
  <2> QED BY <2>1, <2>2
<1>16. \A l \in net.links : Up(l, d) => flying'[l] = <<>>
  <2> SUFFICES ASSUME NEW l \in net.links, Up(l, d) PROVE flying'[l] = <<>>
    OBVIOUS
  <2>1. ~Down(l, d)
    BY <1>4 DEF Up, Down
  <2>2. flying[l] = <<>>
    BY DEF Timed
  <2> QED BY <1>7, <1>13, <2>1, <2>2
<1>17. ASSUME NEW l \in net.links, Down(l, d)
       PROVE  LinkOK(l.format, seen'[l.from], seen'[l.to], flying'[l], mlat'[l], d[l.from] + 1)
  <2>1. LinkOK(l.format, seen[l.from], seen[l.to], flying[l], mlat[l], d[l.from] + 1)
    BY <1>17 DEF Timed
  <2>2. l.to # s /\ seen'[l.to] = seen[l.to] /\ mlat'[l] = mlat[l]
    BY <1>1, <1>4, <1>12, <1>17 DEF Rooted
  <2>3. CASE l.from # s
    <3>1. seen'[l.from] = seen[l.from] /\ flying'[l] = flying[l]
      BY <1>4, <1>7, <1>12, <1>13, <2>3
    <3> QED BY <2>1, <2>2, <3>1
  <2>4. CASE l.from = s
    <3> DEFINE m == Serialize(Counted(p), l.format)
    <3>1. m \in Messages /\ m.id = entered + 1 /\ m.hops <= 1 /\ m.stamp = Stamp(clock', l.format)
      BY <1>4, <1>9, SerializeType, SerializeStamp
    <3>2. flying'[l] = Append(flying[l], m)
      BY <1>8, <1>13, <1>17, <2>4
    <3> HIDE DEF m
    <3>3. m.hops <= d[l.from] + 1 /\ m.id = Len(seen[l.from]) + 1 /\ m.stamp = Stamp(r.mlat_timestamp, l.format)
      BY <1>4, <1>5, <1>10, <2>4, <3>1 DEF Messages
    <3>4. seen[l.from] \in Seq(Records) /\ seen[l.to] \in Seq(Records) /\ flying[l] \in Seq(Messages)
      BY <1>4
    <3>5. LinkOK(l.format, Append(seen[l.from], r), seen[l.to], Append(flying[l], m), mlat[l], d[l.from] + 1)
      BY <1>5, <2>1, <3>1, <3>3, <3>4, LinkSend
    <3> QED BY <1>12, <2>2, <2>4, <3>2, <3>5
  <2> QED BY <2>3, <2>4
<1> QED BY <1>1, <1>14, <1>15, <1>16, <1>17 DEF Timed, Up, Down


\* A process reads a packet and relays it.
LEMMA TimedRead ==
  ASSUME TypeOK, Timely, NEW l \in net.links, Receive(l), NEW s \in Nodes, NEW d, NEW w,
         Rooted(s, d, w), Timed(s, d, w)
  PROVE  Timed(s, d, w)'
<1> DEFINE m == Head(flying[l])
           p == Parse(m, l.format, mlat[l])
           queues == [flying EXCEPT ![l] = Tail(@)]
           R == Recipients(l.to, {l})
           r == [id |-> p.id, mlat_timestamp |-> p.mlat_timestamp]
           y == ParsedState(m, l.format, mlat[l])
<1>1. /\ m \in Messages /\ p \in Packets /\ p.id = m.id /\ p.hops <= m.hops
      /\ flying[l] \in Seq(Messages) /\ flying[l] # <<>>
      /\ queues \in [net.links -> Seq(Messages)]
      /\ queues[l] = Tail(flying[l]) /\ \A k \in net.links \ {l} : queues[k] = flying[k]
      /\ l.to \in Nodes /\ Relayed(l.to, p, {l}, queues)
  BY ReadEffect
<1>2. UNCHANGED <<net, clock, entered, breaks>>
  BY DEF Receive
<1>3. mlat'[l] = y /\ \A k \in net.links \ {l} : mlat'[k] = mlat[k]
  BY DEF Receive, TypeOK
<1>4. /\ net \in Networks /\ clock \in Nat /\ clock < MlatMax
      /\ \A k \in net.links : /\ d[k.from] \in Nat /\ d[k.to] \in Nat /\ k.from \in Nodes /\ k.to \in Nodes
                              /\ k.format \in Formats /\ Ratio[k.format] > 0 /\ mlat[k] \in States
                              /\ Ratio[k.format] \in Nat /\ Period[k.format] \in Nat
      /\ \A n \in Nodes : w[n] \in Nat /\ seen[n] \in Seq(Records) /\ w[n] <= Rounding
      /\ Rounding \in Nat
  BY NetFacts DEF TypeOK, Rooted, Timely, Paced
<1>5. Down(l, d)
  BY <1>1 DEF Rooted, Timed
<1>6. w[l.to] = w[l.from] + Ratio[l.format] /\ l.to # s
  BY <1>5 DEF Rooted
<1>7. r \in Records /\ r.id = p.id /\ r.mlat_timestamp = p.mlat_timestamp
  <2> HIDE DEF p
  <2> QED BY <1>1 DEF Records, Packets
<1> HIDE DEF p, r, queues, m, y
<1>8. \A n \in Nodes : NodeOK(seen[n], w[n], clock)
  BY DEF Timed
<1>9. \A gap \in Gaps : gap + w[l.from] + Ratio[l.format] <= Ratio[l.format] * Period[l.format]
  <2> SUFFICES ASSUME NEW gap \in Gaps
               PROVE  gap + w[l.from] + Ratio[l.format] <= Ratio[l.format] * Period[l.format]
    OBVIOUS
  <2> DEFINE z == Ratio[l.format] * Period[l.format]
  <2>1. gap + Rounding <= z
    BY DEF Timely, Paced
  <2>2. gap \in Nat /\ z \in Nat /\ w[l.from] \in Nat /\ w[l.to] <= Rounding /\ w[l.to] \in Nat
    BY <1>4, RelayAssumption
  <2> HIDE DEF z
  <2>3. gap + w[l.from] + Ratio[l.format] <= z
    BY <1>4, <1>6, <2>1, <2>2
  <2> QED BY <2>3 DEF z
<1>10. LinkOK(l.format, seen[l.from], seen[l.to], flying[l], mlat[l], d[l.from] + 1)
  BY <1>5 DEF Timed
<1>11. /\ m.id = Len(seen[l.to]) + 1 /\ m.hops <= d[l.from] + 1
       /\ LinkOK(l.format, seen[l.from], Append(seen[l.to], r), Tail(flying[l]), y, d[l.from] + 1)
       /\ NodeOK(Append(seen[l.to], r), w[l.from] + Ratio[l.format], clock)
  <2> DEFINE f == l.format
             a == seen[l.from]
             b == seen[l.to]
             q == flying[l]
             st == mlat[l]
             x == w[l.from]
             c == clock
             h == d[l.from] + 1
  <2>1. /\ f \in Formats /\ Ratio[f] > 0 /\ a \in Seq(Records) /\ b \in Seq(Records)
        /\ q \in Seq(Messages) /\ q # <<>> /\ st \in States /\ x \in Nat
        /\ c \in Nat /\ c < MlatMax
    BY <1>1, <1>4
  <2>2. NodeOK(a, x, c) /\ NodeOK(b, x + Ratio[f], c)
    BY <1>4, <1>6, <1>8
  <2>3. LinkOK(f, a, b, q, st, h)
    BY <1>10
  <2>4. r.id = Head(q).id /\ r.mlat_timestamp = Parse(Head(q), f, st).mlat_timestamp
    BY <1>1, <1>7 DEF p, m
  <2>5. \A gap \in Gaps : gap + x + Ratio[f] <= Ratio[f] * Period[f]
    BY <1>9
  <2> HIDE DEF f, a, b, q, st, x, c, h
  <2>6. /\ Head(q).id = Len(b) + 1 /\ Head(q).hops <= h
        /\ LinkOK(f, a, Append(b, r), Tail(q), ParsedState(Head(q), f, st), h)
        /\ NodeOK(Append(b, r), x + Ratio[f], c)
    BY <1>7, <2>1, <2>2, <2>3, <2>4, <2>5, LinkRead
  <2> QED BY <2>6 DEF f, a, b, q, st, x, c, h, m, y
<1>12. p.hops + 1 <= MaxHops /\ p.hops + 1 <= d[l.to] + 1
  <2>1. p.hops <= d[l.from] + 1
    <3>1. p.hops \in Nat /\ m.hops \in Nat /\ d[l.from] \in Nat
      BY <1>1, <1>4 DEF Packets, Messages
    <3> QED BY <1>1, <1>11, <3>1
  <2> QED BY <1>1, <1>4, <1>5, <2>1, HopsLeft DEF Timely
<1>13. \A k \in net.links \ R : flying'[k] = queues[k]
  BY <1>1, <1>12, SendEffect
<1>14. \A k \in R : flying'[k] = Append(queues[k], Serialize(Counted(p), k.format))
  BY <1>1, <1>12, SendEffect
<1>15. /\ Record(l.to, p) /\ Counted(p) \in Packets /\ Counted(p).id = p.id /\ Counted(p).hops = p.hops + 1
       /\ Counted(p).mlat_timestamp = p.mlat_timestamp
  BY <1>1, <1>12, RelayedSends
<1>16. ~Has(seen[l.to], p.id)
  BY <1>1, <1>4, <1>8, <1>11, NodeNext
<1>17. /\ \A n \in Nodes \ {l.to} : seen'[n] = seen[n]
       /\ seen'[l.to] = Append(seen[l.to], r)
  BY <1>1, <1>15, <1>16, RecordEffect DEF r
<1>18. /\ l.from # l.to /\ l \notin R
       /\ \A k \in net.links : k \in R <=> k.from = l.to /\ Down(k, d)
  BY <1>4, <1>5, RecipientsDown
<1> HIDE DEF R
<1>19. seen'[s] = seen[s]
  BY <1>6, <1>17
<1>20. ASSUME NEW n \in Nodes PROVE NodeOK(seen'[n], w[n], clock)
  BY <1>6, <1>8, <1>11, <1>17
<1>21. \A k \in net.links : Up(k, d) => flying'[k] = <<>>
  <2> SUFFICES ASSUME NEW k \in net.links, Up(k, d) PROVE flying'[k] = <<>>
    OBVIOUS
  <2>1. ~Down(k, d) /\ k # l
    BY <1>4, <1>5 DEF Up, Down
  <2>2. flying[k] = <<>>
    BY DEF Timed
  <2> QED BY <1>1, <1>13, <1>18, <2>1, <2>2
<1>22. ASSUME NEW k \in net.links, Down(k, d)
       PROVE  LinkOK(k.format, seen'[k.from], seen'[k.to], flying'[k], mlat'[k], d[k.from] + 1)
  <2>1. LinkOK(k.format, seen[k.from], seen[k.to], flying[k], mlat[k], d[k.from] + 1)
    BY <1>22 DEF Timed
  <2>2. CASE k = l
    <3>1. seen'[l.from] = seen[l.from] /\ flying'[l] = Tail(flying[l])
      BY <1>1, <1>4, <1>13, <1>17, <1>18
    <3> QED BY <1>3, <1>11, <1>17, <2>2, <3>1
  <2>3. CASE k # l
    <3>1. k.to # l.to
      BY <1>5, <1>22, <2>3 DEF Rooted
    <3>2. seen'[k.to] = seen[k.to] /\ mlat'[k] = mlat[k] /\ queues[k] = flying[k]
      BY <1>1, <1>3, <1>4, <1>17, <2>3, <3>1
    <3>3. CASE k.from # l.to
      <4>1. seen'[k.from] = seen[k.from] /\ flying'[k] = flying[k]
        BY <1>4, <1>13, <1>17, <1>18, <3>2, <3>3
      <4> QED BY <2>1, <3>2, <4>1
    <3>4. CASE k.from = l.to
      <4> DEFINE x == Serialize(Counted(p), k.format)
      <4>1. x \in Messages /\ x.id = p.id /\ x.hops <= p.hops + 1 /\ x.stamp = Stamp(p.mlat_timestamp, k.format)
        BY <1>4, <1>15, SerializeType, SerializeStamp
      <4>2. flying'[k] = Append(flying[k], x)
        BY <1>14, <1>18, <1>22, <3>2, <3>4
      <4> HIDE DEF x
      <4>3. x.hops <= d[k.from] + 1
        BY <1>1, <1>4, <1>12, <3>4, <4>1 DEF Messages, Packets
      <4>4. x.id = Len(seen[k.from]) + 1 /\ x.stamp = Stamp(r.mlat_timestamp, k.format)
        BY <1>1, <1>7, <1>11, <3>4, <4>1
      <4>5. seen[k.from] \in Seq(Records) /\ seen[k.to] \in Seq(Records) /\ flying[k] \in Seq(Messages)
        BY <1>4 DEF TypeOK
      <4>6. LinkOK(k.format, Append(seen[k.from], r), seen[k.to], Append(flying[k], x), mlat[k], d[k.from] + 1)
        BY <1>7, <2>1, <4>1, <4>3, <4>4, <4>5, LinkSend
      <4> QED BY <1>17, <3>2, <3>4, <4>2, <4>6
    <3> QED BY <3>3, <3>4
  <2> QED BY <2>2, <2>3
<1>23. Len(seen[s]) = entered /\ (seen[s] # <<>> => seen[s][Len(seen[s])].mlat_timestamp = clock)
  BY DEF Timed
<1> QED BY <1>2, <1>19, <1>20, <1>21, <1>22, <1>23 DEF Timed, Up, Down


\* The invariant holds before any packet enters.
LEMMA TimeInit == Init => TimeInv
<1> SUFFICES ASSUME Init, Timely
             PROVE  \E s \in net.sources : \E d, w : Rooted(s, d, w) /\ Timed(s, d, w)
  BY DEF TimeInv
<1>1. TypeOK
  BY TypeInit
<1>2. PICK s \in net.sources : TRUE
  <2>1. net.sources # {}
    BY FS_EmptySet DEF Timely
  <2> QED BY <2>1
<1>3. s \in Nodes
  BY <1>1, NetFacts DEF TypeOK
<1>4. PICK d, w : Rooted(s, d, w)
  BY <1>1, <1>2, TreeRooted DEF TypeOK, Timely
<1>5. /\ entered = 0 /\ \A n \in Nodes : seen[n] = <<>>
      /\ \A l \in net.links : flying[l] = <<>> /\ mlat[l] = FreshState /\ l.from \in Nodes /\ l.to \in Nodes
  BY <1>1, NetFacts DEF Init, TypeOK
<1>6. \A x, c : NodeOK(<<>>, x, c)
  BY DEF NodeOK
<1>7. \A f, h : LinkOK(f, <<>>, <<>>, <<>>, FreshState, h)
  BY DEF LinkOK
<1>8. Timed(s, d, w)
  BY <1>3, <1>5, <1>6, <1>7 DEF Timed
<1> QED BY <1>4, <1>8

\* Every step keeps the account of time.
LEMMA TimeNext == TypeOK /\ TimeInv /\ [Next]_vars => TimeInv'
<1> SUFFICES ASSUME TypeOK, TimeInv, [Next]_vars, Timely'
             PROVE  (\E s \in net.sources : \E d, w : Rooted(s, d, w) /\ Timed(s, d, w))'
  BY DEF TimeInv
<1>1. net' = net
  BY DEF Next, Enter, Receive, Break, Idle, vars
<1>2. Timely
  BY TimelyStays
<1>3. PICK s \in net.sources : \E d, w : Rooted(s, d, w) /\ Timed(s, d, w)
  BY <1>2 DEF TimeInv
<1>4. PICK d, w : Rooted(s, d, w) /\ Timed(s, d, w)
  BY <1>3
<1>5. s \in Nodes /\ \A n \in net.sources : n = s
  <2>1. \E x : net.sources = {x}
    <3>1. IsFiniteSet(net.sources)
      BY NetFacts, RelayAssumption, FS_Subset DEF TypeOK
    <3>2. Cardinality(net.sources) = 1
      BY <1>2 DEF Timely
    <3> QED BY <3>1, <3>2, FS_Singleton
  <2> QED BY <1>3, <2>1, NetFacts DEF TypeOK
<1>6. Timed(s, d, w)'
  <2>1. ASSUME NEW n \in Nodes, Enter(n) PROVE Timed(s, d, w)'
    <3>1. n = s
      BY <1>5, <2>1 DEF Enter
    <3> QED BY <1>2, <1>4, <2>1, <3>1, TimedEnter
  <2>2. ASSUME NEW l \in net.links, Receive(l) PROVE Timed(s, d, w)'
    BY <1>2, <1>4, <1>5, <2>2, TimedRead
  <2>3. ASSUME NEW l \in net.links, Break(l) PROVE FALSE
    BY <2>3 DEF Break, Timely, TypeOK
  <2>4. ASSUME UNCHANGED vars PROVE Timed(s, d, w)'
    BY <1>4, <2>4 DEF vars, Timed, Up, Down
  <2> QED BY <2>1, <2>2, <2>3, <2>4 DEF Next, Idle
<1>7. Rooted(s, d, w)' /\ s \in net'.sources
  BY <1>1, <1>4, RootedStays
<1> QED BY <1>6, <1>7

\* One link rounds the time between two packets by less than a tick of its clock.
LEMMA LinkRounds ==
  ASSUME NEW r \in Nat, r > 0, NEW t \in Nat, NEW u \in Nat, NEW z \in Int
  PROVE  LET e == (r * ((u \div r) - z) - r * ((t \div r) - z)) - (u - t)
         IN  e \in Int /\ -r < e /\ e < r
<1> DEFINE x == t \div r
           y == u \div r
<1>1. x \in Nat /\ r * x <= t /\ t < r * x + r
  BY RoundsDown
<1>2. y \in Nat /\ r * y <= u /\ u < r * y + r
  BY RoundsDown
<1> HIDE DEF x, y
<1>3. r * (y - z) = r * y - r * z /\ r * (x - z) = r * x - r * z /\ r * x \in Int /\ r * y \in Int /\ r * z \in Int
  BY <1>1, <1>2
<1> DEFINE m == r * x
           n == r * y
           o == r * z
           e == ((n - o) - (m - o)) - (u - t)
<1>4. m \in Int /\ n \in Int /\ o \in Int /\ m <= t /\ t < m + r /\ n <= u /\ u < n + r
  BY <1>1, <1>2, <1>3
<1>5. (r * (y - z) - r * (x - z)) - (u - t) = e
  BY <1>3
<1> HIDE DEF m, n, o
<1>6. e \in Int /\ -r < e /\ e < r
  BY <1>4
<1> HIDE DEF e
<1> QED BY <1>5, <1>6 DEF x, y

\* The links on the way to a process round by less than the sum of their ratios.
LEMMA TimeHolds == TypeOK /\ TimeInv => TimeKept
<1> SUFFICES ASSUME TypeOK, TimeInv, Timely, NEW src \in net.sources, NEW n \in Nodes \ {src},
                    NEW i \in DOMAIN seen[n], NEW j \in DOMAIN seen[n], i < j
             PROVE  LET off == (seen[n][j].mlat_timestamp - seen[n][i].mlat_timestamp)
                               - (seen[src][j].mlat_timestamp - seen[src][i].mlat_timestamp)
                    IN  -Rounding < off /\ off < Rounding
  BY Zenon DEF TimeKept, Timely
<1>1. PICK s \in net.sources : \E d, w : Rooted(s, d, w) /\ Timed(s, d, w)
  BY DEF TimeInv
<1>2. PICK d, w : Rooted(s, d, w) /\ Timed(s, d, w)
  BY <1>1
<1>3. src = s /\ s \in Nodes
  <2>1. \E x : net.sources = {x}
    <3>1. IsFiniteSet(net.sources)
      BY NetFacts, RelayAssumption, FS_Subset DEF TypeOK
    <3>2. Cardinality(net.sources) = 1
      BY DEF Timely
    <3> QED BY <3>1, <3>2, FS_Singleton
  <2> QED BY <1>1, <2>1, NetFacts DEF TypeOK
<1> DEFINE at(m, k) == seen[m][k].mlat_timestamp
           off(m) == (at(m, j) - at(m, i)) - (at(s, j) - at(s, i))
           fine(m) == /\ i \in DOMAIN seen[s] /\ j \in DOMAIN seen[s]
                      /\ IF m = s THEN off(m) = 0 ELSE -w[m] < off(m) /\ off(m) < w[m]
           bad == {m \in Nodes : i \in DOMAIN seen[m] /\ j \in DOMAIN seen[m] /\ ~fine(m)}
           T == {d[m] : m \in bad}
<1>4. /\ \A m \in Nodes : d[m] \in Nat /\ w[m] \in Nat /\ w[m] <= Rounding
      /\ d[s] = 0 /\ w[s] = 0 /\ Rounding \in Nat
  BY <1>2, NetFacts DEF Rooted, TypeOK
<1>5. \A m \in Nodes : \A k \in DOMAIN seen[m] : at(m, k) \in Nat
  <2>1. \A m \in Nodes : \A k \in DOMAIN seen[m] : seen[m][k] \in Records
    BY DEF TypeOK
  <2> QED BY <2>1 DEF Records
\* A link adds less than its ratio.
<1>6. ASSUME NEW m \in Nodes \ {s}, i \in DOMAIN seen[m], j \in DOMAIN seen[m]
      PROVE  \E l \in net.links : /\ l.from \in Nodes /\ d[l.from] < d[m]
                                  /\ i \in DOMAIN seen[l.from] /\ j \in DOMAIN seen[l.from]
                                  /\ fine(l.from) => fine(m)
  <2>1. PICK l \in net.links : l.to = m /\ Down(l, d)
    BY <1>2 DEF Rooted
  <2> DEFINE f == l.format
             a == seen[l.from]
             b == seen[m]
             r == Ratio[f]
             z == Lost(a, f)
  <2>2. l.from \in Nodes /\ d[l.from] < d[m] /\ r \in Nat /\ r > 0 /\ Period[f] \in Nat /\ Period[f] > 0
    BY <1>4, <2>1, NetFacts DEF TypeOK, Down, Timely
  <2>3. w[m] = w[l.from] + r
    BY <1>2, <2>1 DEF Rooted
  <2>4. LinkOK(f, a, b, flying[l], mlat[l], d[l.from] + 1)
    BY <1>2, <2>1 DEF Timed
  <2>5. /\ a \in Seq(Records) /\ b \in Seq(Records) /\ flying[l] \in Seq(Messages)
    BY <2>2 DEF TypeOK
  <2>6. /\ Len(a) = Len(b) + Len(flying[l])
        /\ at(m, i) = r * (Tick(a, f, i) - z) /\ at(m, j) = r * (Tick(a, f, j) - z)
    BY <1>6, <2>4 DEF LinkOK
  <2>7. i \in DOMAIN a /\ j \in DOMAIN a /\ 1 \in DOMAIN a
    <3>1. /\ DOMAIN a = 1..Len(a) /\ DOMAIN b = 1..Len(b)
          /\ Len(a) \in Nat /\ Len(b) \in Nat /\ Len(flying[l]) \in Nat
      BY <2>5
    <3> HIDE DEF a, b
    <3>2. i \in 1..Len(b) /\ j \in 1..Len(b)
      BY <1>6, <3>1 DEF b
    <3> QED BY <2>6, <3>1, <3>2
  <2>8. Tick(a, f, i) = at(l.from, i) \div r /\ Tick(a, f, j) = at(l.from, j) \div r
    BY DEF Tick
  <2>9. z \in Int
    <3> DEFINE o == at(l.from, 1)
    <3>1. o \in Nat
      BY <1>5, <2>2, <2>7
    <3>2. z = Period[f] * ((o \div r) \div Period[f])
      BY DEF Lost, Tick
    <3> HIDE DEF o, z, r
    <3>3. o \div r \in Nat
      BY <2>2, <3>1, DivMod
    <3>4. (o \div r) \div Period[f] \in Nat
      BY <2>2, <3>3, DivMod
    <3> QED BY <2>2, <3>2, <3>4
  <2> DEFINE t == at(l.from, i)
             u == at(l.from, j)
             e == (at(m, j) - at(m, i)) - (u - t)
  <2>10. t \in Nat /\ u \in Nat
    BY <1>5, <2>2, <2>7
  <2>11. e \in Int /\ -r < e /\ e < r
    <3>1. at(m, i) = r * ((t \div r) - z) /\ at(m, j) = r * ((u \div r) - z)
      BY <2>6, <2>8
    <3> HIDE DEF at, t, u, r, z
    <3> QED BY <2>2, <2>9, <2>10, <3>1, LinkRounds
  <2>12. ASSUME fine(l.from) PROVE fine(m)
    <3>1. at(m, i) \in Nat /\ at(m, j) \in Nat /\ at(s, i) \in Nat /\ at(s, j) \in Nat
      BY <1>3, <1>5, <1>6, <2>12
    <3>2. -w[l.from] <= off(l.from) /\ off(l.from) <= w[l.from] /\ off(l.from) \in Int
      BY <1>4, <2>2, <2>10, <2>12, <3>1
    <3>3. off(m) = e + off(l.from) /\ off(m) \in Int
      <4> HIDE DEF at
      <4> QED BY <2>10, <3>1
    <3> HIDE DEF off, e
    <3>4. -w[m] < off(m) /\ off(m) < w[m]
      BY <1>4, <2>2, <2>3, <2>11, <3>2, <3>3
    <3> QED BY <2>12, <3>4
  <2> HIDE DEF fine
  <2> QED BY <2>2, <2>7, <2>12
<1>7. bad = {}
  <2> SUFFICES ASSUME bad # {} PROVE FALSE
    OBVIOUS
  <2>1. PICK m \in bad : \A k \in bad : d[m] <= d[k]
    <3>1. T \in SUBSET Nat /\ T # {}
      <4> HIDE DEF fine
      <4> QED BY <1>4
    <3>2. PICK t \in T : \A u \in T : t <= u
      <4> HIDE DEF T
      <4> QED BY <3>1, LeastNat
    <3> HIDE DEF bad
    <3> QED BY <3>2
  <2>2. m \in Nodes /\ i \in DOMAIN seen[m] /\ j \in DOMAIN seen[m] /\ ~fine(m)
    <3> HIDE DEF fine
    <3> QED BY <2>1
  <2>3. m # s
    <3> SUFFICES ASSUME m = s PROVE FALSE
      OBVIOUS
    <3>1. at(s, i) \in Nat /\ at(s, j) \in Nat
      BY <1>3, <1>5, <2>2
    <3>2. off(s) = 0
      <4> HIDE DEF at
      <4> QED BY <3>1
    <3> HIDE DEF off
    <3> QED BY <2>2, <3>2
  <2> HIDE DEF fine
  <2>4. m \in Nodes \ {s}
    BY <2>2, <2>3
  <2>5. \E l \in net.links : /\ l.from \in Nodes /\ d[l.from] < d[m]
                             /\ i \in DOMAIN seen[l.from] /\ j \in DOMAIN seen[l.from]
                             /\ fine(l.from) => fine(m)
    BY <1>6, <2>2, <2>4
  <2>6. PICK l \in net.links : /\ l.from \in Nodes /\ d[l.from] < d[m]
                               /\ i \in DOMAIN seen[l.from] /\ j \in DOMAIN seen[l.from]
                               /\ fine(l.from) => fine(m)
    BY <2>5
  <2>7. l.from \in bad
    <3>1. ~fine(l.from)
      BY <2>2, <2>6, Zenon
    <3>2. l.from \in Nodes /\ i \in DOMAIN seen[l.from] /\ j \in DOMAIN seen[l.from]
      BY <2>6, Zenon
    <3> QED BY <3>1, <3>2
  <2>8. d[m] <= d[l.from]
    <3> HIDE DEF bad
    <3> QED BY <2>1, <2>7
  <2>9. d[l.from] < d[m] /\ d[l.from] \in Nat /\ d[m] \in Nat
    <3>1. d[l.from] < d[m] /\ l.from \in Nodes
      BY <2>6, Zenon
    <3> QED BY <1>4, <2>4, <3>1
  <2> QED BY <2>8, <2>9
<1>8. fine(n)
  <2> HIDE DEF fine
  <2> SUFFICES ASSUME ~fine(n) PROVE FALSE
    OBVIOUS
  <2>1. n \in bad
    OBVIOUS
  <2> QED BY <1>7, <2>1
<1>9. -w[n] < off(n) /\ off(n) < w[n] /\ i \in DOMAIN seen[s] /\ j \in DOMAIN seen[s]
  BY <1>3, <1>8
<1>10. off(n) \in Int
  <2>1. at(n, i) \in Nat /\ at(n, j) \in Nat /\ at(s, i) \in Nat /\ at(s, j) \in Nat
    BY <1>3, <1>5, <1>9
  <2> HIDE DEF at
  <2> QED BY <2>1
<1>11. off(n) = (seen[n][j].mlat_timestamp - seen[n][i].mlat_timestamp)
                - (seen[src][j].mlat_timestamp - seen[src][i].mlat_timestamp)
  BY <1>3
<1> HIDE DEF off
<1>12. -Rounding < off(n) /\ off(n) < Rounding
  BY <1>4, <1>9, <1>10
<1> QED BY <1>11, <1>12


\* Whatever the formats on the way, their rates and widths, and however many
\* processes there are: where connections make no loop and none broke, one
\* source feeds the network, every format has timestamps and packets come often
\* enough, the time between two packets reaches every process with less than
\* the rounding of the links as its error (packet.c:29, packet.c:44).
THEOREM TimeSurvives == Spec => []TimeKept
<1>1. Init => TypeOK /\ TimeInv
  BY TypeInit, TimeInit
<1>2. (TypeOK /\ TimeInv) /\ [Next]_vars => (TypeOK /\ TimeInv)'
  BY TypeNext, TimeNext
<1>3. TypeOK /\ TimeInv => TimeKept
  BY TimeHolds
<1> QED BY <1>1, <1>2, <1>3, PTL DEF Spec

=============================================================================
