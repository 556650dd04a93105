----------------------------- MODULE Bus_proofs -----------------------------
(***************************************************************************)
(* Theorems about Bus, for any set of options, any number of connections   *)
(* and any size of a batch of events.                                      *)
(***************************************************************************)
EXTENDS Bus, FiniteSetTheorems, TLAPS

(***************************************************************************)
(* The inductive invariant.  While the loop runs (shutdown is false) the   *)
(* handler installed in a transport determines everything else about it;   *)
(* each connection knows which of its halves are left; and every peer the  *)
(* kernel may hand out, now or later, leads to an object that is there.    *)
(***************************************************************************)

\* TypeOK, in parts, and without the claim that no counter wraps, which is
\* CountsExact's.
LoopShape ==
  /\ phase \in Phases
  /\ shutdown \in BOOLEAN
  /\ ready \subseteq Peers /\ batch \subseteq Peers
ConnShape ==
  /\ recv \subseteq Conns /\ snd \subseteq Conns
  /\ sr \in [Conns -> 0..2]
  /\ owner \in [Conns -> Transports \cup {NoOwner}]
  /\ regular \subseteq Conns
TransShape ==
  /\ alive \subseteq Transports
  /\ handler \in [Transports -> Handlers]
  /\ reg \in [Transports -> BOOLEAN]
  /\ wake \in [Transports -> Nat]
  /\ armed \subseteq Transports
  /\ retry \in [Transports -> BOOLEAN]
  /\ child \in [Transports -> {"none", "running", "zombie"}]
  /\ log \in [Transports -> BOOLEAN]
Shape ==
  /\ LoopShape /\ ConnShape /\ TransShape
  /\ broken \subseteq Conns
  /\ count \in [Flows -> Int]

\* The flag is set before the clean-up starts, and only once the loop ran.
FlagMatchesPhase ==
  /\ phase \in InitPhases \cup {"loop", "exited"} => ~shutdown
  /\ phase \in CleanPhases \cup {"done"} => shutdown

\* The handlers of a kind of transport.
HandlersOf(k) ==
  CASE k = "outgoing" -> {"resolved", "connected", "closed", "retry"}
    [] k = "incoming" -> {"resolved", "accept", "retry"}
    [] k = "file"     -> {"closed", "retry"}
    [] k = "exec"     -> {"died", "retry"}

Has(t, hs) == t \in alive /\ handler[t] \in hs

\* What the installed handler says of a transport.
Mode(t) ==
  /\ t \in alive => handler[t] \in HandlersOf(Kind[t])
  /\ reg[t] <=> Has(t, {"resolved", "connected", "accept"})
  /\ wake[t] = IF Has(t, {"retry"}) THEN 1 ELSE 0
  /\ child[t] # "none" <=> Has(t, {"died"})
  /\ log[t] => Has(t, {"died"})
  /\ Has(t, {"closed"}) => \E c \in Conns : owner[c] = t
  /\ \A c \in Conns : owner[c] = t => Has(t, {"closed"})
  /\ \A c, d \in Conns : owner[c] = t /\ owner[d] = t => c = d

Modes == ~shutdown => \A t \in Transports : Mode(t)

\* ref_count tells which halves of a connection are left, and a connection
\* without any has no on_close.
Halves(c) ==
  /\ sr[c] = 2 <=> c \in recv /\ c \in snd
  /\ sr[c] = 1 => c \in recv \/ c \in snd
  /\ c \notin recv /\ c \notin snd => owner[c] = NoOwner

ConnsWhole == ~shutdown => \A c \in Conns : Halves(c)

\* Not only what was fetched (NoDanglingPeer) but also what may be fetched;
\* and only an exec, which is never freed while the loop runs, has a log.
PeerOK(p) == Valid(p) /\ \A t \in Transports : p = LogPeer(t) => Kind[t] = "exec"

PeersValid == ~shutdown => \A p \in ready \cup batch : PeerOK(p)

IInv == /\ Shape /\ FlagMatchesPhase /\ Modes /\ ConnsWhole /\ PeersValid
        /\ CountsExact

-----------------------------------------------------------------------------
(* The counters *)

\* CountsExact as a relation: n counts the receives r, the sends s and the
\* transports a.
CountsOf(n, r, s, a) ==
  /\ n["receive"] = Cardinality(r) + Cardinality({t \in a : FlowOf[t] = "receive"})
  /\ n["send"] = Cardinality(s) + Cardinality({t \in a : FlowOf[t] = "send"})
  /\ n["send_receive"] = Cardinality({t \in a : FlowOf[t] = "send_receive"})

\* What holds of connections and transports while the loop runs.
Body ==
  /\ ConnShape /\ TransShape /\ count \in [Flows -> Int]
  /\ \A c \in Conns : Halves(c)
  /\ \A t \in Transports : Mode(t)
  /\ CountsOf(count, recv, snd, alive)

LEMMA CountsExactIsCountsOf == CountsExact <=> CountsOf(count, recv, snd, alive)
BY DEF CountsExact, CountsOf, TransportsOf

\* The sets that are counted are finite.
LEMMA Finite ==
  /\ \A a \in SUBSET Transports :
       IsFiniteSet(a) /\ \A f \in Flows : IsFiniteSet({t \in a : FlowOf[t] = f})
  /\ \A r \in SUBSET Conns : IsFiniteSet(r)
<1>1. \A a \in SUBSET Transports : \A f \in Flows : {t \in a : FlowOf[t] = f} \subseteq Transports
  OBVIOUS
<1> QED BY <1>1, FS_Subset, BusAssumption DEF BusAssumption

\* flow_ref_inc() when a transport is created.
LEMMA CountsTransportNew ==
  ASSUME NEW n \in [Flows -> Int], NEW r \in SUBSET Conns, NEW s \in SUBSET Conns,
         NEW a \in SUBSET Transports, NEW t \in Transports \ a, CountsOf(n, r, s, a)
  PROVE  CountsOf([n EXCEPT ![FlowOf[t]] = @ + 1], r, s, a \cup {t})
<1>1. FlowOf[t] \in Flows
  BY BusAssumption DEF BusAssumption
<1>2. ASSUME NEW f \in Flows
      PROVE  Cardinality({u \in a \cup {t} : FlowOf[u] = f})
               = Cardinality({u \in a : FlowOf[u] = f}) + (IF FlowOf[t] = f THEN 1 ELSE 0)
  <2>1. IsFiniteSet({u \in a : FlowOf[u] = f}) /\ Cardinality({u \in a : FlowOf[u] = f}) \in Nat
    BY Finite, FS_CardinalityType
  <2>2. CASE FlowOf[t] = f
    <3>1. {u \in a \cup {t} : FlowOf[u] = f} = {u \in a : FlowOf[u] = f} \cup {t}
      BY <2>2
    <3> QED BY <2>1, <2>2, <3>1, FS_AddElement
  <2>3. CASE FlowOf[t] # f
    <3>1. {u \in a \cup {t} : FlowOf[u] = f} = {u \in a : FlowOf[u] = f}
      BY <2>3
    <3> QED BY <2>1, <2>3, <3>1
  <2> QED BY <2>2, <2>3
<1>3. Cardinality(r) \in Nat /\ Cardinality(s) \in Nat
  BY Finite, FS_CardinalityType
<1>4. \A f \in Flows : Cardinality({u \in a : FlowOf[u] = f}) \in Nat
  BY Finite, FS_CardinalityType
<1> QED BY <1>1, <1>2, <1>3, <1>4 DEF CountsOf, Flows

\* flow_ref_dec() when a transport is freed.
LEMMA CountsTransportDel ==
  ASSUME NEW n \in [Flows -> Int], NEW r \in SUBSET Conns, NEW s \in SUBSET Conns,
         NEW a \in SUBSET Transports, NEW t \in a, CountsOf(n, r, s, a)
  PROVE  CountsOf([n EXCEPT ![FlowOf[t]] = @ - 1], r, s, a \ {t})
<1>1. FlowOf[t] \in Flows
  BY BusAssumption DEF BusAssumption
<1>2. ASSUME NEW f \in Flows
      PROVE  Cardinality({u \in a \ {t} : FlowOf[u] = f})
               = Cardinality({u \in a : FlowOf[u] = f}) - (IF FlowOf[t] = f THEN 1 ELSE 0)
  <2>1. IsFiniteSet({u \in a : FlowOf[u] = f}) /\ Cardinality({u \in a : FlowOf[u] = f}) \in Nat
    BY Finite, FS_CardinalityType
  <2>2. CASE FlowOf[t] = f
    <3> DEFINE T == {u \in a : FlowOf[u] = f}
    <3>1. {u \in a \ {t} : FlowOf[u] = f} = T \ {t} /\ t \in T
      BY <2>2
    <3>2. IsFiniteSet(T)
      BY <2>1
    <3>3. Cardinality(T \ {t}) = Cardinality(T) - 1
      <4> HIDE DEF T
      <4> QED BY <3>1, <3>2, FS_RemoveElement
    <3> QED BY <2>2, <3>1, <3>3
  <2>3. CASE FlowOf[t] # f
    <3>1. {u \in a \ {t} : FlowOf[u] = f} = {u \in a : FlowOf[u] = f}
      BY <2>3
    <3> QED BY <2>1, <2>3, <3>1
  <2> QED BY <2>2, <2>3
<1>3. Cardinality(r) \in Nat /\ Cardinality(s) \in Nat
  BY Finite, FS_CardinalityType
<1>4. \A f \in Flows : Cardinality({u \in a : FlowOf[u] = f}) \in Nat
  BY Finite, FS_CardinalityType
<1> QED BY <1>1, <1>2, <1>3, <1>4 DEF CountsOf, Flows

\* The counters when one half of a connection is deleted.
LEMMA CountsHalfDel ==
  ASSUME NEW n \in [Flows -> Int], NEW r \in SUBSET Conns, NEW s \in SUBSET Conns,
         NEW a \in SUBSET Transports, NEW c \in Conns, CountsOf(n, r, s, a)
  PROVE  /\ c \in r => CountsOf([n EXCEPT !["receive"] = @ - 1], r \ {c}, s, a)
         /\ c \in s => CountsOf([n EXCEPT !["send"] = @ - 1], r, s \ {c}, a)
<1>1. /\ IsFiniteSet(r) /\ Cardinality(r) \in Nat
      /\ IsFiniteSet(s) /\ Cardinality(s) \in Nat
  BY Finite, FS_CardinalityType
<1>2. \A f \in Flows : Cardinality({u \in a : FlowOf[u] = f}) \in Nat
  BY Finite, FS_CardinalityType
<1>3. /\ c \in r => Cardinality(r \ {c}) = Cardinality(r) - 1
      /\ c \in s => Cardinality(s \ {c}) = Cardinality(s) - 1
  BY <1>1, FS_RemoveElement
<1> QED BY <1>1, <1>2, <1>3 DEF CountsOf, Flows

-----------------------------------------------------------------------------
(* A new connection *)

LEMMA FlowNewEffect ==
  ASSUME ConnShape, \A d \in Conns : Halves(d), NEW a \in SUBSET Transports,
         NEW c \in Conns, NEW f \in Flows, NEW o \in Transports \cup {NoOwner},
         NEW isRegular, FlowNew(c, f, o, isRegular),
         NEW n \in [Flows -> Int], CountsOf(n, recv, snd, a)
  PROVE  /\ ConnShape' /\ \A d \in Conns : Halves(d)'
         /\ recv \subseteq recv' /\ snd \subseteq snd'
         /\ owner[c] = NoOwner /\ owner' = [owner EXCEPT ![c] = o]
         /\ CountNew(n, f) \in [Flows -> Int]
         /\ CountsOf(CountNew(n, f), recv', snd', a)
<1>1. c \notin recv /\ c \notin snd /\ sr[c] = 0 /\ owner[c] = NoOwner
  BY DEF FlowNew, FreeConns, Halves
<1>2. ConnShape'
  BY DEF FlowNew, ConnShape
<1>3. \A d \in Conns : Halves(d)'
  <2> SUFFICES ASSUME NEW d \in Conns PROVE Halves(d)'
    OBVIOUS
  <2>1. CASE d = c
    BY <1>1, <2>1 DEF FlowNew, ConnShape, Halves, HasReceive, HasSend, Flows
  <2>2. CASE d # c
    BY <1>1, <2>2 DEF FlowNew, ConnShape, Halves
  <2> QED BY <2>1, <2>2
<1>4. recv \subseteq recv' /\ snd \subseteq snd'
  BY DEF FlowNew
<1>5. owner' = [owner EXCEPT ![c] = o]
  BY DEF FlowNew
<1>6. CountNew(n, f) \in [Flows -> Int]
  BY DEF CountNew, Flows
<1>7. CountsOf(CountNew(n, f), recv', snd', a)
  <2>1. /\ IsFiniteSet(recv) /\ Cardinality(recv) \in Nat
        /\ IsFiniteSet(snd) /\ Cardinality(snd) \in Nat
    BY Finite, FS_CardinalityType DEF ConnShape
  <2>2. \A g \in Flows : Cardinality({u \in a : FlowOf[u] = g}) \in Nat
    BY Finite, FS_CardinalityType
  <2>3. /\ Cardinality(recv \cup {c}) = Cardinality(recv) + 1
        /\ Cardinality(snd \cup {c}) = Cardinality(snd) + 1
    BY <1>1, <2>1, FS_AddElement
  <2> QED BY <2>1, <2>2, <2>3 DEF FlowNew, CountNew, CountsOf, HasReceive, HasSend, Flows
<1> QED BY <1>1, <1>2, <1>3, <1>4, <1>5, <1>6, <1>7

-----------------------------------------------------------------------------
(* Transports *)

\* A step that does not touch transport u leaves it in its mode.
LEMMA ModeFrame ==
  ASSUME NEW u \in Transports, Mode(u),
         handler'[u] = handler[u], reg'[u] = reg[u], wake'[u] = wake[u],
         child'[u] # "none" <=> child[u] # "none",
         log'[u] => log[u], u \in alive' <=> u \in alive,
         \A c \in Conns : owner'[c] = u <=> owner[c] = u
  PROVE  Mode(u)'
BY DEF Mode, Has

\* A transport at rest: nothing will call it until it is started.
AtRest(t, w) ==
  /\ w \in [Transports -> Nat] /\ w[t] = 0
  /\ \A u \in Transports : u # t => w[u] = wake[u]
  /\ ~reg[t] /\ child[t] = "none" /\ ~log[t]
  /\ \A c \in Conns : owner[c] # t

\* Start() puts a transport at rest into one of its modes and leaves the
\* others alone.
LEMMA StartEffect ==
  ASSUME ConnShape, TransShape, \A d \in Conns : Halves(d),
         NEW t \in Transports, NEW w, AtRest(t, w),
         NEW n \in [Flows -> Int], CountsOf(n, recv, snd, alive'),
         alive' = alive \cup {t},
         \A u \in Transports : u # t => Mode(u),
         Start(t, w, n)
  PROVE  /\ Body'
         /\ recv \subseteq recv' /\ snd \subseteq snd'
         /\ \A u \in Transports : u # t => reg'[u] = reg[u] /\ wake'[u] = wake[u]
<1> USE DEF Body
<1> DEFINE Goal ==
      /\ Body'
      /\ recv \subseteq recv' /\ snd \subseteq snd'
      /\ \A u \in Transports : u # t => reg'[u] = reg[u] /\ wake'[u] = wake[u]
<1>0. FlowOf[t] \in Flows /\ Kind[t] \in Kinds /\ NoOwner \notin Transports
  BY BusAssumption DEF BusAssumption
<1>1. alive' \subseteq Transports /\ t \in alive'
  BY DEF TransShape
<1>2. ASSUME NEW d \in Delays PROVE d \in Nat
  BY BusAssumption DEF BusAssumption
<1>3. CASE Kind[t] \in {"outgoing", "incoming"} /\ Resolve(t, w, n)
  <2>1. UNCHANGED connVars /\ count' = n
    BY <1>3 DEF Resolve
  <2>2. ConnShape' /\ (\A d \in Conns : Halves(d)') /\ recv' = recv /\ snd' = snd
    BY <2>1 DEF connVars, ConnShape, Halves
  <2>3. TransShape'
    BY <1>1, <1>3 DEF Resolve, AtRest, TransShape, Handlers
  <2>4. Mode(t)'
    BY <1>1, <1>3, <2>1 DEF Resolve, AtRest, TransShape, Mode, Has, HandlersOf, connVars
  <2>5. ASSUME NEW u \in Transports, u # t PROVE Mode(u)'
    BY <1>3, <2>1, <2>5, ModeFrame DEF Resolve, AtRest, TransShape, connVars
  <2>6. \A u \in Transports : u # t => reg'[u] = reg[u] /\ wake'[u] = wake[u]
    BY <1>3 DEF Resolve, AtRest, TransShape
  <2> QED BY <2>1, <2>2, <2>3, <2>4, <2>5, <2>6
<1>4. ASSUME Retry(t, w), UNCHANGED <<connVars, reg, child, log>>,
             retry' \in [Transports -> BOOLEAN], count' = n, Kind[t] = "file"
      PROVE  Goal
  <2>1. ConnShape' /\ (\A d \in Conns : Halves(d)') /\ recv' = recv /\ snd' = snd
    BY <1>4 DEF connVars, ConnShape, Halves
  <2>2. TransShape' /\ wake' = [w EXCEPT ![t] = 1] /\ handler' = [handler EXCEPT ![t] = "retry"]
    BY <1>1, <1>2, <1>4 DEF Retry, WakeupAdd, AtRest, TransShape, Handlers
  <2>3. Mode(t)'
    BY <1>1, <1>4, <2>2 DEF AtRest, TransShape, Mode, Has, HandlersOf, connVars
  <2>4. ASSUME NEW u \in Transports, u # t PROVE Mode(u)'
    BY <1>4, <2>2, <2>4, ModeFrame DEF AtRest, TransShape, connVars
  <2>5. \A u \in Transports : u # t => reg'[u] = reg[u] /\ wake'[u] = wake[u]
    BY <1>4, <2>2 DEF AtRest, TransShape
  <2> QED BY <1>4, <2>1, <2>2, <2>3, <2>4, <2>5
<1>5. ASSUME NEW c \in Conns, NEW isRegular \in BOOLEAN,
             FlowNew(c, FlowOf[t], t, isRegular), count' = CountNew(n, FlowOf[t]),
             handler' = [handler EXCEPT ![t] = "closed"], wake' = w,
             retry' \in [Transports -> BOOLEAN], UNCHANGED <<armed, reg, child, log>>,
             Kind[t] = "file"
      PROVE  Goal
  <2>1. /\ ConnShape' /\ (\A d \in Conns : Halves(d)')
        /\ recv \subseteq recv' /\ snd \subseteq snd'
        /\ owner[c] = NoOwner /\ owner' = [owner EXCEPT ![c] = t]
        /\ count' \in [Flows -> Int] /\ CountsOf(count', recv', snd', alive')
    <3>1. t \in Transports \cup {NoOwner} /\ alive' \in SUBSET Transports
      BY <1>1
    <3>2. /\ FlowNew(c, FlowOf[t], t, isRegular)
          /\ count' = CountNew(n, FlowOf[t])
      BY <1>5
    <3> QED BY <1>0, <3>1, <3>2, FlowNewEffect
  <2>2. TransShape'
    BY <1>1, <1>5 DEF AtRest, TransShape, Handlers
  <2>3. \A d \in Conns : owner'[d] = t <=> d = c
    BY <2>1 DEF AtRest, ConnShape
  <2>4. Mode(t)'
    BY <1>1, <1>5, <2>3 DEF AtRest, TransShape, Mode, Has, HandlersOf
  <2>5. ASSUME NEW u \in Transports, u # t PROVE Mode(u)'
    <3>1. \A d \in Conns : owner'[d] = u <=> owner[d] = u
      BY <1>0, <2>1, <2>5 DEF ConnShape
    <3> QED BY <1>5, <2>5, <3>1, ModeFrame DEF AtRest, TransShape
  <2>6. \A u \in Transports : u # t => reg'[u] = reg[u] /\ wake'[u] = wake[u]
    BY <1>5 DEF AtRest, TransShape
  <2> QED BY <2>1, <2>2, <2>4, <2>5, <2>6
<1>6. ASSUME ExecSpawn(t, w, n), Kind[t] = "exec"
      PROVE  Goal
  <2>1. /\ ConnShape' /\ (\A d \in Conns : Halves(d)')
        /\ recv \subseteq recv' /\ snd \subseteq snd'
        /\ \A d \in Conns : owner'[d] # owner[d] => owner[d] = NoOwner /\ owner'[d] = NoOwner
        /\ count' \in [Flows -> Int] /\ CountsOf(count', recv', snd', alive')
    <3>1. CASE UNCHANGED connVars /\ count' = n
      BY <3>1 DEF connVars, ConnShape, Halves
    <3>2. ASSUME NEW c \in Conns, FlowNew(c, FlowOf[t], NoOwner, FALSE),
                 count' = CountNew(n, FlowOf[t])
          PROVE  <2>1!:
      <4>1. NoOwner \in Transports \cup {NoOwner} /\ alive' \in SUBSET Transports
        BY <1>1
      <4>2. /\ ConnShape' /\ (\A d \in Conns : Halves(d)')
            /\ recv \subseteq recv' /\ snd \subseteq snd'
            /\ owner[c] = NoOwner /\ owner' = [owner EXCEPT ![c] = NoOwner]
            /\ count' \in [Flows -> Int] /\ CountsOf(count', recv', snd', alive')
        BY <1>0, <3>2, <4>1, FlowNewEffect
      <4> QED BY <4>2 DEF ConnShape
    <3> QED BY <1>6, <3>1, <3>2 DEF ExecSpawn
  <2>2. TransShape'
    BY <1>1, <1>6 DEF ExecSpawn, AtRest, TransShape, Handlers
  <2>3. Mode(t)'
    BY <1>0, <1>1, <1>6, <2>1 DEF ExecSpawn, AtRest, TransShape, Mode, Has, HandlersOf
  <2>4. ASSUME NEW u \in Transports, u # t PROVE Mode(u)'
    BY <1>0, <1>6, <2>1, <2>4, ModeFrame DEF ExecSpawn, AtRest, TransShape
  <2>5. \A u \in Transports : u # t => reg'[u] = reg[u] /\ wake'[u] = wake[u]
    BY <1>6 DEF ExecSpawn, AtRest, TransShape
  <2> QED BY <2>1, <2>2, <2>3, <2>4, <2>5
<1>7. ASSUME FileOpen(t, w, n), Kind[t] = "file"
      PROVE  Goal
  <2>1. retry' \in [Transports -> BOOLEAN]
    BY <1>7 DEF FileOpen, TransShape
  <2> HIDE DEF Goal
  <2> QED BY <1>4, <1>5, <1>7, <2>1 DEF FileOpen
<1> QED BY <1>3, <1>6, <1>7 DEF Start

-----------------------------------------------------------------------------
(* Deleting half a connection *)

LEMMA HalfDelEffect ==
  ASSUME Body,
         NEW c \in Conns, NEW f \in {"receive", "send"},
         c \in (IF f = "receive" THEN recv ELSE snd), HalfDel(c, f)
  PROVE  /\ Body'
         /\ recv' = (IF f = "receive" THEN recv \ {c} ELSE recv)
         /\ snd' = (IF f = "send" THEN snd \ {c} ELSE snd)
         /\ reg' = reg /\ \A u \in Transports : wake[u] > 0 => wake'[u] = wake[u]
         /\ \A u \in alive : u \notin alive' => Kind[u] = "file" /\ Has(u, {"closed"})
<1> USE DEF Body
<1> DEFINE n == [count EXCEPT ![f] = @ - 1]
<1>0. NoOwner \notin Transports /\ f \in Flows
  BY BusAssumption DEF BusAssumption, Flows
<1>1. /\ recv' = (IF f = "receive" THEN recv \ {c} ELSE recv)
      /\ snd' = (IF f = "send" THEN snd \ {c} ELSE snd)
      /\ sr' = [sr EXCEPT ![c] = IF LastHalf(c) THEN 0 ELSE @ - 1]
      /\ owner' = IF LastHalf(c) THEN [owner EXCEPT ![c] = NoOwner] ELSE owner
  BY DEF HalfDel
<1>2. ConnShape'
  BY <1>1 DEF HalfDel, ConnShape, LastHalf
<1>3. LastHalf(c) <=> ~(c \in recv /\ c \in snd)
  BY DEF LastHalf, Halves, ConnShape
<1>4. \A d \in Conns : Halves(d)'
  <2> SUFFICES ASSUME NEW d \in Conns PROVE Halves(d)'
    OBVIOUS
  <2>1. CASE d = c
    BY <1>0, <1>1, <1>3, <2>1 DEF ConnShape, Halves
  <2>2. CASE d # c
    BY <1>1, <2>2 DEF ConnShape, Halves
  <2> QED BY <2>1, <2>2
<1>5. n \in [Flows -> Int] /\ CountsOf(n, recv', snd', alive)
  <2>1. recv \in SUBSET Conns /\ snd \in SUBSET Conns /\ alive \in SUBSET Transports
    BY DEF ConnShape, TransShape
  <2>2. CASE f = "receive"
    <3>1. CountsOf([count EXCEPT !["receive"] = @ - 1], recv \ {c}, snd, alive)
      BY <2>1, <2>2, CountsHalfDel
    <3> QED BY <1>0, <1>1, <2>2, <3>1
  <2>3. CASE f = "send"
    <3>1. CountsOf([count EXCEPT !["send"] = @ - 1], recv, snd \ {c}, alive)
      BY <2>1, <2>3, CountsHalfDel
    <3> QED BY <1>0, <1>1, <2>3, <3>1
  <2> QED BY <2>2, <2>3
<1> DEFINE freed == CallsOwner(c) /\ TransportFreed(owner[c])
<1>8. count' = IF freed THEN [n EXCEPT ![FlowOf[owner[c]]] = @ - 1] ELSE n
  <2>1. count' = CountDel(c, f)
    BY DEF HalfDel
  <2>2. count' = [g \in Flows |-> n[g] - (IF freed /\ FlowOf[owner[c]] = g THEN 1 ELSE 0)]
    BY <1>0, <2>1 DEF CountDel
  <2>3. CASE ~freed
    <3>1. \A g \in Flows : n[g] - 0 = n[g]
      BY <1>5
    <3> HIDE DEF n, freed
    <3> QED BY <1>5, <2>2, <2>3, <3>1
  <2>4. CASE freed
    <3>1. \A g \in Flows : n[g] - 0 = n[g]
      BY <1>5
    <3> HIDE DEF n, freed
    <3> QED BY <1>5, <2>2, <2>4, <3>1
  <2> QED BY <2>3, <2>4
<1>6. CASE ~CallsOwner(c)
  <2>1. UNCHANGED transVars /\ count' = n
    BY <1>6, <1>8 DEF HalfDel
  <2>2. LastHalf(c) => owner[c] = NoOwner
    BY <1>6 DEF CallsOwner
  <2>3. owner' = owner
    BY <1>1, <2>2 DEF ConnShape
  <2>4. TransShape'
    BY <2>1 DEF transVars, TransShape
  <2>5. \A u \in Transports : Mode(u)'
    BY <2>1, <2>3, ModeFrame DEF transVars
  <2> QED BY <1>1, <1>2, <1>4, <1>5, <2>1, <2>4, <2>5 DEF transVars
<1>7. CASE CallsOwner(c)
  <2>0. PICK t \in Transports : t = owner[c]
    BY <1>7 DEF CallsOwner, ConnShape
  <2>1. /\ TransportClosed(t)
        /\ owner' = [owner EXCEPT ![c] = NoOwner]
    BY <1>1, <1>7, <2>0 DEF HalfDel, CallsOwner
  <2>2. Has(t, {"closed"}) /\ \A d \in Conns : owner[d] = t <=> d = c
    BY <2>0 DEF Mode
  <2>3. \A d \in Conns, u \in Transports :
           owner'[d] = u <=> (owner[d] = u /\ u # t)
    BY <1>0, <2>0, <2>1, <2>2 DEF ConnShape
  <2>4. CASE TransportFreed(t)
    <3>1. /\ alive' = alive \ {t} /\ Kind[t] = "file"
          /\ UNCHANGED <<handler, reg, wake, armed, retry, child, log>>
      BY <2>1, <2>4 DEF TransportClosed, TransportFreed
    <3>2. count' = [n EXCEPT ![FlowOf[t]] = @ - 1]
      BY <1>7, <1>8, <2>0, <2>4
    <3>3. CountsOf(count', recv', snd', alive') /\ count' \in [Flows -> Int]
      <4>1. /\ recv' \in SUBSET Conns /\ snd' \in SUBSET Conns
            /\ alive \in SUBSET Transports /\ t \in alive /\ FlowOf[t] \in Flows
        BY <1>2, <2>1, <2>2, BusAssumption DEF ConnShape, TransShape, Has, BusAssumption
      <4> HIDE DEF n
      <4>2. CountsOf([n EXCEPT ![FlowOf[t]] = @ - 1], recv', snd', alive \ {t})
        BY <1>5, <4>1, CountsTransportDel
      <4> QED BY <1>5, <3>1, <3>2, <4>1, <4>2
    <3>4. TransShape'
      BY <3>1 DEF TransShape
    <3>5. Mode(t)'
      <4>1. ~reg[t] /\ wake[t] = 0 /\ child[t] = "none" /\ ~log[t]
        BY <2>1, <2>2 DEF Mode, Has
      <4>2. t \notin alive' /\ \A d \in Conns : owner'[d] # t
        BY <2>1, <2>3, <3>1
      <4> QED BY <3>1, <4>1, <4>2 DEF Mode, Has
    <3>6. ASSUME NEW u \in Transports, u # t PROVE Mode(u)'
      BY <2>3, <3>1, <3>6, ModeFrame
    <3>7. \A u \in Transports : Mode(u)'
      BY <3>5, <3>6
    <3>8. \A u \in alive : u \notin alive' => Kind[u] = "file" /\ Has(u, {"closed"})
      BY <2>2, <3>1
    <3> QED BY <1>1, <1>2, <1>4, <3>1, <3>3, <3>4, <3>7, <3>8
  <2>5. CASE ~TransportFreed(t)
    <3>1. /\ Retry(t, wake) /\ UNCHANGED <<alive, reg, retry, child, log>>
          /\ count' = n
      BY <1>7, <1>8, <2>0, <2>1, <2>5 DEF TransportClosed
    <3>2. /\ handler' = [handler EXCEPT ![t] = "retry"]
          /\ wake[t] = 0 /\ wake' = [wake EXCEPT ![t] = 1]
          /\ armed' \subseteq Transports
      <4>1. wake[t] = 0 /\ wake \in [Transports -> Nat]
        BY <2>1, <2>2 DEF TransShape, Mode, Has
      <4> QED BY <2>1, <3>1, <4>1 DEF Retry, WakeupAdd, TransShape
    <3>3. TransShape'
      BY <3>1, <3>2 DEF TransShape, Handlers
    <3>4. Mode(t)'
      <4>1. Kind[t] \in {"outgoing", "file"}
        BY <2>1, <2>2, BusAssumption DEF Mode, Has, HandlersOf, BusAssumption, Kinds
      <4>2. ~reg[t] /\ child[t] = "none" /\ ~log[t] /\ t \in alive
        BY <2>1, <2>2 DEF Mode, Has
      <4>3. \A d \in Conns : owner'[d] # t
        BY <2>1, <2>3
      <4>4. handler'[t] = "retry" /\ wake'[t] = 1
        BY <2>1, <3>2 DEF TransShape
      <4> QED BY <3>1, <4>1, <4>2, <4>3, <4>4 DEF Mode, Has, HandlersOf
    <3>5. ASSUME NEW u \in Transports, u # t PROVE Mode(u)'
      BY <2>3, <3>1, <3>2, <3>5, ModeFrame DEF TransShape
    <3>6. \A u \in Transports : Mode(u)'
      BY <3>4, <3>5
    <3>7. \A u \in Transports : wake[u] > 0 => wake'[u] = wake[u]
      BY <3>2 DEF TransShape
    <3> QED BY <1>1, <1>2, <1>4, <1>5, <3>1, <3>3, <3>6, <3>7
  <2> QED BY <2>4, <2>5
<1> QED BY <1>6, <1>7

-----------------------------------------------------------------------------
(* The parts of a step *)

LEMMA BodyUnchanged ==
  ASSUME Body, UNCHANGED <<count, connVars, transVars>>
  PROVE  Body'
BY DEF Body, connVars, transVars, ConnShape, TransShape, Halves, Mode, Has, CountsOf

LEMMA IInvSplit ==
  /\ IInv /\ ~shutdown => Body /\ \A p \in ready \cup batch : PeerOK(p)
  /\ /\ Body /\ LoopShape /\ broken \subseteq Conns /\ FlagMatchesPhase
     /\ ~shutdown => \A p \in ready \cup batch : PeerOK(p)
     => IInv
BY CountsExactIsCountsOf
   DEF IInv, Body, Shape, Modes, ConnsWhole, PeersValid

\* What a peer leads to stays when the step keeps it.
LEMMA PeerStays ==
  ASSUME NEW p, PeerOK(p), TransShape,
         \A c \in recv : p = RecvPeer(c) => c \in recv',
         \A c \in snd : p = SendPeer(c) => c \in snd',
         \A t \in alive : p = OwnPeer(t) /\ reg[t] => t \in alive' /\ reg'[t],
         \A t \in alive : p = WakePeer(t) /\ wake[t] > 0 => t \in alive' /\ wake'[t] > 0,
         \A t \in alive : p = LogPeer(t) /\ Kind[t] = "exec" => t \in alive'
  PROVE  PeerOK(p)'
BY DEF PeerOK, Valid, TransShape, RecvPeer, SendPeer, OwnPeer, WakePeer, LogPeer

LEMMA PeerUnchanged ==
  ASSUME NEW p, PeerOK(p), TransShape, UNCHANGED <<recv, snd, alive, reg, wake>>
  PROVE  PeerOK(p)'
BY PeerStays

\* A handler's step keeps the invariant if it keeps the body and the peers.
LEMMA HandlerStep ==
  ASSUME IInv, NEW q, Call(q), ready' \subseteq ready, UNCHANGED shutdown,
         broken' \subseteq Conns, Body',
         \A p \in ready' \cup batch' : PeerOK(p)'
  PROVE  IInv'
<1>1. LoopShape' /\ FlagMatchesPhase'
  BY DEF Call, IInv, Shape, LoopShape, FlagMatchesPhase, Phases, LoopPhases,
         InitPhases, CleanPhases
<1>2. (/\ Body /\ LoopShape /\ broken \subseteq Conns /\ FlagMatchesPhase
       /\ ~shutdown => \A p \in ready \cup batch : PeerOK(p)
       => IInv)'
  BY IInvSplit, PTL
<1> QED BY <1>1, <1>2

-----------------------------------------------------------------------------
(* The handlers *)

\* Deleting half a connection frees no object that may still be called,
\* except the half that is deleted.
LEMMA HalfDelPeers ==
  ASSUME Body, NEW c \in Conns, NEW f \in {"receive", "send"},
         c \in (IF f = "receive" THEN recv ELSE snd), HalfDel(c, f),
         NEW p, PeerOK(p), p # (IF f = "receive" THEN RecvPeer(c) ELSE SendPeer(c))
  PROVE  PeerOK(p)'
<1>1. /\ recv' = (IF f = "receive" THEN recv \ {c} ELSE recv)
      /\ snd' = (IF f = "send" THEN snd \ {c} ELSE snd)
      /\ reg' = reg /\ \A u \in Transports : wake[u] > 0 => wake'[u] = wake[u]
      /\ \A u \in alive : u \notin alive' => Kind[u] = "file" /\ Has(u, {"closed"})
  BY HalfDelEffect
<1>2. TransShape /\ \A u \in Transports : Mode(u)
  BY DEF Body
<1>3. \A u \in alive : reg[u] \/ wake[u] > 0 => u \in alive'
  BY <1>1, <1>2 DEF Mode, Has, TransShape
<1>4. \A u \in alive : Kind[u] = "exec" => u \in alive'
  BY <1>1
<1>5. \A u \in alive : wake[u] > 0 => wake'[u] > 0
  BY <1>1, <1>2 DEF TransShape
<1> QED BY <1>1, <1>2, <1>3, <1>4, <1>5, PeerStays

LEMMA ReceiveInv ==
  ASSUME IInv, NEW c \in Conns, ReceiveEof(c) \/ ReceiveData(c)
  PROVE  IInv'
<1>1. /\ Call(RecvPeer(c)) /\ ~shutdown /\ RecvPeer(c) \in batch
      /\ batch' = batch \ {RecvPeer(c)} /\ ready' = ready \ {RecvPeer(c)}
      /\ UNCHANGED shutdown
  BY DEF ReceiveEof, ReceiveData, Call
<1>2. Body /\ \A p \in ready \cup batch : PeerOK(p)
  BY <1>1, IInvSplit
<1>3. broken' \subseteq Conns
  BY DEF ReceiveEof, ReceiveData, SendWrite, IInv, Shape, ConnShape
<1>4. c \in recv
  BY <1>1, <1>2 DEF PeerOK, Valid, RecvPeer, SendPeer, OwnPeer, WakePeer, LogPeer,
                    ShutdownPeer, SigchldPeer
<1>5. CASE HalfDel(c, "receive")
  <2>1. Body'
    BY <1>2, <1>4, <1>5, HalfDelEffect
  <2>2. ASSUME NEW p \in ready' \cup batch' PROVE PeerOK(p)'
    BY <1>1, <1>2, <1>4, <1>5, <2>2, HalfDelPeers
  <2> QED BY <1>1, <1>3, <2>1, <2>2, HandlerStep
<1>6. CASE UNCHANGED <<count, recv, snd, sr, owner, regular, transVars>>
  <2>1. Body'
    BY <1>2, <1>6 DEF Body, transVars, ConnShape, TransShape, Halves, Mode, Has, CountsOf
  <2>2. ASSUME NEW p \in ready' \cup batch' PROVE PeerOK(p)'
    BY <1>1, <1>2, <1>6, <2>2, PeerUnchanged DEF transVars, Body
  <2> QED BY <1>1, <1>3, <2>1, <2>2, HandlerStep
<1> QED BY <1>5, <1>6 DEF ReceiveEof, ReceiveData

LEMMA SendHupInv ==
  ASSUME IInv, NEW c \in Conns, SendHup(c)
  PROVE  IInv'
<1>1. /\ Call(SendPeer(c)) /\ ~shutdown /\ SendPeer(c) \in batch
      /\ batch' = batch \ {SendPeer(c)} /\ ready' = ready \ {SendPeer(c)}
      /\ UNCHANGED shutdown /\ HalfDel(c, "send")
  BY DEF SendHup, Call
<1>2. Body /\ \A p \in ready \cup batch : PeerOK(p)
  BY <1>1, IInvSplit
<1>3. broken' \subseteq Conns
  BY DEF SendHup, IInv, Shape
<1>4. c \in snd
  BY <1>1, <1>2 DEF PeerOK, Valid, RecvPeer, SendPeer, OwnPeer, WakePeer, LogPeer,
                    ShutdownPeer, SigchldPeer
<1>5. Body'
  BY <1>1, <1>2, <1>4, HalfDelEffect
<1>6. ASSUME NEW p \in ready' \cup batch' PROVE PeerOK(p)'
  BY <1>1, <1>2, <1>4, <1>6, HalfDelPeers
<1> QED BY <1>1, <1>3, <1>5, <1>6, HandlerStep

LEMMA WakeupInv ==
  ASSUME IInv, NEW t \in Transports, Wakeup(t)
  PROVE  IInv'
<1> DEFINE w == [wake EXCEPT ![t] = @ - 1]
<1>1. /\ Call(WakePeer(t)) /\ ~shutdown /\ WakePeer(t) \in batch
      /\ batch' = batch \ {WakePeer(t)} /\ ready' = ready \ {WakePeer(t)}
      /\ UNCHANGED <<shutdown, alive>> /\ handler[t] = "retry" /\ Start(t, w, count)
  BY DEF Wakeup, Call
<1>2. Body /\ \A p \in ready \cup batch : PeerOK(p)
  BY <1>1, IInvSplit
<1>3. t \in alive /\ wake[t] > 0
  BY <1>1, <1>2 DEF PeerOK, Valid, RecvPeer, SendPeer, OwnPeer, WakePeer, LogPeer,
                    ShutdownPeer, SigchldPeer
<1>4. AtRest(t, w)
  <2>1. Mode(t) /\ TransShape
    BY <1>2 DEF Body
  <2>2. wake[t] = 1 /\ ~reg[t] /\ child[t] = "none" /\ ~log[t]
        /\ \A c \in Conns : owner[c] # t
    BY <1>1, <1>3, <2>1 DEF Mode, Has
  <2> QED BY <2>1, <2>2 DEF AtRest, TransShape
<1>5. /\ Body' /\ recv \subseteq recv' /\ snd \subseteq snd'
      /\ \A u \in Transports : u # t => reg'[u] = reg[u] /\ wake'[u] = wake[u]
  <2>1. alive' = alive \cup {t} /\ CountsOf(count, recv, snd, alive') /\ count \in [Flows -> Int]
    BY <1>1, <1>2, <1>3 DEF Body
  <2>2. ConnShape /\ TransShape /\ (\A d \in Conns : Halves(d)) /\ \A u \in Transports : Mode(u)
    BY <1>2 DEF Body
  <2> HIDE DEF w
  <2> QED BY <1>1, <1>4, <2>1, <2>2, StartEffect
<1>6. ASSUME NEW p \in ready' \cup batch' PROVE PeerOK(p)'
  <2>1. PeerOK(p) /\ p # WakePeer(t) /\ TransShape
    BY <1>1, <1>2, <1>6 DEF Body
  <2>2. ~reg[t]
    BY <1>4 DEF AtRest
  <2> QED BY <1>1, <1>5, <2>1, <2>2, PeerStays DEF TransShape
<1>7. broken' \subseteq Conns
  BY <1>1, <1>2 DEF IInv, Shape, Start, Resolve, FileOpen, ExecSpawn, FlowNew, connVars
<1> QED BY <1>1, <1>5, <1>6, <1>7, HandlerStep

\* A transport whose fd was called keeps an fd or waits to retry.
LEMMA OwnFdEffect ==
  ASSUME Body, NEW t \in alive, reg[t],
         NEW h \in HandlersOf(Kind[t]), h \in {"resolved", "connected", "accept"},
         Kind[t] \in {"outgoing", "incoming"},
         DropFdAndRetry(t) \/ KeepFd(t, h),
         UNCHANGED <<count, connVars, alive, retry, child, log>>
  PROVE  /\ Body'
         /\ \A u \in Transports : u # t => reg'[u] = reg[u] /\ wake'[u] = wake[u]
<1>1. ConnShape /\ TransShape /\ t \in Transports
  BY DEF Body, TransShape
<1>2. h \in Handlers
  BY DEF Handlers
<1>3. wake[t] = 0 /\ child[t] = "none" /\ ~log[t] /\ \A c \in Conns : owner[c] # t
  BY <1>1 DEF Body, Mode, Has
<1>4. ConnShape' /\ (\A c \in Conns : Halves(c)') /\ owner' = owner
      /\ count' \in [Flows -> Int] /\ CountsOf(count', recv', snd', alive')
  BY DEF Body, connVars, ConnShape, Halves, CountsOf
<1>5. CASE KeepFd(t, h)
  <2>1. TransShape'
    BY <1>1, <1>2, <1>5 DEF KeepFd, TransShape
  <2>2. Mode(t)'
    BY <1>1, <1>3, <1>4, <1>5 DEF KeepFd, TransShape, Mode, Has
  <2>3. ASSUME NEW u \in Transports, u # t PROVE Mode(u)'
    BY <1>1, <1>4, <1>5, <2>3, ModeFrame DEF KeepFd, TransShape, Body
  <2> QED BY <1>4, <1>5, <2>1, <2>2, <2>3 DEF Body, KeepFd
<1>6. CASE DropFdAndRetry(t)
  <2>1. /\ handler' = [handler EXCEPT ![t] = "retry"] /\ wake' = [wake EXCEPT ![t] = 1]
        /\ reg' = [reg EXCEPT ![t] = FALSE] /\ armed' \subseteq Transports
    BY <1>1, <1>3, <1>6 DEF DropFdAndRetry, Retry, WakeupAdd, TransShape
  <2>2. TransShape'
    BY <1>1, <2>1 DEF TransShape, Handlers
  <2>3. Mode(t)'
    BY <1>1, <1>3, <1>4, <2>1 DEF TransShape, Mode, Has, HandlersOf
  <2>4. ASSUME NEW u \in Transports, u # t PROVE Mode(u)'
    BY <1>1, <1>4, <2>1, <2>4, ModeFrame DEF TransShape, Body
  <2> QED BY <1>1, <1>4, <2>1, <2>2, <2>3, <2>4 DEF Body, TransShape
<1> QED BY <1>5, <1>6

\* What is known when a transport's own fd is called, and what is left to show.
LEMMA OwnPeerCalled ==
  ASSUME IInv, NEW t \in Transports, Call(OwnPeer(t))
  PROVE  /\ ~shutdown /\ Body /\ (\A p \in ready \cup batch : PeerOK(p))
         /\ t \in alive /\ reg[t] /\ batch' = batch \ {OwnPeer(t)}
<1>1. ~shutdown /\ OwnPeer(t) \in batch /\ batch' = batch \ {OwnPeer(t)}
  BY DEF Call
<1>2. Body /\ \A p \in ready \cup batch : PeerOK(p)
  BY <1>1, IInvSplit
<1> QED BY <1>1, <1>2 DEF PeerOK, Valid, RecvPeer, SendPeer, OwnPeer, WakePeer, LogPeer,
                          ShutdownPeer, SigchldPeer

LEMMA OwnPeersStay ==
  ASSUME Body, NEW t \in alive, reg[t],
         recv \subseteq recv', snd \subseteq snd', alive' = alive,
         \A u \in Transports : u # t => reg'[u] = reg[u] /\ wake'[u] = wake[u],
         NEW p, PeerOK(p), p # OwnPeer(t)
  PROVE  PeerOK(p)'
<1>1. TransShape /\ wake[t] = 0
  BY DEF Body, TransShape, Mode, Has
<1> QED BY <1>1, PeerStays DEF TransShape

LEMMA ResolvedInv ==
  ASSUME IInv, NEW t \in Transports, OutgoingResolved(t) \/ IncomingListen(t)
  PROVE  IInv'
<1>1. PICK h \in HandlersOf(Kind[t]) :
        /\ h \in {"resolved", "connected", "accept"} /\ Kind[t] \in {"outgoing", "incoming"}
        /\ DropFdAndRetry(t) \/ KeepFd(t, h)
  BY DEF OutgoingResolved, IncomingListen, HandlersOf
<1>2. /\ Call(OwnPeer(t)) /\ ready' = ready \ {OwnPeer(t)}
      /\ UNCHANGED <<shutdown, count, connVars, alive, retry, child, log>>
  BY DEF OutgoingResolved, IncomingListen
<1>3. /\ ~shutdown /\ Body /\ (\A p \in ready \cup batch : PeerOK(p))
      /\ t \in alive /\ reg[t] /\ batch' = batch \ {OwnPeer(t)}
  BY <1>2, OwnPeerCalled
<1>4. Body' /\ \A u \in Transports : u # t => reg'[u] = reg[u] /\ wake'[u] = wake[u]
  BY <1>1, <1>2, <1>3, OwnFdEffect
<1>5. recv' = recv /\ snd' = snd /\ alive' = alive /\ broken' \subseteq Conns
  BY <1>2 DEF connVars, IInv, Shape
<1>6. ASSUME NEW p \in ready' \cup batch' PROVE PeerOK(p)'
  BY <1>2, <1>3, <1>4, <1>5, <1>6, OwnPeersStay
<1> QED BY <1>2, <1>4, <1>5, <1>6, HandlerStep

LEMMA ConnectedInv ==
  ASSUME IInv, NEW t \in Transports, OutgoingConnected(t)
  PROVE  IInv'
<1>1. /\ Call(OwnPeer(t)) /\ ready' = ready \ {OwnPeer(t)} /\ Kind[t] = "outgoing"
      /\ UNCHANGED <<shutdown, alive, retry, child, log>>
  BY DEF OutgoingConnected
<1>2. /\ ~shutdown /\ Body /\ (\A p \in ready \cup batch : PeerOK(p))
      /\ t \in alive /\ reg[t] /\ batch' = batch \ {OwnPeer(t)}
  BY <1>1, OwnPeerCalled
<1>3. /\ ConnShape /\ TransShape /\ FlowOf[t] \in Flows /\ NoOwner \notin Transports
      /\ alive \in SUBSET Transports /\ broken \subseteq Conns /\ count \in [Flows -> Int]
      /\ (\A d \in Conns : Halves(d)) /\ CountsOf(count, recv, snd, alive)
  BY <1>2, BusAssumption DEF BusAssumption, Body, TransShape, IInv, Shape
<1>4. CASE (DropFdAndRetry(t) \/ KeepFd(t, "connected")) /\ UNCHANGED <<count, connVars>>
  <2>1. "connected" \in HandlersOf(Kind[t])
    BY <1>1 DEF HandlersOf
  <2>2. Body' /\ \A u \in Transports : u # t => reg'[u] = reg[u] /\ wake'[u] = wake[u]
    BY <1>1, <1>2, <1>4, <2>1, OwnFdEffect
  <2>3. recv' = recv /\ snd' = snd /\ broken' \subseteq Conns
    BY <1>3, <1>4 DEF connVars
  <2>4. ASSUME NEW p \in ready' \cup batch' PROVE PeerOK(p)'
    BY <1>1, <1>2, <2>2, <2>3, <2>4, OwnPeersStay
  <2> QED BY <1>1, <2>2, <2>3, <2>4, HandlerStep
<1>5. ASSUME NEW c \in Conns, FlowNew(c, FlowOf[t], t, FALSE),
             count' = CountNew(count, FlowOf[t]),
             handler' = [handler EXCEPT ![t] = "closed"],
             reg' = [reg EXCEPT ![t] = FALSE], UNCHANGED <<wake, armed>>
      PROVE  IInv'
  <2>1. t \in Transports \cup {NoOwner}
    OBVIOUS
  <2>2. /\ ConnShape' /\ (\A d \in Conns : Halves(d)')
        /\ recv \subseteq recv' /\ snd \subseteq snd'
        /\ owner[c] = NoOwner /\ owner' = [owner EXCEPT ![c] = t]
        /\ count' \in [Flows -> Int] /\ CountsOf(count', recv', snd', alive)
    BY <1>3, <1>5, <2>1, FlowNewEffect
  <2>3. TransShape'
    BY <1>1, <1>3, <1>5 DEF TransShape, Handlers
  <2>4. wake[t] = 0 /\ child[t] = "none" /\ ~log[t] /\ \A d \in Conns : owner[d] # t
    BY <1>2 DEF Body, Mode, Has
  <2>5. \A d \in Conns : owner'[d] = t <=> d = c
    BY <1>3, <2>2, <2>4 DEF ConnShape
  <2>6. Mode(t)'
    BY <1>1, <1>2, <1>3, <1>5, <2>4, <2>5 DEF TransShape, Mode, Has, HandlersOf
  <2>7. ASSUME NEW u \in Transports, u # t PROVE Mode(u)'
    <3>1. \A d \in Conns : owner'[d] = u <=> owner[d] = u
      BY <1>3, <2>2, <2>7 DEF ConnShape
    <3> QED BY <1>1, <1>2, <1>3, <1>5, <2>7, <3>1, ModeFrame DEF TransShape, Body
  <2>8. Body'
    BY <1>1, <2>2, <2>3, <2>6, <2>7 DEF Body
  <2>9. \A u \in Transports : u # t => reg'[u] = reg[u] /\ wake'[u] = wake[u]
    BY <1>3, <1>5 DEF TransShape
  <2>10. ASSUME NEW p \in ready' \cup batch' PROVE PeerOK(p)'
    BY <1>1, <1>2, <2>2, <2>9, <2>10, OwnPeersStay
  <2>11. broken' \subseteq Conns
    BY <1>3, <1>5 DEF FlowNew
  <2> QED BY <1>1, <2>8, <2>10, <2>11, HandlerStep
<1> QED BY <1>4, <1>5 DEF OutgoingConnected

LEMMA AcceptInv ==
  ASSUME IInv, NEW t \in Transports, IncomingAccept(t)
  PROVE  IInv'
<1>1. /\ Call(OwnPeer(t)) /\ ready' = ready \ {OwnPeer(t)}
      /\ UNCHANGED <<shutdown, transVars>>
  BY DEF IncomingAccept
<1>2. /\ ~shutdown /\ Body /\ (\A p \in ready \cup batch : PeerOK(p))
      /\ t \in alive /\ reg[t] /\ batch' = batch \ {OwnPeer(t)}
  BY <1>1, OwnPeerCalled
<1>3. /\ ConnShape /\ TransShape /\ FlowOf[t] \in Flows /\ NoOwner \notin Transports
      /\ alive \in SUBSET Transports /\ broken \subseteq Conns /\ count \in [Flows -> Int]
      /\ (\A d \in Conns : Halves(d)) /\ CountsOf(count, recv, snd, alive)
      /\ NoOwner \in Transports \cup {NoOwner}
  BY <1>2, BusAssumption DEF BusAssumption, Body, TransShape, IInv, Shape
<1>4. Body' /\ recv \subseteq recv' /\ snd \subseteq snd' /\ broken' \subseteq Conns
  <2>1. CASE UNCHANGED <<count, connVars>>
    BY <1>1, <1>2, <1>3, <2>1, BodyUnchanged DEF connVars
  <2>2. ASSUME NEW c \in Conns, FlowNew(c, FlowOf[t], NoOwner, FALSE),
               count' = CountNew(count, FlowOf[t])
        PROVE  <1>4!:
    <3>1. /\ ConnShape' /\ (\A d \in Conns : Halves(d)')
          /\ recv \subseteq recv' /\ snd \subseteq snd'
          /\ owner[c] = NoOwner /\ owner' = [owner EXCEPT ![c] = NoOwner]
          /\ count' \in [Flows -> Int] /\ CountsOf(count', recv', snd', alive)
      BY <1>3, <2>2, FlowNewEffect
    <3>2. owner' = owner /\ broken' \subseteq Conns
      BY <1>3, <2>2, <3>1 DEF ConnShape, FlowNew
    <3>3. TransShape' /\ alive' = alive
      BY <1>1, <1>3 DEF transVars, TransShape
    <3>4. \A u \in Transports : Mode(u)'
      BY <1>1, <1>2, <3>2, ModeFrame DEF transVars, Body
    <3> QED BY <3>1, <3>2, <3>3, <3>4 DEF Body
  <2> QED BY <2>1, <2>2 DEF IncomingAccept
<1>5. ASSUME NEW p \in ready' \cup batch' PROVE PeerOK(p)'
  BY <1>1, <1>2, <1>4, <1>5, OwnPeersStay DEF transVars
<1> QED BY <1>1, <1>4, <1>5, HandlerStep

LEMMA ExecInv ==
  ASSUME IInv, ExecSigchld \/ \E t \in Transports : ExecLog(t)
  PROVE  IInv'
<1>1. PICK q : /\ Call(q) /\ ready' \subseteq ready /\ UNCHANGED <<shutdown, connVars>>
               /\ UNCHANGED <<alive, count, reg, retry>>
  BY DEF ExecSigchld, ExecLog
<1>2. ~shutdown /\ batch' \subseteq batch
  BY <1>1 DEF Call
<1>3. Body /\ (\A p \in ready \cup batch : PeerOK(p)) /\ broken' \subseteq Conns
  BY <1>1, <1>2, IInvSplit DEF IInv, Shape, connVars
<1>4. ConnShape' /\ (\A c \in Conns : Halves(c)') /\ owner' = owner
      /\ count' \in [Flows -> Int] /\ CountsOf(count', recv', snd', alive')
  BY <1>1, <1>3 DEF Body, connVars, ConnShape, Halves, CountsOf
<1>5. Body' /\ \A u \in Transports : wake[u] > 0 => wake'[u] > 0
  <2>0. TransShape
    BY <1>3 DEF Body
  <2>1. CASE /\ UNCHANGED <<handler, wake, armed, child>> /\ log' \in [Transports -> BOOLEAN]
             /\ \A u \in Transports : log'[u] => log[u]
    <3>1. TransShape'
      BY <1>1, <2>0, <2>1 DEF TransShape
    <3>2. \A u \in Transports : Mode(u)'
      BY <1>1, <1>3, <1>4, <2>1, ModeFrame DEF Body
    <3> QED BY <1>4, <2>1, <3>1, <3>2 DEF Body
  <2>2. ASSUME NEW t \in alive, child[t] = "zombie", handler[t] = "died",
               child' = [child EXCEPT ![t] = "none"], log' = [log EXCEPT ![t] = FALSE],
               Retry(t, wake)
        PROVE  <1>5!:
    <3>1. t \in Transports /\ wake[t] = 0 /\ ~reg[t] /\ Kind[t] = "exec"
          /\ \A c \in Conns : owner[c] # t
      <4>1. t \in Transports /\ Mode(t) /\ Kind[t] \in Kinds
        BY <1>3, <2>0, BusAssumption DEF Body, TransShape, BusAssumption
      <4> QED BY <2>2, <4>1 DEF Mode, Has, HandlersOf, Kinds
    <3>2. handler' = [handler EXCEPT ![t] = "retry"] /\ wake' = [wake EXCEPT ![t] = 1]
          /\ armed' \subseteq Transports
      BY <2>0, <2>2, <3>1 DEF Retry, WakeupAdd, TransShape
    <3>3. TransShape'
      BY <1>1, <2>0, <2>2, <3>1, <3>2 DEF TransShape, Handlers
    <3>4. Mode(t)'
      BY <1>1, <1>4, <2>0, <2>2, <3>1, <3>2 DEF TransShape, Mode, Has, HandlersOf
    <3>5. ASSUME NEW u \in Transports, u # t PROVE Mode(u)'
      BY <1>1, <1>3, <1>4, <2>0, <2>2, <3>1, <3>2, <3>5, ModeFrame DEF TransShape, Body
    <3> QED BY <1>4, <2>0, <3>1, <3>2, <3>3, <3>4, <3>5 DEF Body, TransShape
  <2> QED BY <2>0, <2>1, <2>2 DEF ExecSigchld, ExecLog, TransShape
<1>6. ASSUME NEW p \in ready' \cup batch' PROVE PeerOK(p)'
  <2>1. PeerOK(p) /\ TransShape
    BY <1>1, <1>2, <1>3, <1>6 DEF Body
  <2> QED BY <1>1, <1>5, <2>1, PeerStays DEF connVars, TransShape
<1> QED BY <1>1, <1>3, <1>5, <1>6, HandlerStep

-----------------------------------------------------------------------------
(* Steps of peer_loop(), of main() and of the environment that leave the    *)
(* connections and the transports alone                                     *)

LEMMA IdleStep ==
  ASSUME IInv, UNCHANGED <<count, connVars, transVars>>, LoopShape', FlagMatchesPhase',
         ~shutdown' => ~shutdown,
         ~shutdown' => \A p \in ready' \cup batch' : PeerOK(p)
  PROVE  IInv'
<1>1. Shape' /\ CountsExact'
  BY DEF IInv, Shape, ConnShape, TransShape, connVars, transVars, CountsExact, TransportsOf
<1>2. ConnsWhole' /\ Modes'
  BY DEF IInv, ConnsWhole, Modes, Halves, Mode, Has, connVars, transVars
<1>3. PeersValid'
  BY PeerUnchanged DEF IInv, Shape, connVars, transVars, PeersValid
<1> QED BY <1>1, <1>2, <1>3 DEF IInv

LEMMA ShutdownSignalInv ==
  ASSUME IInv, ShutdownSignal
  PROVE  IInv'
<1>1. LoopShape' /\ FlagMatchesPhase' /\ shutdown'
  BY DEF ShutdownSignal, Call, IInv, Shape, LoopShape, FlagMatchesPhase, Phases,
         LoopPhases, InitPhases, CleanPhases
<1> QED BY <1>1, IdleStep DEF ShutdownSignal

LEMMA LoopInv ==
  ASSUME IInv,
         \/ InitDone \/ NoneRemaining \/ EpollWait \/ WalkAlways \/ WalkDone \/ LeaveLoop
  PROVE  IInv'
<1>1. phase \in Phases /\ phase' \in Phases
  BY DEF IInv, Shape, LoopShape, InitDone, NoneRemaining, EpollWait, WalkAlways, WalkDone,
         LeaveLoop, After, Phases, InitPhases, LoopPhases, CleanPhases, Kinds
<1>2. FlagMatchesPhase' /\ (~shutdown' => ~shutdown) /\ shutdown' \in BOOLEAN
  <2> USE DEF IInv, Shape, LoopShape, FlagMatchesPhase, InitPhases, CleanPhases
  <2>1. CASE InitDone
    <3>1. ~shutdown /\ shutdown' = shutdown
      BY <2>1 DEF InitDone, Kinds
    <3>2. phase' \in {"incoming", "exec", "file", "stdin"}
      BY <2>1 DEF InitDone, After, Kinds
    <3> QED BY <3>1, <3>2
  <2>2. CASE NoneRemaining
    BY <2>2 DEF NoneRemaining
  <2>3. CASE EpollWait
    BY <2>3 DEF EpollWait
  <2>4. CASE WalkAlways \/ WalkDone
    BY <2>4 DEF WalkAlways, WalkDone
  <2>5. CASE LeaveLoop
    BY <2>5 DEF LeaveLoop
  <2> QED BY <2>1, <2>2, <2>3, <2>4, <2>5
<1>3. /\ UNCHANGED <<ready, count, connVars, transVars>>
      /\ batch' \subseteq batch \cup ready \cup {RecvPeer(c) : c \in AlwaysTrigger}
  BY DEF InitDone, NoneRemaining, EpollWait, WalkAlways, WalkDone, LeaveLoop
<1>4. \A c \in AlwaysTrigger : RecvPeer(c) \in Peers /\ PeerOK(RecvPeer(c))
  BY DEF AlwaysTrigger, RecvPeer, LogPeer, Peers, PeerOK, Valid, IInv, Shape, ConnShape
<1>5. LoopShape'
  BY <1>1, <1>2, <1>3, <1>4 DEF IInv, Shape, LoopShape
<1>6. ~shutdown' => \A p \in ready' \cup batch' : PeerOK(p)
  BY <1>2, <1>3, <1>4 DEF IInv, PeersValid
<1> QED BY <1>2, <1>3, <1>5, <1>6, IdleStep

\* What the kernel may report leads to an object that is there.
LEMMA PollableValid ==
  ASSUME IInv, ~shutdown, NEW p \in Pollable
  PROVE  PeerOK(p)
<1>1. /\ ConnShape /\ TransShape /\ \A t \in Transports : Mode(t)
      /\ Kind \in [Transports -> Kinds]
  BY BusAssumption DEF IInv, Shape, Modes, BusAssumption
<1>2. ASSUME NEW t \in Transports PROVE reg[t] \/ wake[t] > 0 \/ log[t] => t \in alive
  BY <1>1 DEF Mode, Has, TransShape
<1>3. ASSUME NEW t \in Transports, log[t] PROVE Kind[t] = "exec"
  BY <1>1, <1>3 DEF Mode, Has, HandlersOf, Kinds
<1> QED BY <1>1, <1>2, <1>3
  DEF Pollable, PeerOK, Valid, RecvPeer, SendPeer, OwnPeer, WakePeer, LogPeer,
      ShutdownPeer, SigchldPeer

LEMMA SigchldValid == SigchldPeer \in Peers /\ PeerOK(SigchldPeer)
BY DEF Peers, PeerOK, Valid, SigchldPeer, LogPeer

LEMMA EnvironmentInv ==
  ASSUME IInv, Environment
  PROVE  IInv'
<1>1. CASE \E p \in Peers : BecomeReady(p)
  <2>1. PICK p \in Peers : BecomeReady(p)
    BY <1>1
  <2>2. ~shutdown /\ UNCHANGED <<phase, shutdown, batch, count, connVars, transVars>>
        /\ ready' = ready \cup {p} /\ p \in Pollable
    BY <2>1 DEF BecomeReady, IInv, FlagMatchesPhase
  <2>3. LoopShape' /\ FlagMatchesPhase'
    BY <2>2 DEF IInv, Shape, LoopShape, FlagMatchesPhase
  <2>4. \A q \in ready' \cup batch' : PeerOK(q)
    BY <2>2, PollableValid DEF IInv, PeersValid
  <2> QED BY <2>2, <2>3, <2>4, IdleStep
<1>2. CASE \E t \in Transports : ChildStop(t)
  <2>1. UNCHANGED <<phase, shutdown, batch, count, connVars, transVars>>
        /\ ready' = ready \cup {SigchldPeer}
    BY <1>2 DEF ChildStop
  <2>2. LoopShape' /\ FlagMatchesPhase'
    BY <2>1, SigchldValid DEF IInv, Shape, LoopShape, FlagMatchesPhase
  <2>3. ~shutdown' => \A q \in ready' \cup batch' : PeerOK(q)
    BY <2>1, SigchldValid DEF IInv, PeersValid
  <2> QED BY <2>1, <2>2, <2>3, IdleStep
<1>3. CASE \E t \in Transports : ChildExit(t)
  <2>1. PICK t \in Transports : ChildExit(t)
    BY <1>3
  <2>2. /\ ~shutdown /\ child[t] = "running" /\ child' = [child EXCEPT ![t] = "zombie"]
        /\ ready' \subseteq ready \cup {SigchldPeer} /\ ready \subseteq ready'
        /\ UNCHANGED <<phase, shutdown, batch, count, connVars,
                       alive, handler, reg, wake, armed, retry, log>>
    BY <2>1 DEF ChildExit
  <2>3. Body /\ TransShape /\ \A p \in ready \cup batch : PeerOK(p)
    BY <2>2, IInvSplit DEF Body
  <2>4. LoopShape' /\ FlagMatchesPhase' /\ broken' \subseteq Conns
    BY <2>2, SigchldValid DEF IInv, Shape, LoopShape, FlagMatchesPhase, connVars
  <2>5. TransShape'
    BY <2>2, <2>3 DEF TransShape
  <2>6. \A u \in Transports : Mode(u)'
    BY <2>2, <2>3, ModeFrame DEF TransShape, Body, connVars
  <2>7. Body'
    BY <2>2, <2>3, <2>5, <2>6 DEF Body, connVars, ConnShape, Halves, CountsOf
  <2>8. ASSUME NEW q \in ready' \cup batch' PROVE PeerOK(q)'
    BY <2>2, <2>3, <2>8, SigchldValid, PeerUnchanged DEF connVars
  <2>9. (/\ Body /\ LoopShape /\ broken \subseteq Conns /\ FlagMatchesPhase
         /\ ~shutdown => \A p \in ready \cup batch : PeerOK(p)
         => IInv)'
    BY IInvSplit, PTL
  <2> QED BY <2>4, <2>7, <2>8, <2>9
<1> QED BY <1>1, <1>2, <1>3 DEF Environment

-----------------------------------------------------------------------------
(* main(): start-up and tear-down *)

LEMMA InitInv == Init => IInv
<1> SUFFICES ASSUME Init PROVE IInv
  OBVIOUS
<1>1. LoopShape /\ FlagMatchesPhase
  BY DEF Init, LoopShape, FlagMatchesPhase, Phases, InitPhases, CleanPhases
<1>0. ConnShape /\ broken \subseteq Conns
  BY DEF Init, ConnShape
<1>2. TransShape /\ count \in [Flows -> Int]
  BY DEF Init, TransShape, Handlers
<1>3. \A c \in Conns : Halves(c)
  BY DEF Init, Halves
<1>4. ASSUME NEW t \in Transports PROVE Mode(t)
  <2>1. NoOwner \notin Transports /\ t \notin alive /\ \A c \in Conns : owner[c] = NoOwner
    BY BusAssumption DEF BusAssumption, Init
  <2>2. reg[t] = FALSE /\ wake[t] = 0 /\ child[t] = "none" /\ log[t] = FALSE
    BY DEF Init
  <2> QED BY <2>1, <2>2 DEF Mode, Has
<1>5. CountsOf(count, recv, snd, alive)
  <2>1. \A f \in Flows : {t \in {} : FlowOf[t] = f} = {}
    OBVIOUS
  <2> QED BY <2>1, FS_EmptySet DEF Init, CountsOf, Flows
<1>6. \A p \in ready \cup batch : PeerOK(p)
  BY DEF Init
<1> QED BY <1>0, <1>1, <1>2, <1>3, <1>4, <1>5, <1>6, IInvSplit DEF Body

LEMMA TransportNewInv ==
  ASSUME IInv, NEW t \in Transports, TransportNew(t)
  PROVE  IInv'
<1> DEFINE n == [count EXCEPT ![FlowOf[t]] = @ + 1]
<1>1. /\ phase = Kind[t] /\ t \notin alive /\ alive' = alive \cup {t}
      /\ Start(t, wake, n) /\ UNCHANGED <<phase, shutdown, ready, batch>>
      /\ FlowOf[t] \in Flows /\ Kind[t] \in Kinds
  BY BusAssumption DEF TransportNew, loopVars, BusAssumption
<1>2. ~shutdown
  BY <1>1 DEF IInv, FlagMatchesPhase, InitPhases, Kinds
<1>3. Body /\ TransShape /\ \A p \in ready \cup batch : PeerOK(p)
  BY <1>2, IInvSplit DEF Body
<1>4. AtRest(t, wake)
  BY <1>1, <1>3 DEF AtRest, Body, TransShape, Mode, Has
<1>5. n \in [Flows -> Int] /\ CountsOf(n, recv, snd, alive')
  <2>1. /\ recv \in SUBSET Conns /\ snd \in SUBSET Conns /\ alive \in SUBSET Transports
        /\ t \in Transports \ alive /\ count \in [Flows -> Int]
        /\ CountsOf(count, recv, snd, alive)
    BY <1>1, <1>3 DEF Body, ConnShape, TransShape
  <2>2. CountsOf(n, recv, snd, alive \cup {t})
    BY <2>1, CountsTransportNew
  <2> QED BY <1>1, <2>1, <2>2
<1>6. /\ Body' /\ recv \subseteq recv' /\ snd \subseteq snd'
      /\ \A u \in Transports : u # t => reg'[u] = reg[u] /\ wake'[u] = wake[u]
  <2>1. ConnShape /\ (\A d \in Conns : Halves(d)) /\ \A u \in Transports : Mode(u)
    BY <1>3 DEF Body
  <2> HIDE DEF n
  <2> QED BY <1>1, <1>3, <1>4, <1>5, <2>1, StartEffect
<1>7. ASSUME NEW p \in ready' \cup batch' PROVE PeerOK(p)'
  <2>1. PeerOK(p)
    BY <1>1, <1>3, <1>7
  <2> QED BY <1>1, <1>3, <1>6, <2>1, PeerStays DEF TransShape
<1>8. LoopShape' /\ FlagMatchesPhase'
  BY <1>1 DEF IInv, Shape, LoopShape, FlagMatchesPhase
<1>9. broken' \subseteq Conns
  BY <1>1 DEF IInv, Shape, Start, Resolve, FileOpen, ExecSpawn, FlowNew, connVars
<1>10. (/\ Body /\ LoopShape /\ broken \subseteq Conns /\ FlagMatchesPhase
        /\ ~shutdown => \A p \in ready \cup batch : PeerOK(p)
        => IInv)'
  BY IInvSplit, PTL
<1> QED BY <1>6, <1>7, <1>8, <1>9, <1>10

LEMMA StdinoutInitInv ==
  ASSUME IInv, StdinoutInit
  PROVE  IInv'
<1>1. /\ phase \in {"stdin", "stdout"} /\ phase' \in {"stdout", "loop", "exited"}
      /\ UNCHANGED <<shutdown, ready, batch, transVars>> /\ ~shutdown
  BY DEF StdinoutInit, After, IInv, FlagMatchesPhase, InitPhases
<1>2. LoopShape' /\ FlagMatchesPhase'
  BY <1>1 DEF IInv, Shape, LoopShape, FlagMatchesPhase, Phases, InitPhases, LoopPhases,
              CleanPhases
<1>3. Body /\ TransShape /\ (\A p \in ready \cup batch : PeerOK(p)) /\ broken \subseteq Conns
  BY <1>1, IInvSplit DEF Body, IInv, Shape
<1>4. CASE UNCHANGED <<count, connVars>>
  <2>1. ~shutdown' => \A p \in ready' \cup batch' : PeerOK(p)
    BY <1>1, <1>3
  <2> QED BY <1>1, <1>2, <1>4, <2>1, IdleStep
<1>5. ASSUME NEW c \in Conns, NEW f \in {"receive", "send"}, NEW isRegular,
             FlowNew(c, f, NoOwner, isRegular), count' = CountNew(count, f)
      PROVE  IInv'
  <2>1. /\ ConnShape /\ (\A d \in Conns : Halves(d)) /\ alive \in SUBSET Transports
        /\ f \in Flows /\ NoOwner \in Transports \cup {NoOwner}
        /\ count \in [Flows -> Int] /\ CountsOf(count, recv, snd, alive)
    BY <1>3 DEF Body, TransShape, Flows
  <2>2. /\ ConnShape' /\ (\A d \in Conns : Halves(d)')
        /\ recv \subseteq recv' /\ snd \subseteq snd'
        /\ owner[c] = NoOwner /\ owner' = [owner EXCEPT ![c] = NoOwner]
        /\ count' \in [Flows -> Int] /\ CountsOf(count', recv', snd', alive)
    BY <1>5, <2>1, FlowNewEffect
  <2>3. owner' = owner /\ broken' \subseteq Conns
    BY <1>3, <1>5, <2>1, <2>2 DEF ConnShape, FlowNew
  <2>4. TransShape' /\ alive' = alive
    BY <1>1, <1>3 DEF transVars, TransShape
  <2>5. \A u \in Transports : Mode(u)'
    BY <1>1, <1>3, <2>3, ModeFrame DEF transVars, Body
  <2>6. Body'
    BY <2>2, <2>4, <2>5 DEF Body
  <2>7. ASSUME NEW p \in ready' \cup batch' PROVE PeerOK(p)'
    BY <1>1, <1>3, <2>2, <2>7, PeerStays DEF transVars
  <2>8. (/\ Body /\ LoopShape /\ broken \subseteq Conns /\ FlagMatchesPhase
         /\ ~shutdown => \A p \in ready \cup batch : PeerOK(p)
         => IInv)'
    BY IInvSplit, PTL
  <2> QED BY <1>2, <2>3, <2>6, <2>7, <2>8
<1> QED BY <1>4, <1>5 DEF StdinoutInit

\* After the loop only the counters have a meaning.
LEMMA CleanupInv ==
  ASSUME IInv, Cleanup
  PROVE  IInv'
<1>1. /\ UNCHANGED <<shutdown, ready, batch, owner, regular, broken>>
      /\ phase' = After(phase)
  BY DEF Cleanup
<1>2. phase \in CleanPhases
  BY DEF Cleanup, ReceiveCleanup, SendCleanup, SendReceiveCleanup, WakeupCleanup,
         TransportCleanup, CleanPhase, CleanPhases, Kinds
<1>3. phase' \in CleanPhases \cup {"done"}
  BY <1>1, <1>2 DEF After, CleanPhases
<1>4. shutdown /\ shutdown'
  BY <1>1, <1>2 DEF IInv, FlagMatchesPhase
<1>5. LoopShape' /\ FlagMatchesPhase' /\ broken' \subseteq Conns
  BY <1>1, <1>3, <1>4 DEF IInv, Shape, LoopShape, FlagMatchesPhase, Phases, InitPhases,
                          CleanPhases
<1>6. ConnShape /\ TransShape /\ count \in [Flows -> Int] /\ CountsOf(count, recv, snd, alive)
  BY CountsExactIsCountsOf DEF IInv, Shape
<1>7. /\ IsFiniteSet(recv) /\ Cardinality(recv) \in Nat
      /\ IsFiniteSet(snd) /\ Cardinality(snd) \in Nat
      /\ Cardinality({}) = 0
  BY <1>6, Finite, FS_CardinalityType, FS_EmptySet DEF ConnShape
<1>8. \A f \in Flows : Cardinality({t \in alive : FlowOf[t] = f}) \in Nat
  BY <1>6, Finite, FS_CardinalityType DEF TransShape
<1>9. ConnShape' /\ TransShape' /\ count' \in [Flows -> Int]
      /\ CountsOf(count', recv', snd', alive')
  <2>1. CASE ReceiveCleanup
    <3>1. /\ recv' = {} /\ UNCHANGED <<snd, sr, transVars>>
          /\ count' = [count EXCEPT !["receive"] = @ - Cardinality(recv)]
      BY <2>1 DEF ReceiveCleanup
    <3> QED BY <1>1, <1>6, <1>7, <1>8, <3>1 DEF ConnShape, TransShape, transVars, CountsOf, Flows
  <2>2. CASE SendCleanup
    <3>1. /\ snd' = {} /\ UNCHANGED <<recv, sr, transVars>>
          /\ count' = [count EXCEPT !["send"] = @ - Cardinality(snd)]
      BY <2>2 DEF SendCleanup
    <3> QED BY <1>1, <1>6, <1>7, <1>8, <3>1 DEF ConnShape, TransShape, transVars, CountsOf, Flows
  <2>3. CASE SendReceiveCleanup
    BY <1>1, <1>6, <2>3 DEF SendReceiveCleanup, ConnShape, TransShape, transVars, CountsOf
  <2>4. CASE WakeupCleanup
    BY <1>1, <1>6, <2>4 DEF WakeupCleanup, ConnShape, TransShape, transVars, CountsOf
  <2>5. ASSUME NEW k \in Kinds, TransportCleanup(k) PROVE <1>9!:
    <3>1. /\ alive' = {t \in alive : Kind[t] # k}
          /\ count' = [f \in Flows |-> count[f] -
                         Cardinality({t \in alive : Kind[t] = k /\ FlowOf[t] = f})]
          /\ UNCHANGED <<recv, snd, sr>>
      BY <2>5 DEF TransportCleanup
    <3>2. ASSUME NEW f \in Flows
          PROVE  /\ Cardinality({t \in alive : Kind[t] = k /\ FlowOf[t] = f}) \in Nat
                 /\ Cardinality({t \in alive' : FlowOf[t] = f})
                      = Cardinality({t \in alive : FlowOf[t] = f})
                          - Cardinality({t \in alive : Kind[t] = k /\ FlowOf[t] = f})
      <4> DEFINE T == {t \in alive : FlowOf[t] = f}
                 K == {t \in alive : Kind[t] = k /\ FlowOf[t] = f}
      <4>1. {t \in alive' : FlowOf[t] = f} = T \ K /\ K \subseteq T /\ T \cap K = K
        BY <3>1
      <4>2. IsFiniteSet(T)
        BY <1>6, Finite DEF TransShape
      <4>3. IsFiniteSet(K)
        <5> HIDE DEF T, K
        <5> QED BY <4>1, <4>2, FS_Subset
      <4>4. Cardinality(T \ K) = Cardinality(T) - Cardinality(K) /\ Cardinality(K) \in Nat
        <5> HIDE DEF T, K
        <5>1. Cardinality(T \ K) = Cardinality(T) - Cardinality(T \cap K)
          BY <4>2, <4>3, FS_Difference
        <5> QED BY <4>1, <4>3, <5>1, FS_CardinalityType
      <4> QED BY <4>1, <4>4
    <3>3. ConnShape'
      BY <1>1, <1>6, <3>1 DEF ConnShape
    <3>4. TransShape'
      BY <1>6, <2>5 DEF TransportCleanup, TransShape
    <3>5. count' \in [Flows -> Int]
      <4> DEFINE K(f) == Cardinality({t \in alive : Kind[t] = k /\ FlowOf[t] = f})
      <4>1. \A f \in Flows : K(f) \in Nat
        BY <3>2
      <4>2. count' = [f \in Flows |-> count[f] - K(f)]
        BY <3>1
      <4> HIDE DEF K
      <4> QED BY <1>6, <4>1, <4>2
    <3>6. CountsOf(count', recv', snd', alive')
      BY <1>6, <1>7, <1>8, <3>1, <3>2 DEF CountsOf, Flows
    <3> QED BY <3>3, <3>4, <3>5, <3>6
  <2> QED BY <2>1, <2>2, <2>3, <2>4, <2>5 DEF Cleanup
<1>10. CountsExact'
  BY <1>9 DEF CountsExact, CountsOf, TransportsOf
<1> QED BY <1>4, <1>5, <1>9, <1>10 DEF IInv, Shape, Modes, ConnsWhole, PeersValid

-----------------------------------------------------------------------------
(* The theorems *)

LEMMA NextInv == IInv /\ [Next]_vars => IInv'
<1> SUFFICES ASSUME IInv, [Next]_vars PROVE IInv'
  OBVIOUS
<1>1. CASE UNCHANGED vars
  <2>1. LoopShape' /\ FlagMatchesPhase'
    BY <1>1 DEF vars, loopVars, IInv, Shape, LoopShape, FlagMatchesPhase
  <2>2. ~shutdown' => \A p \in ready' \cup batch' : PeerOK(p)
    BY <1>1 DEF vars, loopVars, IInv, PeersValid
  <2> QED BY <1>1, <2>1, <2>2, IdleStep DEF vars, loopVars
<1>2. CASE Program
  <2>1. CASE Handler
    BY <2>1, ReceiveInv, SendHupInv, WakeupInv, ResolvedInv, ConnectedInv, AcceptInv, ExecInv,
       ShutdownSignalInv DEF Handler
  <2> QED BY <1>2, <2>1, TransportNewInv, LoopInv, StdinoutInitInv, CleanupInv DEF Program
<1>3. CASE Environment
  BY <1>3, EnvironmentInv
<1> QED BY <1>1, <1>2, <1>3 DEF Next, Terminated

\* The strengthened invariant holds in every reachable state.
THEOREM InductiveInvariant == Spec => []IInv
<1>1. Init => IInv
  BY InitInv
<1>2. IInv /\ [Next]_vars => IInv'
  BY NextInv
<1> QED BY <1>1, <1>2, PTL DEF Spec

\* Every variable keeps its type; in particular none of the uint32_t counters of
\* peer.c is ever decremented below 0.
THEOREM TypeCorrect == Spec => []TypeOK
<1>1. IInv => TypeOK
  <2> SUFFICES ASSUME IInv PROVE TypeOK
    OBVIOUS
  <2>1. \A f \in Flows : count[f] \in Nat
    <3>1. Cardinality(recv) \in Nat /\ Cardinality(snd) \in Nat
      BY Finite, FS_CardinalityType DEF IInv, Shape, ConnShape
    <3>2. \A f \in Flows : Cardinality(TransportsOf(f)) \in Nat
      BY Finite, FS_CardinalityType DEF IInv, Shape, TransShape, TransportsOf
    <3> QED BY <3>1, <3>2 DEF IInv, CountsExact, Flows
  <2>2. count \in [Flows -> Nat]
    BY <2>1 DEF IInv, Shape
  <2> QED BY <2>2 DEF IInv, Shape, LoopShape, ConnShape, TransShape, TypeOK
<1> QED BY <1>1, InductiveInvariant, PTL

\* The counters by which peer_loop() decides that the program is done equal
\* the live receives and sends plus the transports that can make more.
THEOREM CountersExact == Spec => []CountsExact
<1>1. IInv => CountsExact
  BY DEF IInv
<1> QED BY <1>1, InductiveInvariant, PTL

\* No pointer that epoll_wait() returned, or that is on the always-trigger
\* list, leads to a freed object when peer_loop() comes to call it.
THEOREM PeersNeverDangle == Spec => []NoDanglingPeer
<1>1. IInv => NoDanglingPeer
  BY DEF IInv, PeersValid, PeerOK, NoDanglingPeer
<1> QED BY <1>1, InductiveInvariant, PTL

\* An allocated transport always has exactly one thing that will call it:
\* no failure, retry or disconnect loses a transport or starts it twice.
THEOREM TransportsHaveOneActivity == Spec => []OneActivity
<1>1. IInv => OneActivity
  <2> SUFFICES ASSUME IInv, ~shutdown, NEW t \in alive PROVE Activities(t) = 1
    BY DEF OneActivity
  <2>1. /\ t \in Transports /\ Mode(t) /\ Kind[t] \in Kinds /\ ConnShape /\ NoOwner \notin Transports
        /\ \A c \in Conns : Halves(c)
    BY BusAssumption DEF BusAssumption, IInv, Shape, TransShape, Modes, ConnsWhole
  <2>2. Owned(t) = {c \in Conns : owner[c] = t}
    BY <2>1 DEF Owned, Live, Halves
  <2>3. handler[t] \in {"resolved", "connected", "accept", "closed", "died", "retry"}
    BY <2>1 DEF Mode, HandlersOf, Kinds
  <2>4. CASE handler[t] = "closed"
    <3>1. PICK c \in Conns : owner[c] = t
      BY <2>1, <2>4 DEF Mode, Has
    <3>2. Owned(t) = {c}
      BY <2>1, <2>2, <3>1 DEF Mode
    <3>3. Cardinality(Owned(t)) = 1
      BY <3>2, FS_Singleton
    <3> QED BY <2>1, <2>4, <3>3 DEF Activities, Mode, Has
  <2>5. CASE handler[t] # "closed"
    <3>1. Owned(t) = {}
      BY <2>1, <2>2, <2>5 DEF Mode, Has
    <3>2. Cardinality(Owned(t)) = 0
      BY <3>1, FS_EmptySet
    <3> QED BY <2>1, <2>3, <2>5, <3>2 DEF Activities, Mode, Has
  <2> QED BY <2>4, <2>5
<1> QED BY <1>1, InductiveInvariant, PTL

\* The event_handler stored in a transport's peer is one that handles what is
\* going to call it.
THEOREM HandlersMatch == Spec => []HandlerMatches
<1>1. IInv => HandlerMatches
  <2> SUFFICES ASSUME IInv, ~shutdown, NEW t \in alive
               PROVE  /\ reg[t] => handler[t] \in {"resolved", "connected", "accept"}
                      /\ wake[t] > 0 => handler[t] = "retry"
                      /\ Owned(t) # {} => handler[t] = "closed"
                      /\ child[t] # "none" => handler[t] = "died"
    BY DEF HandlerMatches
  <2>1. t \in Transports /\ Mode(t)
    BY DEF IInv, Shape, TransShape, Modes
  <2>2. Owned(t) # {} => handler[t] = "closed"
    BY <2>1 DEF Owned, Live, Mode, Has
  <2> QED BY <2>1, <2>2 DEF Mode, Has
<1> QED BY <1>1, InductiveInvariant, PTL

\* The ref_count of a struct send_receive is the number of its live halves.
THEOREM RefCountsExact == Spec => []SendReceiveRefs
<1>1. IInv => SendReceiveRefs
  <2> SUFFICES ASSUME IInv, ~shutdown, NEW c \in Conns, sr[c] > 0
               PROVE  sr[c] = (IF c \in recv THEN 1 ELSE 0) + (IF c \in snd THEN 1 ELSE 0)
    BY DEF SendReceiveRefs
  <2>1. Halves(c) /\ sr[c] \in 0..2
    BY DEF IInv, Shape, ConnShape, ConnsWhole
  <2> QED BY <2>1 DEF Halves
<1> QED BY <1>1, InductiveInvariant, PTL

LEMMA StutterKeepsFlag == UNCHANGED vars => shutdown' = shutdown
BY DEF vars, loopVars

LEMMA StopStep ==
  ASSUME IInv, [Next]_vars, phase = "loop", shutdown'
  PROVE  \/ recv = {} /\ \A t \in alive : ~HasReceive(FlowOf[t])
         \/ snd = {} /\ \A t \in alive : ~HasSend(FlowOf[t])
<1>1. ~shutdown
  BY DEF IInv, FlagMatchesPhase
<1>2. \A p : ~Call(p)
  BY DEF Call
<1>3. Kind \in [Transports -> Kinds]
  BY BusAssumption DEF BusAssumption
<1>4. ~InputsRemain \/ ~OutputsRemain
  <2>1. ~(shutdown' = shutdown)
    BY <1>1, Zenon
  <2>2. ~Handler
    BY <1>2 DEF Handler, ReceiveEof, ReceiveData, SendHup, Wakeup, OutgoingResolved,
                OutgoingConnected, IncomingListen, IncomingAccept, ExecLog, ExecSigchld,
                ShutdownSignal
  <2>3. ~Environment /\ ~Terminated
    BY <2>1 DEF Environment, BecomeReady, ChildExit, ChildStop, Terminated
  <2>4. Program
    <3>1. Next \/ UNCHANGED vars
      OBVIOUS
    <3> QED BY <2>1, <2>3, <3>1, StutterKeepsFlag, Zenon DEF Next
  <2>5. NoneRemaining
    BY <1>3, <2>1, <2>2, <2>4
    DEF Program, TransportNew, loopVars, InitDone, StdinoutInit, EpollWait, WalkAlways,
        WalkDone, LeaveLoop, Cleanup
  <2> QED BY <2>5 DEF NoneRemaining
<1>5. /\ Cardinality(recv) \in Nat /\ Cardinality(snd) \in Nat
      /\ Cardinality(recv) = 0 => recv = {}
      /\ Cardinality(snd) = 0 => snd = {}
  <2>1. IsFiniteSet(recv) /\ IsFiniteSet(snd)
    BY Finite DEF IInv, Shape, ConnShape
  <2> QED BY <2>1, FS_CardinalityType, FS_EmptySet
<1>6. ASSUME NEW f \in Flows
      PROVE  /\ Cardinality(TransportsOf(f)) \in Nat
             /\ Cardinality(TransportsOf(f)) = 0 => \A t \in alive : FlowOf[t] # f
  <2>1. IsFiniteSet(TransportsOf(f))
    BY Finite DEF IInv, Shape, TransShape, TransportsOf
  <2>2. Cardinality(TransportsOf(f)) = 0 => TransportsOf(f) = {}
    BY <2>1, FS_EmptySet
  <2> QED BY <2>1, <2>2, FS_CardinalityType DEF TransportsOf
<1>7. CountsExact
  BY DEF IInv
<1>8. CASE ~InputsRemain
  <2>1. /\ Cardinality(recv) = 0 /\ Cardinality(TransportsOf("receive")) = 0
        /\ Cardinality(TransportsOf("send_receive")) = 0
    BY <1>5, <1>6, <1>7, <1>8 DEF InputsRemain, CountsExact, Flows
  <2> QED BY <1>5, <1>6, <2>1 DEF HasReceive, Flows
<1>9. CASE ~OutputsRemain
  <2>1. /\ Cardinality(snd) = 0 /\ Cardinality(TransportsOf("send")) = 0
        /\ Cardinality(TransportsOf("send_receive")) = 0
    BY <1>5, <1>6, <1>7, <1>9 DEF OutputsRemain, CountsExact, Flows
  <2> QED BY <1>5, <1>6, <2>1 DEF HasSend, Flows
<1> QED BY <1>4, <1>8, <1>9

\* "No remaining inputs/outputs" ends the loop only when no connection and no
\* transport, not even one that waits to retry, could still bring (or take) a
\* packet.
THEOREM StopsWhenUseless == Spec => StopsOnlyWhenUseless
<1> DEFINE Useless == \/ recv = {} /\ \A t \in alive : ~HasReceive(FlowOf[t])
                      \/ snd = {} /\ \A t \in alive : ~HasSend(FlowOf[t])
<1>1. IInv /\ [Next]_vars => [phase = "loop" /\ shutdown' => Useless]_vars
  BY StopStep
<1> QED BY <1>1, InductiveInvariant, PTL DEF Spec, StopsOnlyWhenUseless

-----------------------------------------------------------------------------
(* A clean exit *)

\* The phases after each clean-up call.
PastFile        == {"clean_wakeup", "done"}
PastExec        == {"clean_file"} \cup PastFile
PastOutgoing    == {"clean_exec"} \cup PastExec
PastIncoming    == {"clean_outgoing"} \cup PastOutgoing
PastSendReceive == {"clean_incoming"} \cup PastIncoming
PastSend        == {"clean_send_receive"} \cup PastSendReceive
PastReceive     == {"clean_send"} \cup PastSend
PastTransport(k) ==
  CASE k = "incoming" -> PastIncoming
    [] k = "outgoing" -> PastOutgoing
    [] k = "exec"     -> PastExec
    [] k = "file"     -> PastFile

\* What the clean-up has freed so far stays free.
Gone(t) == t \notin alive /\ ~reg[t] /\ child[t] = "none" /\ ~log[t]
Swept ==
  /\ phase \in PastReceive => recv = {}
  /\ phase \in PastSend => snd = {}
  /\ phase \in PastSendReceive => \A c \in Conns : sr[c] = 0
  /\ \A t \in Transports : phase \in PastTransport(Kind[t]) => Gone(t)
  /\ phase = "done" => \A t \in Transports : wake[t] = 0

LEMMA SweptInv == IInv /\ Swept /\ [Next]_vars => Swept'
<1> SUFFICES ASSUME IInv, Swept, [Next]_vars PROVE Swept'
  OBVIOUS
<1> USE DEF PastReceive, PastSend, PastSendReceive, PastIncoming, PastOutgoing, PastExec,
            PastFile
<1>0. /\ \A t \in Transports : Kind[t] \in Kinds
      /\ TransShape /\ phase \in Phases
  BY BusAssumption DEF BusAssumption, IInv, Shape, LoopShape
<1>1. \A k \in Kinds : PastTransport(k) \subseteq PastReceive
  BY DEF PastTransport, Kinds
<1>2. CASE UNCHANGED vars
  BY <1>2 DEF vars, loopVars, connVars, transVars, Swept, Gone
<1>3. CASE phase' \notin PastReceive
  BY <1>0, <1>1, <1>3 DEF Swept
<1>4. CASE Cleanup
  <2>1. phase' = After(phase)
    BY <1>4 DEF Cleanup
  <2>2. CASE ReceiveCleanup
    <3>1. phase' = "clean_send" /\ recv' = {}
      BY <2>1, <2>2 DEF ReceiveCleanup, After
    <3> QED BY <1>0, <3>1 DEF Swept, PastTransport, Kinds
  <2>3. CASE SendCleanup
    <3>1. phase = "clean_send" /\ phase' = "clean_send_receive" /\ recv' = recv /\ snd' = {}
      BY <2>1, <2>3 DEF SendCleanup, After
    <3> QED BY <1>0, <3>1 DEF Swept, PastTransport, Kinds
  <2>4. CASE SendReceiveCleanup
    <3>1. /\ phase = "clean_send_receive" /\ phase' = "clean_incoming"
          /\ recv' = recv /\ snd' = snd /\ \A c \in Conns : sr'[c] = 0
      BY <2>1, <2>4 DEF SendReceiveCleanup, After
    <3> QED BY <1>0, <3>1 DEF Swept, PastTransport, Kinds
  <2>5. CASE WakeupCleanup
    <3>1. /\ phase = "clean_wakeup" /\ phase' = "done"
          /\ \A t \in Transports : wake'[t] = 0
          /\ UNCHANGED <<recv, snd, sr, alive, reg, child, log>>
      BY <2>1, <2>5 DEF WakeupCleanup, After
    <3>2. \A t \in Transports : Gone(t)
      BY <1>0, <3>1 DEF Swept, PastTransport, Kinds
    <3> QED BY <3>1, <3>2 DEF Swept, Gone
  <2>6. ASSUME NEW k \in Kinds, TransportCleanup(k) PROVE Swept'
    <3>1. /\ phase = CleanPhase(k) /\ phase' = After(CleanPhase(k))
          /\ UNCHANGED <<recv, snd, sr>>
          /\ alive' = {t \in alive : Kind[t] # k}
          /\ reg' = [t \in Transports |-> reg[t] /\ Kind[t] # k]
          /\ child' = [t \in Transports |-> IF Kind[t] = k THEN "none" ELSE child[t]]
          /\ log' = [t \in Transports |-> log[t] /\ Kind[t] # k]
      BY <2>1, <2>6 DEF TransportCleanup
    <3>2. phase \in PastSendReceive /\ phase' # "done"
      BY <3>1 DEF CleanPhase, After, Kinds
    <3>3. recv' = {} /\ snd' = {} /\ \A c \in Conns : sr'[c] = 0
      BY <3>1, <3>2 DEF Swept
    <3>4. ASSUME NEW t \in Transports, phase' \in PastTransport(Kind[t]) PROVE Gone(t)'
      <4>1. CASE Kind[t] = k
        BY <3>1, <4>1 DEF Gone
      <4>2. CASE Kind[t] # k
        <5>1. phase \in PastTransport(Kind[t])
          BY <1>0, <3>1, <3>4, <4>2 DEF CleanPhase, After, Kinds, PastTransport
        <5> QED BY <3>1, <5>1 DEF Swept, Gone
      <4> QED BY <4>1, <4>2
    <3> QED BY <3>2, <3>3, <3>4 DEF Swept
  <2> QED BY <1>4, <2>2, <2>3, <2>4, <2>5, <2>6 DEF Cleanup
<1>5. CASE ~Cleanup /\ phase' \in PastReceive
  <2> USE <1>5
  <2>1. ~Handler /\ ~Environment
    <3>1. CASE shutdown
      BY <3>1 DEF Handler, Call, ReceiveEof, ReceiveData, SendHup, Wakeup, OutgoingResolved,
         OutgoingConnected, IncomingListen, IncomingAccept, ExecLog, ExecSigchld,
         ShutdownSignal, Environment, BecomeReady, ChildExit, ChildStop, IInv, FlagMatchesPhase
    <3>2. CASE ~shutdown
      <4>1. phase \notin PastReceive
        BY <3>2 DEF IInv, FlagMatchesPhase, CleanPhases
      <4> QED BY <4>1 DEF Handler, Call, ReceiveEof, ReceiveData, SendHup, Wakeup,
         OutgoingResolved, OutgoingConnected, IncomingListen, IncomingAccept, ExecLog,
         ExecSigchld, ShutdownSignal, Environment, BecomeReady, ChildExit, ChildStop
    <3> QED BY <3>1, <3>2
  <2>2. ~InitDone
    BY DEF InitDone, After, Kinds
  <2>3. ~StdinoutInit
    BY DEF StdinoutInit, After
  <2>4. ~NoneRemaining /\ ~EpollWait /\ ~WalkAlways /\ ~WalkDone /\ ~LeaveLoop
    BY DEF NoneRemaining, EpollWait, WalkAlways, WalkDone, LeaveLoop
  <2>5. \A t \in Transports : ~TransportNew(t)
    BY <1>0 DEF TransportNew, loopVars, Kinds
  <2>6. UNCHANGED vars
    BY <2>1, <2>2, <2>3, <2>4, <2>5 DEF Next, Program, Terminated
  <2> QED BY <1>2, <2>6
<1> QED BY <1>3, <1>4, <1>5

\* When main() returns after its clean-up calls, no connection, transport,
\* child or wakeup is left and every counter is back to 0.
THEOREM ExitsClean == Spec => []CleanExit
<1>1. Init => Swept
  BY BusAssumption DEF BusAssumption, Init, Swept, PastReceive, PastSend, PastSendReceive,
     PastIncoming, PastOutgoing, PastExec, PastFile, PastTransport, Kinds
<1>2. IInv /\ Swept => CleanExit
  <2> SUFFICES ASSUME IInv, Swept, phase = "done"
               PROVE  /\ Live = {} /\ alive = {}
                      /\ \A t \in Transports :
                           wake[t] = 0 /\ child[t] = "none" /\ ~reg[t] /\ ~log[t]
                      /\ \A f \in Flows : count[f] = 0
    BY DEF CleanExit
  <2> USE DEF PastReceive, PastSend, PastSendReceive, PastIncoming, PastOutgoing, PastExec,
              PastFile
  <2>1. recv = {} /\ snd = {} /\ Live = {}
    BY DEF Swept, Live
  <2>2. \A t \in Transports : Gone(t) /\ wake[t] = 0
    BY BusAssumption DEF BusAssumption, Swept, PastTransport, Kinds
  <2>3. alive = {}
    BY <2>2 DEF Gone, IInv, Shape, TransShape
  <2>4. \A f \in Flows : TransportsOf(f) = {}
    BY <2>3 DEF TransportsOf
  <2>5. \A f \in Flows : count[f] = 0
    BY <2>1, <2>4, FS_EmptySet DEF IInv, CountsExact, Flows
  <2> QED BY <2>1, <2>2, <2>3, <2>5 DEF Gone
<1>3. IInv /\ Swept /\ [Next]_vars => Swept'
  BY SweptInv
<1> QED BY <1>1, <1>2, <1>3, InductiveInvariant, PTL DEF Spec

=============================================================================
