--------------------------- MODULE Buffers_proofs ---------------------------
(***************************************************************************)
(* The two users of struct buf.                                            *)
(*                                                                         *)
(* A connection, for any streams of bytes, understood or not, in reads of  *)
(* any size: no parser consumes more than the buffer holds (ParsersFit),   *)
(* so the loop of receive_read() keeps the buffer in its bounds            *)
(* (BufferBounds) and buf_fill() always finds room (AlwaysRoom).           *)
(*                                                                         *)
(* The frames in it, for any packet and whatever follows it: each parser   *)
(* reads what the serializer of its format writes as the same packet, and  *)
(* consumes no other bytes (RawRoundTrip, AirspyRoundTrip, BeastRoundTrip, *)
(* JsonRoundTrip, ProtoRoundTrip); the first frame of a connection is      *)
(* found by the parser of its own format (RawDetected, AirspyDetected,     *)
(* BeastDetected, JsonHelloDetected, ProtoHelloDetected).                  *)
(*                                                                         *)
(* A connection along a stream of frames, however it is cut into reads: it *)
(* takes frame by frame (FrameByFrame), so that each packet is sent on,    *)
(* whole, once and in order (FramesIntact), the parsers that were tried    *)
(* leave no trace (FramesLeaveNoTrace) and only what is in no format       *)
(* overruns the buffer (FramesOverrun).  That a stream of frames is one is *)
(* proved of each format (RawFramed, AirspyFramed, BeastFramed,            *)
(* JsonFramed, ProtoFramed, StrangeFramed), and all of it comes together   *)
(* in EveryFormat.                                                         *)
(*                                                                         *)
(* The random bytes, for any size of the buffer and any requests:          *)
(* rand_fill() repeats bytes only of a buffer that was drained exactly     *)
(* (NothingElseRepeats).                                                   *)
(***************************************************************************)
EXTENDS Receive, Rand, FiniteSetTheorems, SequenceTheorems, WellFoundedInduction, TLAPS

-----------------------------------------------------------------------------
(* Numbers *)

\* A set of numbers has a least member.
LEMMA LeastNat ==
  ASSUME NEW T \in SUBSET Nat, T # {}
  PROVE  \E i \in T : \A j \in T : i <= j
<1>1. PICK i \in T : TRUE
  OBVIOUS
<1> DEFINE R == StrictSubsetOrdering(Nat)
           S == FiniteSubsetsOf(Nat)
           U == {0..j : j \in T}
<1>2. IsWellFoundedOn(R, S)
  BY FS_StrictSubsetOrderingWellFounded
<1>3. U \subseteq S /\ U # {}
  <2>1. \A j \in T : IsFiniteSet(0..j) /\ 0..j \subseteq Nat
    BY FS_Interval
  <2> QED BY <2>1 DEF FiniteSubsetsOf
<1>4. PICK x \in U : \A y \in U : ~(<<y, x>> \in R)
  <2> HIDE DEF R, S, U
  <2> QED BY <1>2, <1>3, WFMin
<1>5. PICK f \in T : x = 0..f
  BY <1>4
<1>6. ASSUME NEW g \in T, g < f PROVE FALSE
  <2>1. 0..g \subseteq Nat /\ x \subseteq Nat /\ 0..g \subseteq x
    BY <1>5, <1>6
  <2>2. f \in x /\ f \notin 0..g
    BY <1>5, <1>6
  <2>3. <<0..g, x>> \in R
    BY <2>1, <2>2 DEF StrictSubsetOrdering
  <2> QED BY <1>4, <2>3
<1> QED BY <1>6

\* A set of numbers that has 0, and every next one, has all.
LEMMA Reaches ==
  ASSUME NEW P \in SUBSET Nat, 0 \in P, \A m \in P : m + 1 \in P
  PROVE  \A n \in Nat : n \in P
<1> SUFFICES ASSUME NEW n \in Nat \ P PROVE FALSE
  OBVIOUS
<1>1. PICK i \in Nat \ P : \A j \in Nat \ P : i <= j
  BY LeastNat
<1>2. i - 1 \in P
  BY <1>1
<1> QED BY <1>1, <1>2

\* The least member of a set of positions.
LEMMA MinOf ==
  ASSUME NEW T \in SUBSET Nat, T # {}
  PROVE  Min(T) \in T /\ \A j \in T : Min(T) <= j
<1>1. \E i \in T : \A j \in T : i <= j
  BY LeastNat
<1> QED BY <1>1 DEF Min

-----------------------------------------------------------------------------
(* Parsers *)

\* A parser's result that consumes at most n bytes.
Fits(r, n) ==
  \E u \in 0..n : \E packet, s, f :
    r = [used |-> u, packet |-> packet, state |-> s, format |-> f]

\* A parser that returns false consumes nothing.
LEMMA FailedFits ==
  ASSUME NEW s, NEW n \in Nat
  PROVE  Fits(Failed(s), n)
<1>1. 0 \in 0..n
  OBVIOUS
<1> QED BY <1>1, Zenon DEF Failed, Fits

\* One that returns true consumes what it says.
LEMMA ParsedFits ==
  ASSUME NEW n \in Nat, NEW u \in 0..n, NEW packet, NEW s
  PROVE  Fits(Parsed(u, packet, s), n)
BY DEF Parsed, Fits

\* What Fits says of the number of bytes.
LEMMA FitsUsed ==
  ASSUME NEW r, NEW n \in Nat, Fits(r, n)
  PROVE  r.used \in 0..n
BY DEF Fits

\* A line end lies in the buffer.
LEMMA LineEndFits ==
  ASSUME NEW b \in Seq(Byte), NEW k \in Nat
  PROVE  /\ LineEnd(b, k) \in Nat
         /\ LineEnd(b, k) > 0 => k + LineEnd(b, k) <= Len(b)
<1>1. CASE Len(b) > k /\ b[k + 1] = LF
  BY <1>1 DEF LineEnd
<1>2. CASE ~(Len(b) > k /\ b[k + 1] = LF) /\ Len(b) > k + 1 /\ Bytes(b, k, 2) = <<CR, LF>>
  <2>1. LineEnd(b, k) = 2
    BY <1>2 DEF LineEnd
  <2> QED BY <1>2, <2>1
<1>3. CASE ~(Len(b) > k /\ b[k + 1] = LF) /\ ~(Len(b) > k + 1 /\ Bytes(b, k, 2) = <<CR, LF>>)
  <2>1. LineEnd(b, k) = 0
    BY <1>3 DEF LineEnd
  <2> QED BY <2>1
<1> QED BY <1>1, <1>2, <1>3

\* packet_payload_len[] has a length for each type.
LEMMA PayloadLens == \A t \in 1..3 : PayloadLen[t] \in Nat
BY DEF PayloadLen

\* raw_parse_packet(): the overlay ends with the line end.
LEMMA RawTryFits ==
  ASSUME NEW b \in Seq(Byte), NEW t \in 1..3, NEW s
  PROVE  Fits(RawTry(b, t, s), Len(b))
<1> DEFINE n == 1 + 2 * PayloadLen[t]
           end == LineEnd(b, n + 1)
<1>1. n \in Nat
  BY PayloadLens
<1>2. end \in Nat /\ (end > 0 => n + 1 + end <= Len(b))
  <2> HIDE DEF n
  <2> QED BY <1>1, LineEndFits
<1>3. RawTry(b, t, s) = Failed(s) \/ (end > 0 /\ \E p : RawTry(b, t, s) = Parsed(n + 1 + end, p, s))
  BY DEF RawTry
<1>4. end > 0 => n + 1 + end \in 0..Len(b)
  <2> HIDE DEF n, end
  <2> QED BY <1>1, <1>2
<1> HIDE DEF n, end
<1> QED BY <1>3, <1>4, FailedFits, ParsedFits

\* airspy_adsb_parse_packet(): so does this one.
LEMMA AirspyTryFits ==
  ASSUME NEW b \in Seq(Byte), NEW t \in 1..3, NEW s
  PROVE  Fits(AirspyTry(b, t, s), Len(b))
<1> DEFINE n == 1 + 2 * PayloadLen[t]
           end == LineEnd(b, n + 18)
<1>1. n \in Nat
  BY PayloadLens
<1>2. end \in Nat /\ (end > 0 => n + 18 + end <= Len(b))
  <2> HIDE DEF n
  <2> QED BY <1>1, LineEndFits
<1>3. \/ \E x : AirspyTry(b, t, s) = Failed(x)
      \/ end # 0 /\ \E p, x : AirspyTry(b, t, s) = Parsed(n + 18 + end, p, x)
  BY DEF AirspyTry
<1>4. end # 0 => n + 18 + end \in 0..Len(b)
  <2> HIDE DEF n, end
  <2> QED BY <1>1, <1>2
<1> HIDE DEF n, end
<1> QED BY <1>3, <1>4, FailedFits, ParsedFits

\* How much of the buffer is taken with the byte after the first i.
TakeOne(b, i) ==
  CASE i = -1 \/ i >= Len(b) -> -1
    [] i \in 1..Len(b) - 1 /\ b[i + 1] = ESC
         -> IF i = Len(b) - 1 \/ b[i + 2] # ESC THEN -1 ELSE i + 2
    [] OTHER -> i + 1

\* The function that Taken() defines exists, and goes from byte to byte.
LEMMA TakenSteps ==
  ASSUME NEW b, NEW n \in Nat
  PROVE  Taken(b, n) = [k \in 0..n |-> IF k = 0 THEN 0 ELSE TakeOne(b, Taken(b, n)[k - 1])]
<1> DEFINE Is(g, m) == g = [k \in 0..m |-> IF k = 0 THEN 0 ELSE TakeOne(b, g[k - 1])]
           f == CHOOSE g : Is(g, n)
<1>1. Taken(b, n) = f
  BY DEF Taken, TakeOne
<1>2. Is(f, n)
  <2> DEFINE P == {m \in Nat : \E g : Is(g, m)}
  <2>1. 0 \in P
    <3>1. Is([k \in 0..0 |-> 0], 0)
      OBVIOUS
    <3> QED BY <3>1
  <2>2. ASSUME NEW m \in P PROVE m + 1 \in P
    <3>1. PICK g : Is(g, m)
      OBVIOUS
    <3> DEFINE h == [k \in 0..m + 1 |-> IF k = 0 THEN 0 ELSE TakeOne(b, g[k - 1])]
    <3>2. \A k \in 0..m : h[k] = g[k]
      BY <3>1
    <3>3. \A k \in 1..m + 1 : k - 1 \in 0..m /\ h[k - 1] = g[k - 1]
      BY <3>2
    <3>4. \A k \in 0..m + 1 : (IF k = 0 THEN 0 ELSE TakeOne(b, g[k - 1]))
                                = (IF k = 0 THEN 0 ELSE TakeOne(b, h[k - 1]))
      <4> HIDE DEF h
      <4> QED BY <3>3
    <3>5. Is(h, m + 1)
      BY <3>4, Zenon
    <3> HIDE DEF Is
    <3> QED BY <3>5
  <2>3. P \in SUBSET Nat
    OBVIOUS
  <2>4. n \in P
    <3> HIDE DEF P
    <3> QED BY <2>1, <2>2, <2>3, Reaches
  <2> QED BY <2>4
<1> QED BY <1>1, <1>2, Zenon

\* What an unescaped byte takes lies in the buffer.
LEMMA TakenFits ==
  ASSUME NEW b \in Seq(Byte), NEW n \in Nat
  PROVE  Taken(b, n)[n] \in -1..Len(b)
<1> DEFINE f == Taken(b, n)
<1>1. ASSUME NEW i \in -1..Len(b) PROVE TakeOne(b, i) \in -1..Len(b)
  <2>1. CASE i = -1 \/ i >= Len(b)
    <3>1. i \notin 1..Len(b) - 1
      BY <2>1
    <3>2. TakeOne(b, i) = -1
      BY <2>1, <3>1 DEF TakeOne
    <3> QED BY <3>2
  <2>2. CASE i \in 1..Len(b) - 1 /\ b[i + 1] = ESC
    BY <2>2 DEF TakeOne
  <2>3. CASE ~(i = -1 \/ i >= Len(b)) /\ ~(i \in 1..Len(b) - 1 /\ b[i + 1] = ESC)
    BY <2>3 DEF TakeOne
  <2> QED BY <2>1, <2>2, <2>3
<1>2. f = [k \in 0..n |-> IF k = 0 THEN 0 ELSE TakeOne(b, f[k - 1])]
  BY TakenSteps
<1> DEFINE P == {m \in Nat : m \in 0..n => f[m] \in -1..Len(b)}
<1> HIDE DEF f
<1>3. 0 \in P
  BY <1>2
<1>4. ASSUME NEW m \in P PROVE m + 1 \in P
  <2>1. m + 1 \in 0..n => f[m + 1] = TakeOne(b, f[m])
    BY <1>2
  <2> QED BY <1>1, <2>1
<1>5. P \in SUBSET Nat
  OBVIOUS
<1>6. n \in P
  <2> HIDE DEF P
  <2> QED BY <1>3, <1>4, <1>5, Reaches
<1> QED BY <1>6 DEF f

\* The three attempts of raw_parse(), one per type of packet.
LEMMA RawParseFits ==
  ASSUME NEW b \in Seq(Byte), NEW s
  PROVE  Fits(RawParse(b, s), Len(b))
<1> DEFINE orTry(r, t) == IF r.used > 0 THEN r ELSE RawTry(b, t, r.state)
<1>1. RawParse(b, s) = orTry(orTry(RawTry(b, 1, s), 2), 3)
  BY DEF RawParse, OrElse
<1>2. ASSUME NEW r, NEW t \in 1..3, Fits(r, Len(b)) PROVE Fits(orTry(r, t), Len(b))
  BY <1>2, RawTryFits
<1>3. Fits(RawTry(b, 1, s), Len(b))
  BY RawTryFits
<1> HIDE DEF orTry
<1>4. Fits(orTry(RawTry(b, 1, s), 2), Len(b))
  BY <1>2, <1>3
<1> QED BY <1>1, <1>2, <1>4

\* The three attempts of airspy_adsb_parse().
LEMMA AirspyParseFits ==
  ASSUME NEW b \in Seq(Byte), NEW s
  PROVE  Fits(AirspyParse(b, s), Len(b))
<1> DEFINE orTry(r, t) == IF r.used > 0 THEN r ELSE AirspyTry(b, t, r.state)
<1>1. AirspyParse(b, s) = orTry(orTry(AirspyTry(b, 1, s), 2), 3)
  BY DEF AirspyParse, OrElse
<1>2. ASSUME NEW r, NEW t \in 1..3, Fits(r, Len(b)) PROVE Fits(orTry(r, t), Len(b))
  BY <1>2, AirspyTryFits
<1>3. Fits(AirspyTry(b, 1, s), Len(b))
  BY AirspyTryFits
<1> HIDE DEF orTry
<1>4. Fits(orTry(AirspyTry(b, 1, s), 2), Len(b))
  BY <1>2, <1>3
<1> QED BY <1>1, <1>2, <1>4

\* beast_parse(): the bytes that the unescaped packet takes.
LEMMA BeastParseFits ==
  ASSUME NEW b \in Seq(Byte), NEW s
  PROVE  Fits(BeastParse(b, s), Len(b))
<1>1. CASE Len(b) < 9 \/ b[1] # ESC \/ b[2] - 48 \notin Types
  BY <1>1, FailedFits DEF BeastParse
<1>2. CASE ~(Len(b) < 9 \/ b[1] # ESC \/ b[2] - 48 \notin Types)
  <2> DEFINE t == b[2] - 48
             n == 9 + PayloadLen[t]
             taken == Taken(b, n)
  <2>1. n \in Nat
    BY <1>2, PayloadLens DEF Types, PayloadLen
  <2>2. taken[n] \in -1..Len(b)
    <3> HIDE DEF n
    <3> QED BY <2>1, TakenFits
  <2>3. \/ BeastParse(b, s) = Failed(s)
        \/ taken[n] # -1 /\ \E p, x : BeastParse(b, s) = Parsed(taken[n], p, x)
    BY <1>2 DEF BeastParse, BeastPacket
  <2>4. taken[n] # -1 => taken[n] \in 0..Len(b)
    <3> HIDE DEF taken, n
    <3> QED BY <2>2
  <2> HIDE DEF taken, n
  <2> QED BY <2>3, <2>4, FailedFits, ParsedFits
<1> QED BY <1>1, <1>2

\* The line ends at(k) are in the buffer.
LEMMA BlankFits ==
  ASSUME NEW b \in Seq(Byte), NEW k \in 0..Len(b)
  PROVE  k + Blank(b, k) \in 0..Len(b)
<1> DEFINE others == {i \in k + 1..Len(b) : b[i] \notin {CR, LF}}
<1>1. CASE others = {}
  BY <1>1 DEF Blank
<1>2. CASE others # {}
  <2>1. others \in SUBSET Nat /\ \A i \in others : i \in k + 1..Len(b)
    OBVIOUS
  <2>2. Min(others) \in k + 1..Len(b)
    <3> HIDE DEF others
    <3> QED BY <1>2, <2>1, MinOf
  <2>3. Blank(b, k) = Min(others) - (k + 1)
    BY <1>2 DEF Blank
  <2> HIDE DEF others
  <2> QED BY <2>2, <2>3
<1> QED BY <1>1, <1>2

\* json_loadb(): the object is in the buffer.
LEMMA JsonEndFits ==
  ASSUME NEW b \in Seq(Byte)
  PROVE  JsonEnd(b) \in 0..Len(b)
<1> DEFINE k == Blank(b, 0)
           ends == {i \in k + 1..Len(b) : b[i] = CloseBrace}
<1>1. k \in 0..Len(b)
  <2>1. 0 \in 0..Len(b) /\ 0 + k \in 0..Len(b)
    BY BlankFits
  <2>2. k \in Int
    BY MinOf DEF Blank
  <2> QED BY <2>1, <2>2
<1>2. JsonEnd(b) = 0 \/ (ends # {} /\ JsonEnd(b) = Min(ends))
  <2>1. JsonEnd(b) = IF Len(b) <= k \/ b[k + 1] # OpenBrace \/ ends = {} THEN 0 ELSE Min(ends)
    BY DEF JsonEnd
  <2> HIDE DEF k, ends
  <2> QED BY <2>1
<1>3. ends # {} => Min(ends) \in 0..Len(b)
  <2>1. ends \in SUBSET Nat /\ \A i \in ends : i \in 0..Len(b)
    <3> HIDE DEF k
    <3> QED BY <1>1
  <2> HIDE DEF ends
  <2> QED BY <2>1, MinOf
<1> HIDE DEF ends
<1> QED BY <1>2, <1>3

\* json_parse(): the object and the line ends after it.
LEMMA JsonParseFits ==
  ASSUME NEW b \in Seq(Byte), NEW s
  PROVE  Fits(JsonParse(b, s), Len(b))
<1> DEFINE end == JsonEnd(b)
           k == Blank(b, 0)
           kind == b[k + 2]
           used == end + Blank(b, end)
           data == Unhex(SubSeq(b, k + 3, end - 1))
<1>1. used \in 0..Len(b)
  BY JsonEndFits, BlankFits
<1>2. \/ JsonParse(b, s) = Failed(s)
      \/ JsonParse(b, s) = JsonHeader(used, kind, s)
      \/ JsonParse(b, s) = JsonPacket(used, kind, data, s)
  <2>1. CASE end = 0
    BY <2>1 DEF JsonParse
  <2>2. CASE ~(end = 0) /\ end > 0 /\ kind \in {Header, OwnHeader}
    <3>1. ~(kind \in Types)
      BY <2>2 DEF Header, OwnHeader, Types, PayloadLen
    <3> QED BY <2>2, <3>1 DEF JsonParse
  <2>3. CASE ~(end = 0) /\ end > 0 /\ ~(kind \in {Header, OwnHeader}) /\ kind \in Types
    BY <2>3 DEF JsonParse
  <2>4. CASE ~(end = 0) /\ ~(end > 0 /\ kind \in {Header, OwnHeader}) /\ ~(end > 0 /\ kind \in Types)
    BY <2>4 DEF JsonParse
  <2> QED BY <2>1, <2>2, <2>3, <2>4
<1> HIDE DEF used, kind, data
<1>3. Fits(JsonHeader(used, kind, s), Len(b))
  <2>1. \E x : JsonHeader(used, kind, s) = Failed(x) \/ JsonHeader(used, kind, s) = Parsed(used, NoPacket, x)
    BY Zenon DEF JsonHeader
  <2> QED BY <1>1, <2>1, FailedFits, ParsedFits
<1>4. Fits(JsonPacket(used, kind, data, s), Len(b))
  BY <1>1, FailedFits, ParsedFits DEF JsonPacket
<1> QED BY <1>2, <1>3, <1>4, FailedFits

\* proto_unwrap(): the length of a message is not believed before it is there.
LEMMA ProtoUnwrapFits ==
  ASSUME NEW b \in Seq(Byte)
  PROVE  ProtoUnwrap(b).used \in 0..Len(b)
<1> DEFINE more == MoreBytes(b)
           last == {j \in 0..3 : Len(b) > j + 1 /\ b[j + 2] < 128}
           j == CHOOSE i \in more : TRUE
           used == j + 2 + Varint(b, j)
<1>1. CASE b[1] # FieldOne \/ more = {} \/ used > Len(b)
  BY <1>1 DEF ProtoUnwrap
<1>2. CASE ~(b[1] # FieldOne \/ more = {} \/ used > Len(b))
  <2>1. last # {} /\ more = {Min(last)}
    BY <1>2 DEF MoreBytes
  <2>2. last \in SUBSET Nat
    OBVIOUS
  <2>3. Min(last) \in last
    <3> HIDE DEF last
    <3> QED BY <2>1, <2>2, MinOf
  <2>4. j \in 0..3 /\ Len(b) > j + 1
    <3>1. j = Min(last)
      <4> HIDE DEF last
      <4> QED BY <2>1
    <3> QED BY <2>3, <3>1
  <2> HIDE DEF j
  <2>5. Varint(b, j) \in Nat
    <3> DEFINE part(i) == IF i <= j THEN b[i + 2] % 128 ELSE 0
    <3>1. \A i \in 0..3 : part(i) \in Nat
      <4> SUFFICES ASSUME NEW i \in 0..3, i <= j PROVE b[i + 2] % 128 \in Nat
        OBVIOUS
      <4>1. b[i + 2] \in Nat
        <5>1. i + 2 \in 1..Len(b)
          BY <2>4
        <5>2. b[i + 2] \in Byte
          BY <5>1
        <5>3. Byte \subseteq Nat
          BY DEF Byte
        <5> QED BY <5>2, <5>3
      <4> QED BY <4>1
    <3>2. Varint(b, j) = part(0) + 128 * (part(1) + 128 * (part(2) + 128 * part(3)))
      BY DEF Varint
    <3> HIDE DEF part
    <3>3. part(0) \in Nat /\ part(1) \in Nat /\ part(2) \in Nat /\ part(3) \in Nat
      BY <3>1
    <3> QED BY <3>2, <3>3
  <2>6. ProtoUnwrap(b).used = used
    BY <1>2 DEF ProtoUnwrap, j
  <2>7. used \in 0..Len(b)
    BY <1>2, <2>4, <2>5
  <2> QED BY <2>6, <2>7
<1> QED BY <1>1, <1>2

\* proto_parse(): the message with its wrapper.
LEMMA ProtoParseFits ==
  ASSUME NEW b \in Seq(Byte), NEW s
  PROVE  Fits(ProtoParse(b, s), Len(b))
<1> DEFINE m == ProtoUnwrap(b)
           kind == m.body[1]
<1>1. m.used \in 0..Len(b)
  BY ProtoUnwrapFits
<1>2. \/ ProtoParse(b, s) = Failed(s)
      \/ ProtoParse(b, s) = ProtoHeader(m.used, kind, s)
      \/ ProtoParse(b, s) = ProtoPacket(m.used, kind, Tail(m.body), s)
  <2>1. CASE m.body = <<>>
    BY <2>1 DEF ProtoParse
  <2>2. CASE m.body # <<>> /\ kind \in {Header, OwnHeader}
    <3>1. ~(kind \in Types)
      BY <2>2 DEF Header, OwnHeader, Types, PayloadLen
    <3> QED BY <2>2, <3>1 DEF ProtoParse
  <2>3. CASE m.body # <<>> /\ ~(kind \in {Header, OwnHeader}) /\ kind \in Types
    BY <2>3 DEF ProtoParse
  <2>4. CASE m.body # <<>> /\ ~(kind \in {Header, OwnHeader}) /\ ~(kind \in Types)
    BY <2>4 DEF ProtoParse
  <2> QED BY <2>1, <2>2, <2>3, <2>4
<1> HIDE DEF m
<1>3. Fits(ProtoHeader(m.used, kind, s), Len(b))
  <2>1. \E x : ProtoHeader(m.used, kind, s) = Failed(x) \/ ProtoHeader(m.used, kind, s) = Parsed(m.used, NoPacket, x)
    BY Zenon DEF ProtoHeader
  <2> QED BY <1>1, <2>1, FailedFits, ParsedFits
<1>4. Fits(ProtoPacket(m.used, kind, Tail(m.body), s), Len(b))
  BY <1>1, FailedFits, ParsedFits DEF ProtoPacket
<1> QED BY <1>2, <1>3, <1>4, FailedFits

\* The result of a parser is tagged with its format.
LEMMA TaggedFits ==
  ASSUME NEW r, NEW n \in Nat, Fits(r, n), NEW f
  PROVE  Fits([r EXCEPT !.format = f], n) /\ [r EXCEPT !.format = f].format = f
<1>1. PICK u \in 0..n : \E packet, s, g :
        r = [used |-> u, packet |-> packet, state |-> s, format |-> g]
  BY DEF Fits
<1>2. PICK packet, s, g : r = [used |-> u, packet |-> packet, state |-> s, format |-> g]
  BY <1>1
<1>3. [r EXCEPT !.format = f] = [used |-> u, packet |-> packet, state |-> s, format |-> f]
  BY <1>2
<1> QED BY <1>3 DEF Fits

FormatNames == {"airspy_adsb", "beast", "json", "proto", "raw"}

\* No parser consumes more than the buffer holds, whatever bytes the peer has
\* sent and whatever the other parsers have left in the parser_state: the
\* assertion of buf_consume() holds (buf.c:29).
THEOREM ParsersFit ==
  ASSUME NEW format \in FormatNames, NEW b \in Seq(Byte), NEW s
  PROVE  Fits(Parse(format, b, s), Len(b)) /\ Parse(format, b, s).format = format
<1> DEFINE r == CASE format = "airspy_adsb" -> AirspyParse(b, s)
                  [] format = "beast" -> BeastParse(b, s)
                  [] format = "json" -> JsonParse(b, s)
                  [] format = "proto" -> ProtoParse(b, s)
                  [] format = "raw" -> RawParse(b, s)
<1>1. Fits(r, Len(b))
  BY AirspyParseFits, BeastParseFits, JsonParseFits, ProtoParseFits, RawParseFits DEF FormatNames
<1>2. Parse(format, b, s) = [r EXCEPT !.format = format]
  BY DEF Parse
<1>3. Len(b) \in Nat
  OBVIOUS
<1> HIDE DEF r
<1>4. Fits([r EXCEPT !.format = format], Len(b)) /\ [r EXCEPT !.format = format].format = format
  BY <1>1, <1>3, TaggedFits
<1> QED BY <1>2, <1>4, Zenon

\* Nor does the detection of the format, which tries them all; when one of them
\* succeeds the format is known.
LEMMA WrapperFits ==
  ASSUME NEW known \in FormatNames \cup {"auto"}, NEW b \in Seq(Byte), NEW s
  PROVE  LET p == ParserWrapper(known, b, s)
         IN  Fits(p, Len(b)) /\ (p.used > 0 => p.format \in FormatNames)
<1> DEFINE OK(p) == Fits(p, Len(b)) /\ (p.used > 0 => p.format \in FormatNames)
<1>1. ASSUME NEW f \in FormatNames, NEW x PROVE OK(Parse(f, b, x))
  BY ParsersFit
<1>2. OK(AutodetectParse(b, s))
  <2> DEFINE orTry(r, i) == IF r.used > 0 THEN r ELSE Parse(Parsers[i], b, r.state)
  <2>1. AutodetectParse(b, s) = orTry(orTry(orTry(orTry(orTry(Failed(s), 1), 2), 3), 4), 5)
    BY DEF AutodetectParse, OrElse
  <2>2. ASSUME NEW r, OK(r), NEW i \in 1..5 PROVE OK(orTry(r, i))
    <3>1. Parsers[i] \in FormatNames
      BY DEF Parsers, FormatNames
    <3> HIDE DEF OK
    <3> QED BY <1>1, <2>2, <3>1
  <2>3. OK(Failed(s))
    BY FailedFits DEF Failed
  <2> HIDE DEF orTry, OK
  <2>4. OK(orTry(orTry(Failed(s), 1), 2))
    BY <2>2, <2>3
  <2>5. OK(orTry(orTry(orTry(orTry(Failed(s), 1), 2), 3), 4))
    BY <2>2, <2>4
  <2> QED BY <2>1, <2>2, <2>5
<1>3. known # "auto" => OK(Parse(known, b, s))
  BY <1>1
<1>4. OK(ParserWrapper(known, b, s))
  <2> HIDE DEF OK
  <2> QED BY <1>2, <1>3 DEF ParserWrapper
<1> QED BY <1>4

-----------------------------------------------------------------------------
(* The loop of receive_read() *)

\* The local state of a call: the bytes are in the buffer.
Locals(S, O) ==
  [buf : Seq(Byte), start : Nat, parser : FormatNames \cup {"auto"}, state : S, sent : O, done : BOOLEAN]
Local(r) == (\E S, O : r \in Locals(S, O)) /\ r.start + Len(r.buf) <= BufLenMax

\* A round keeps the bytes in the buffer.
LEMMA RoundLocal ==
  ASSUME NEW r, Local(r)
  PROVE  Local(Round(r))
<1>1. PICK S, O : r \in Locals(S, O)
  BY DEF Local
<1>2. /\ r.buf \in Seq(Byte) /\ r.start \in Nat /\ r.parser \in FormatNames \cup {"auto"}
      /\ r.start + Len(r.buf) <= BufLenMax /\ BufLenMax \in Nat
  BY <1>1, ReceiveAssumption DEF Locals, Local
<1> DEFINE p == ParserWrapper(r.parser, r.buf, r.state)
<1>3. Fits(p, Len(r.buf)) /\ (p.used > 0 => p.format \in FormatNames)
  BY <1>2, WrapperFits
<1> HIDE DEF p
<1>4. p.used \in 0..Len(r.buf)
  BY <1>2, <1>3, FitsUsed
<1>5. CASE r.done \/ r.buf = <<>>
  <2>1. Round(r) = r
    BY <1>5 DEF Round
  <2> QED BY <2>1
<1>6. CASE ~(r.done \/ r.buf = <<>>) /\ p.used = 0
  <2>1. Round(r) = [r EXCEPT !.state = p.state, !.done = TRUE]
    BY <1>6 DEF Round, Advance, p
  <2>2. Round(r) \in Locals(S \cup {p.state}, O)
    BY <1>1, <2>1 DEF Locals
  <2>3. Round(r).buf = r.buf /\ Round(r).start = r.start
    BY <1>1, <2>1 DEF Locals
  <2> QED BY <1>2, <2>2, <2>3 DEF Local
<1>7. CASE ~(r.done \/ r.buf = <<>>) /\ p.used # 0
  <2> DEFINE c == Consume(r, p.used)
             rest == SubSeq(r.buf, p.used + 1, Len(r.buf))
             front == IF p.used = Len(r.buf) THEN 0 ELSE r.start + p.used
             fwd == Forward(c.sent, p.packet)
  <2>1. Round(r) = [c EXCEPT !.parser = p.format, !.state = p.state, !.sent = fwd]
    BY <1>7 DEF Round, Advance, p
  <2>2. rest \in Seq(Byte) /\ Len(rest) = Len(r.buf) - p.used
    BY <1>2, <1>4
  <2>3. front \in Nat /\ front + Len(rest) <= BufLenMax
    <3> HIDE DEF rest
    <3> QED BY <1>2, <1>4, <2>2
  <2>4. c = [r EXCEPT !.buf = rest, !.start = front]
    BY DEF Consume
  <2> HIDE DEF c, rest, front, fwd
  <2>5. c \in Locals(S, O) /\ c.buf = rest /\ c.start = front
    BY <1>1, <2>2, <2>3, <2>4 DEF Locals
  <2>6. p.format \in FormatNames
    BY <1>2, <1>3, <1>4, <1>7
  <2>7. Round(r) \in Locals(S \cup {p.state}, O \cup {fwd})
    BY <2>1, <2>5, <2>6 DEF Locals
  <2>8. Round(r).buf = rest /\ Round(r).start = front
    BY <2>1, <2>5 DEF Locals
  <2> QED BY <2>3, <2>7, <2>8 DEF Local
<1> QED BY <1>5, <1>6, <1>7

\* The loop is one round after the other.
Rounds(f, r) ==
  /\ f[0] = r /\ (\A k \in 1..Len(r.buf) : f[k] = Round(f[k - 1]))
  /\ ParseAll(r) = f[Len(r.buf)]

\* ParseAll() is such a function, applied to as many rounds as there are bytes.
LEMMA LoopSteps ==
  ASSUME NEW r, Local(r)
  PROVE  \E f : Rounds(f, r)
<1> DEFINE n == Len(r.buf)
           Is(g, m) == g = [k \in 0..m |-> IF k = 0 THEN r ELSE Round(g[k - 1])]
           f == CHOOSE g : Is(g, n)
<1>1. n \in Nat
  BY DEF Local, Locals
<1>2. ParseAll(r) = f[n]
  BY DEF ParseAll
<1> HIDE DEF n
<1>3. Is(f, n)
  <2> DEFINE P == {m \in Nat : \E g : Is(g, m)}
  <2>1. 0 \in P
    <3>1. Is([k \in 0..0 |-> r], 0)
      OBVIOUS
    <3> QED BY <3>1
  <2>2. ASSUME NEW m \in P PROVE m + 1 \in P
    <3>1. PICK g : Is(g, m)
      OBVIOUS
    <3> DEFINE h == [k \in 0..m + 1 |-> IF k = 0 THEN r ELSE Round(g[k - 1])]
    <3>2. \A k \in 0..m : h[k] = g[k]
      BY <3>1
    <3>3. \A k \in 1..m + 1 : k - 1 \in 0..m /\ h[k - 1] = g[k - 1]
      <4>1. m \in Nat
        OBVIOUS
      <4>2. \A k \in 1..m + 1 : k - 1 \in 0..m
        BY <4>1
      <4> HIDE DEF h
      <4> QED BY <3>2, <4>2
    <3>4. \A k \in 0..m + 1 : (IF k = 0 THEN r ELSE Round(g[k - 1])) = (IF k = 0 THEN r ELSE Round(h[k - 1]))
      <4> HIDE DEF h
      <4> QED BY <3>3
    <3>5. Is(h, m + 1)
      BY <3>4, Zenon
    <3>6. m + 1 \in Nat
      OBVIOUS
    <3> QED BY <3>5, <3>6, Zenon
  <2>3. P \in SUBSET Nat
    OBVIOUS
  <2>4. n \in P
    <3> HIDE DEF P
    <3> QED BY <1>1, <2>1, <2>2, <2>3, Reaches
  <2> QED BY <2>4
<1> HIDE DEF f
<1>4. f[0] = r /\ \A k \in 1..n : f[k] = Round(f[k - 1])
  BY <1>1, <1>3
<1>5. Rounds(f, r)
  BY <1>2, <1>4 DEF Rounds, n
<1> QED BY <1>5

\* So does the loop.
LEMMA ParseAllLocal ==
  ASSUME NEW r, Local(r)
  PROVE  Local(ParseAll(r))
<1> DEFINE n == Len(r.buf)
<1>1. PICK f : Rounds(f, r)
  BY LoopSteps
<1>2. n \in Nat
  BY DEF Local, Locals
<1>3. f[0] = r /\ (\A k \in 1..n : f[k] = Round(f[k - 1])) /\ ParseAll(r) = f[n]
  BY <1>1 DEF Rounds
<1> HIDE DEF n
<1>4. Local(f[n])
  <2> DEFINE P == {m \in Nat : m \in 0..n => Local(f[m])}
  <2>1. 0 \in P
    BY <1>3
  <2>2. ASSUME NEW m \in P PROVE m + 1 \in P
    <3>1. m + 1 \in 0..n => m \in 0..n /\ f[m + 1] = Round(f[m])
      BY <1>2, <1>3
    <3> QED BY <3>1, RoundLocal
  <2>3. P \in SUBSET Nat
    OBVIOUS
  <2>4. n \in P
    <3> HIDE DEF P
    <3> QED BY <1>2, <2>1, <2>2, <2>3, Reaches
  <2> QED BY <1>2, <2>4
<1> QED BY <1>3, <1>4

-----------------------------------------------------------------------------
(* The buffer of a connection *)

\* What is in the buffer is in its bounds, and while the connection is open it
\* is not full.
BufferInv ==
  /\ stream \in Streams /\ pos \in Nat
  /\ buf \in Seq(Byte) /\ start \in Nat
  /\ parser \in FormatNames \cup {"auto"}
  /\ start + Len(buf) <= BufLenMax
  /\ status = "open" => Len(buf) < BufLenMax

\* receive_read(): n bytes are read, they fit, and the loop works on r.
ReadOf(n, r) ==
  /\ n \in Nat \ {0} /\ pos + n <= Len(stream.wire) /\ Len(buf) + n <= BufLenMax
  /\ r = [buf |-> buf \o SubSeq(stream.wire, pos + 1, pos + n), start |-> FillStart,
          parser |-> parser, state |-> state, sent |-> sent, done |-> FALSE]
  /\ Local(r)
  /\ pos' = pos + n /\ stream' = stream
  /\ buf' = ParseAll(r).buf /\ start' = ParseAll(r).start /\ parser' = ParseAll(r).parser
  /\ state' = ParseAll(r).state /\ sent' = ParseAll(r).sent
  /\ status' = IF Overrun(ParseAll(r)) THEN "overrun" ELSE "open"

\* A read that goes on to the loop does what ReadOf says.
LEMMA ReadDoes ==
  ASSUME BufferInv, NEW size \in ReadSizes, Read(size)
  PROVE  \E n, r : ReadOf(n, r)
<1> DEFINE n == Min({size, Room, Len(stream.wire) - pos})
           came == SubSeq(stream.wire, pos + 1, pos + n)
           r == [buf |-> buf \o came, start |-> FillStart, parser |-> parser, state |-> state,
                 sent |-> sent, done |-> FALSE]
           a == ParseAll(r)
<1>1. /\ stream.wire \in Seq(Byte) /\ size \in Nat /\ BufLenMax \in Nat
      /\ pos \in Nat /\ buf \in Seq(Byte) /\ start \in Nat
  BY ReceiveAssumption DEF BufferInv
<1>2. FillStart \in Nat /\ Room \in Nat /\ FillStart + Len(buf) + Room = BufLenMax
  BY <1>1 DEF BufferInv, FillStart, Room
<1>3. /\ n > 0 /\ pos' = pos + n /\ stream' = stream
      /\ buf' = a.buf /\ start' = a.start /\ parser' = a.parser
      /\ state' = a.state /\ sent' = a.sent
      /\ status' = IF Overrun(a) THEN "overrun" ELSE "open"
  BY DEF Read
<1>4. n \in Nat /\ n <= Room /\ n <= Len(stream.wire) - pos
  <2> DEFINE T == {size, Room, Len(stream.wire) - pos}
  <2>1. T \in SUBSET Int /\ T # {}
    BY <1>1, <1>2
  <2>2. \E x \in T : \A y \in T : x <= y
    BY <1>1, <1>2
  <2>3. n \in T /\ \A y \in T : n <= y
    BY <2>2 DEF Min
  <2>4. n > 0
    BY <1>3
  <2> HIDE DEF n
  <2> QED BY <1>1, <1>2, <2>3, <2>4
<1> HIDE DEF n
<1>5. came \in Seq(Byte) /\ Len(came) = n
  BY <1>1, <1>4
<1>6. Local(r)
  <2>1. buf \o came \in Seq(Byte) /\ Len(buf \o came) = Len(buf) + n
    <3> HIDE DEF came
    <3> QED BY <1>1, <1>5
  <2>2. FillStart + Len(buf \o came) <= BufLenMax
    <3> HIDE DEF came
    <3> QED BY <1>1, <1>2, <1>4, <2>1
  <2>3. parser \in FormatNames \cup {"auto"}
    BY DEF BufferInv
  <2> HIDE DEF came
  <2>4. r \in Locals({state}, {sent})
    BY <1>2, <2>1, <2>3 DEF Locals
  <2> QED BY <2>2, <2>4 DEF Local
<1>7. pos + n <= Len(stream.wire) /\ Len(buf) + n <= BufLenMax /\ n \in Nat \ {0}
  BY <1>1, <1>2, <1>3, <1>4
<1>8. ReadOf(n, r)
  <2>1. /\ buf' = ParseAll(r).buf /\ start' = ParseAll(r).start /\ parser' = ParseAll(r).parser
        /\ state' = ParseAll(r).state /\ sent' = ParseAll(r).sent
        /\ status' = IF Overrun(ParseAll(r)) THEN "overrun" ELSE "open"
    BY <1>3
  <2>2. r = [buf |-> buf \o SubSeq(stream.wire, pos + 1, pos + n), start |-> FillStart,
             parser |-> parser, state |-> state, sent |-> sent, done |-> FALSE]
    OBVIOUS
  <2> HIDE DEF r, a
  <2> QED BY <1>3, <1>6, <1>7, <2>1, <2>2 DEF ReadOf
<1> QED BY <1>8

\* The loop keeps what is read in the buffer.
LEMMA ReadInv ==
  ASSUME BufferInv, NEW size \in ReadSizes, Read(size)
  PROVE  BufferInv'
<1>1. PICK n, r : ReadOf(n, r)
  BY ReadDoes
<1> DEFINE a == ParseAll(r)
<1>2. /\ n \in Nat /\ pos' = pos + n /\ stream' = stream
      /\ buf' = a.buf /\ start' = a.start /\ parser' = a.parser
      /\ status' = IF Overrun(a) THEN "overrun" ELSE "open"
  BY <1>1 DEF ReadOf
<1>3. Local(a)
  <2>1. Local(r)
    BY <1>1 DEF ReadOf
  <2> QED BY <2>1, ParseAllLocal
<1> HIDE DEF a
<1>4. /\ a.buf \in Seq(Byte) /\ a.start \in Nat /\ a.parser \in FormatNames \cup {"auto"}
      /\ a.start + Len(a.buf) <= BufLenMax
  BY <1>3 DEF Local, Locals
<1>5. status' = "open" => Len(a.buf) < BufLenMax
  BY <1>2, <1>4, ReceiveAssumption DEF Overrun
<1> QED BY <1>2, <1>4, <1>5 DEF BufferInv

\* The buffer of a connection is never overrun, and is not full when it is read
\* into.
THEOREM BufferBounds == Spec => []BufferInv
<1>1. Init => BufferInv
  BY ReceiveAssumption DEF Init, BufferInv
<1>2. BufferInv /\ [Next]_vars => BufferInv'
  <2> SUFFICES ASSUME BufferInv, [Next]_vars PROVE BufferInv'
    OBVIOUS
  <2>1. ASSUME NEW size \in ReadSizes, Read(size) PROVE BufferInv'
    BY <2>1, ReadInv
  <2>2. CASE ReadEof
    BY <2>2 DEF ReadEof, BufferInv
  <2>3. CASE UNCHANGED vars
    BY <2>3 DEF vars, BufferInv
  <2> QED BY <2>1, <2>2, <2>3 DEF Next, Deleted
<1> QED BY <1>1, <1>2, PTL DEF Spec

\* buf_fill() always finds room (buf.c:14), whatever arrives, in reads of any
\* size.
THEOREM AlwaysRoom == Spec => []RoomToRead
<1>1. BufferInv => RoomToRead
  BY ReceiveAssumption DEF BufferInv, RoomToRead, Room, FillStart
<1> QED BY <1>1, BufferBounds, PTL

-----------------------------------------------------------------------------
(* Bytes and the text they are written as *)

\* The members of a sequence of bytes are numbers.
LEMMA ByteRange == ASSUME NEW x \in Seq(Byte), NEW i \in 1..Len(x) PROVE x[i] \in 0..255
<1>1. x[i] \in Byte
  OBVIOUS
<1> QED BY <1>1 DEF Byte

\* A byte is its two halves.
LEMMA Nibbles ==
  ASSUME NEW v \in 0..255
  PROVE  v \div 16 \in 0..15 /\ v % 16 \in 0..15 /\ 16 * (v \div 16) + (v % 16) = v
<1>1. \A a, b \in Nat : b > 0 => /\ a \div b \in Nat /\ a % b \in Nat /\ a % b < b
                                 /\ a = b * (a \div b) + (a % b)
  OBVIOUS
<1>2. /\ v \div 16 \in Nat /\ v % 16 \in Nat /\ v % 16 < 16
      /\ v = 16 * (v \div 16) + (v % 16)
  BY <1>1
<1> DEFINE q == v \div 16
           r == v % 16
<1> HIDE DEF q, r
<1>3. q \in Nat /\ r \in Nat /\ r < 16 /\ v = 16 * q + r /\ v \in 0..255
  BY <1>2 DEF q, r
<1>4. q \in 0..15 /\ r \in 0..15 /\ 16 * q + r = v
  BY <1>3
<1> QED BY <1>4 DEF q, r

\* A digit that hex_from_bin() writes is read as what it was.
LEMMA HexDigitBack ==
  ASSUME NEW d \in 0..15
  PROVE  HexUpper(d) \in HexDigits /\ HexValue(HexUpper(d)) = d
<1>1. CASE d < 10
  BY <1>1 DEF HexUpper, HexDigits, HexValue
<1>2. CASE ~(d < 10)
  BY <1>2 DEF HexUpper, HexDigits, HexValue
<1> QED BY <1>1, <1>2

\* What hex_from_bin() writes: two digits for each byte.
LEMMA HexTextSeq ==
  ASSUME NEW x \in Seq(Byte)
  PROVE  /\ HexText(x) \in Seq(HexDigits) /\ Len(HexText(x)) = 2 * Len(x)
         /\ \A i \in 1..Len(x) : /\ HexText(x)[2 * i - 1] = HexUpper(x[i] \div 16)
                                 /\ HexText(x)[2 * i] = HexUpper(x[i] % 16)
<1> DEFINE n == 2 * Len(x)
           digit(i) == IF i % 2 = 1 THEN x[(i + 1) \div 2] \div 16 ELSE x[(i + 1) \div 2] % 16
<1>0. n \in Nat
  OBVIOUS
<1>1. ASSUME NEW i \in 1..n PROVE digit(i) \in 0..15
  <2>1. (i + 1) \div 2 \in 1..Len(x)
    OBVIOUS
  <2>2. x[(i + 1) \div 2] \in 0..255
    BY <2>1, ByteRange
  <2>3. x[(i + 1) \div 2] \div 16 \in 0..15 /\ x[(i + 1) \div 2] % 16 \in 0..15
    BY <2>2, Nibbles
  <2> QED BY <2>3
<1>2. HexText(x) = [i \in 1..n |-> HexUpper(digit(i))]
  BY DEF HexText
<1> HIDE DEF digit
<1>3. \A i \in 1..n : HexUpper(digit(i)) \in HexDigits
  BY <1>1, HexDigitBack
<1>4. HexText(x) \in Seq(HexDigits) /\ Len(HexText(x)) = n
  <2> HIDE DEF n
  <2> QED BY <1>0, <1>2, <1>3
<1>5. ASSUME NEW i \in 1..Len(x)
      PROVE  /\ HexText(x)[2 * i - 1] = HexUpper(x[i] \div 16)
             /\ HexText(x)[2 * i] = HexUpper(x[i] % 16)
  <2>1. 2 * i - 1 \in 1..n /\ 2 * i \in 1..n
    OBVIOUS
  <2>2. (2 * i - 1) % 2 = 1 /\ (2 * i) % 2 = 0 /\ ((2 * i - 1) + 1) \div 2 = i /\ (2 * i + 1) \div 2 = i
    OBVIOUS
  <2>3. digit(2 * i - 1) = x[i] \div 16 /\ digit(2 * i) = x[i] % 16
    BY <2>2 DEF digit
  <2> QED BY <1>2, <2>1, <2>3
<1> QED BY <1>4, <1>5

\* hex_to_bin() gives back what hex_from_bin_upper() wrote.
LEMMA HexBack ==
  ASSUME NEW x \in Seq(Byte)
  PROVE  IsHex(HexText(x)) /\ Unhex(HexText(x)) = x
<1> DEFINE h == HexText(x)
<1>1. h \in Seq(HexDigits) /\ Len(h) = 2 * Len(x) /\ Len(h) \div 2 = Len(x)
  BY HexTextSeq
<1>2. IsHex(h)
  BY <1>1 DEF IsHex
<1>3. ASSUME NEW i \in 1..Len(x) PROVE 16 * HexValue(h[2 * i - 1]) + HexValue(h[2 * i]) = x[i]
  <2> DEFINE v == x[i]
  <2>1. v \in 0..255
    BY ByteRange
  <2>2. h[2 * i - 1] = HexUpper(v \div 16) /\ h[2 * i] = HexUpper(v % 16)
    BY HexTextSeq
  <2> HIDE DEF v, h
  <2>3. v \div 16 \in 0..15 /\ v % 16 \in 0..15 /\ 16 * (v \div 16) + (v % 16) = v
    BY <2>1, Nibbles
  <2>4. HexValue(h[2 * i - 1]) = v \div 16 /\ HexValue(h[2 * i]) = v % 16
    BY <2>2, <2>3, HexDigitBack
  <2>5. 16 * HexValue(h[2 * i - 1]) + HexValue(h[2 * i]) = v
    <3> DEFINE a == HexValue(h[2 * i - 1])
               c == HexValue(h[2 * i])
    <3>1. a = v \div 16 /\ c = v % 16
      BY <2>4
    <3> HIDE DEF a, c
    <3>2. 16 * a + c = v
      BY <2>3, <3>1, Zenon
    <3> QED BY <3>2 DEF a, c
  <2> QED BY <2>5 DEF v
<1>4. Unhex(h) = [i \in 1..Len(x) |-> 16 * HexValue(h[2 * i - 1]) + HexValue(h[2 * i])]
  BY <1>1 DEF Unhex
<1>5. Unhex(h) = [i \in 1..Len(x) |-> x[i]]
  <2> HIDE DEF h
  <2> QED BY <1>3, <1>4, Zenon
<1>6. x = [i \in 1..Len(x) |-> x[i]]
  OBVIOUS
<1> QED BY <1>2, <1>5, <1>6

LineEnds == {<<LF>>, <<CR, LF>>}

\* The bytes of two sequences one after the other.
LEMMA ConcatAt ==
  ASSUME NEW x \in Seq(Byte), NEW y \in Seq(Byte)
  PROVE  /\ x \o y \in Seq(Byte) /\ Len(x \o y) = Len(x) + Len(y)
         /\ \A i \in 1..Len(x) : (x \o y)[i] = x[i]
         /\ \A i \in 1..Len(y) : (x \o y)[Len(x) + i] = y[i]
OBVIOUS

\* The same, named.
Joined(x, y, z) ==
  /\ z \in Seq(Byte) /\ Len(z) = Len(x) + Len(y)
  /\ \A i \in 1..Len(x) : z[i] = x[i]
  /\ \A i \in 1..Len(y) : z[Len(x) + i] = y[i]

\* Where the members of two sequences are when they are put together.
LEMMA JoinAt ==
  ASSUME NEW x \in Seq(Byte), NEW y \in Seq(Byte), NEW z, z = x \o y
  PROVE  Joined(x, y, z)
BY ConcatAt DEF Joined

\* Hexadecimal text within a buffer.
LEMMA HexBytes ==
  ASSUME NEW x \in Seq(Byte)
  PROVE  HexText(x) \in Seq(Byte) /\ \A i \in 1..2 * Len(x) : HexText(x)[i] \in HexDigits
<1>1. HexDigits \subseteq Byte
  BY DEF HexDigits, Byte
<1>2. HexText(x) \in Seq(HexDigits) /\ Len(HexText(x)) = 2 * Len(x)
  BY HexTextSeq
<1> QED BY <1>1, <1>2

\* A part of a buffer that is known byte by byte.
LEMMA PartIs ==
  ASSUME NEW b \in Seq(Byte), NEW k \in Nat, NEW x \in Seq(Byte), k + Len(x) <= Len(b),
         \A i \in 1..Len(x) : b[k + i] = x[i]
  PROVE  Bytes(b, k, Len(x)) = x
<1> DEFINE y == SubSeq(b, k + 1, k + Len(x))
<1>1. y \in Seq(Byte) /\ Len(y) = Len(x) /\ \A i \in 1..Len(x) : y[i] = b[k + i]
  OBVIOUS
<1> HIDE DEF y
<1>2. y = x
  BY <1>1
<1> QED BY <1>2 DEF Bytes, y

\* How a line of raw and one of airspy_adsb begin.
Opening(payload) == <<Star>> \o HexText(payload) \o <<Semicolon>>

Opened(b, n, payload, tail) ==
  /\ n \in Nat /\ b \in Seq(Byte) /\ Len(b) = n + 1 + Len(tail)
  /\ b[1] = Star /\ (\A i \in 2..n : b[i] \in HexDigits) /\ b[n + 1] = Semicolon
  /\ Bytes(b, 1, n - 1) = HexText(payload)
  /\ \A i \in 1..Len(tail) : b[n + 1 + i] = tail[i]

\* Where the parts of that are in a buffer that begins with it.
LEMMA OpeningAt ==
  ASSUME NEW payload \in Seq(Byte), NEW tail \in Seq(Byte),
         NEW n, n = 1 + 2 * Len(payload), NEW b, b = Opening(payload) \o tail
  PROVE  Opened(b, n, payload, tail)
<1> DEFINE h == HexText(payload)
           u == <<Star>>
           v == <<Semicolon>>
           x == u \o h
           y == x \o v
<1>1. /\ n \in Nat /\ h \in Seq(Byte) /\ Len(h) = n - 1 /\ \A i \in 1..Len(h) : h[i] \in HexDigits
  <2>1. h \in Seq(Byte) /\ (\A i \in 1..2 * Len(payload) : h[i] \in HexDigits) /\ Len(h) = 2 * Len(payload)
    BY HexBytes, HexTextSeq
  <2> HIDE DEF h
  <2> QED BY <2>1
<1>2. u \in Seq(Byte) /\ v \in Seq(Byte) /\ Len(u) = 1 /\ Len(v) = 1 /\ u[1] = Star /\ v[1] = Semicolon
  BY DEF Star, Semicolon, Byte
<1>3. b = y \o tail
  BY DEF Opening
<1> HIDE DEF h, u, v
<1>4. x \in Seq(Byte) /\ Len(x) = n /\ x[1] = Star /\ \A i \in 1..n - 1 : x[1 + i] = h[i]
  <2>1. /\ x \in Seq(Byte) /\ Len(x) = Len(u) + Len(h)
        /\ \A i \in 1..Len(u) : x[i] = u[i]
        /\ \A i \in 1..Len(h) : x[Len(u) + i] = h[i]
    BY <1>1, <1>2, ConcatAt
  <2> HIDE DEF x
  <2> QED BY <1>1, <1>2, <2>1
<1> HIDE DEF x
<1>5. y \in Seq(Byte) /\ Len(y) = n + 1 /\ y[n + 1] = Semicolon /\ \A i \in 1..n : y[i] = x[i]
  <2>1. /\ y \in Seq(Byte) /\ Len(y) = Len(x) + Len(v)
        /\ \A i \in 1..Len(x) : y[i] = x[i]
        /\ \A i \in 1..Len(v) : y[Len(x) + i] = v[i]
    BY <1>2, <1>4, ConcatAt
  <2> HIDE DEF y
  <2> QED BY <1>1, <1>2, <1>4, <2>1
<1> HIDE DEF y
<1>6. /\ b \in Seq(Byte) /\ Len(b) = n + 1 + Len(tail)
      /\ \A i \in 1..n + 1 : b[i] = y[i]
      /\ \A i \in 1..Len(tail) : b[n + 1 + i] = tail[i]
  <2>1. /\ b \in Seq(Byte) /\ Len(b) = Len(y) + Len(tail)
        /\ \A i \in 1..Len(y) : b[i] = y[i]
        /\ \A i \in 1..Len(tail) : b[Len(y) + i] = tail[i]
    <3>1. LET z == y \o tail IN
          /\ z \in Seq(Byte) /\ Len(z) = Len(y) + Len(tail)
          /\ \A i \in 1..Len(y) : z[i] = y[i]
          /\ \A i \in 1..Len(tail) : z[Len(y) + i] = tail[i]
      BY <1>5, ConcatAt
    <3> QED BY <1>3, <3>1, Zenon
  <2> QED BY <1>1, <1>5, <2>1
<1>7. b[1] = Star /\ b[n + 1] = Semicolon
  BY <1>1, <1>4, <1>5, <1>6
<1>8. ASSUME NEW i \in 1..n - 1 PROVE b[1 + i] = h[i]
  <2>1. 1 + i \in 1..n + 1 /\ 1 + i \in 1..n
    BY <1>1
  <2>2. b[1 + i] = y[1 + i] /\ y[1 + i] = x[1 + i]
    BY <1>5, <1>6, <2>1
  <2> QED BY <1>4, <2>2
<1>9. ASSUME NEW i \in 2..n PROVE b[i] \in HexDigits
  <2>1. i - 1 \in 1..n - 1 /\ 1 + (i - 1) = i
    BY <1>1
  <2>2. b[i] = h[i - 1]
    BY <1>8, <2>1
  <2> QED BY <1>1, <2>1, <2>2
<1>10. Bytes(b, 1, n - 1) = h
  <2>1. \A i \in 1..Len(h) : b[1 + i] = h[i]
    BY <1>1, <1>8
  <2>2. 1 + Len(h) <= Len(b) /\ Len(h) = n - 1
    BY <1>1, <1>6
  <2>3. Bytes(b, 1, Len(h)) = h
    BY <1>1, <1>6, <2>1, <2>2, PartIs
  <2> QED BY <2>2, <2>3, Zenon
<1> QED BY <1>1, <1>6, <1>7, <1>9, <1>10 DEF h, Opened

\* A line end where one is expected.
LEMMA LineEndAt ==
  ASSUME NEW b \in Seq(Byte), NEW k \in Nat, NEW eol \in LineEnds,
         k + Len(eol) <= Len(b), \A i \in 1..Len(eol) : b[k + i] = eol[i]
  PROVE  LineEnd(b, k) = Len(eol) /\ Len(eol) \in 1..2 /\ b[k + 1] \in {CR, LF}
<1>1. CASE eol = <<LF>>
  <2>1. Len(eol) = 1 /\ eol[1] = LF
    BY <1>1
  <2>2. b[k + 1] = LF /\ Len(b) > k
    BY <2>1
  <2>3. ~(Bytes(b, k, 2) = <<CR, LF>> /\ Len(b) > k + 1)
    <3> SUFFICES ASSUME Bytes(b, k, 2) = <<CR, LF>>, Len(b) > k + 1 PROVE FALSE
      OBVIOUS
    <3>1. SubSeq(b, k + 1, k + 2)[1] = b[k + 1]
      OBVIOUS
    <3>2. SubSeq(b, k + 1, k + 2)[1] = CR
      <4>1. SubSeq(b, k + 1, k + 2) = <<CR, LF>>
        BY DEF Bytes
      <4>2. <<CR, LF>>[1] = CR
        OBVIOUS
      <4> QED BY <4>1, <4>2, Zenon
    <3> QED BY <2>2, <3>1, <3>2 DEF CR, LF
  <2>4. LineEnd(b, k) = 1
    BY <2>2, <2>3 DEF LineEnd
  <2> QED BY <2>1, <2>2, <2>4
<1>2. CASE eol = <<CR, LF>>
  <2>1. Len(eol) = 2 /\ eol[1] = CR /\ eol[2] = LF /\ eol \in Seq(Byte)
    BY <1>2 DEF CR, LF, Byte
  <2>2. b[k + 1] = CR /\ Len(b) > k + 1
    BY <2>1
  <2>3. Bytes(b, k, 2) = eol
    <3>1. Bytes(b, k, Len(eol)) = eol
      BY <2>1, PartIs
    <3> QED BY <2>1, <3>1, Zenon
  <2>4. b[k + 1] # LF
    BY <2>2 DEF CR, LF
  <2>5. Bytes(b, k, 2) = <<CR, LF>>
    BY <1>2, <2>3
  <2>6. LineEnd(b, k) = 2
    BY <2>2, <2>4, <2>5 DEF LineEnd
  <2> QED BY <2>1, <2>2, <2>6
<1> QED BY <1>1, <1>2 DEF LineEnds

\* Where there is none.
LEMMA NoLineEnd ==
  ASSUME NEW b \in Seq(Byte), NEW k \in Nat, Len(b) > k => b[k + 1] \notin {CR, LF}
  PROVE  LineEnd(b, k) = 0
<1>1. ~(Len(b) > k /\ b[k + 1] = LF)
  OBVIOUS
<1>2. ~(Len(b) > k + 1 /\ Bytes(b, k, 2) = <<CR, LF>>)
  <2> SUFFICES ASSUME Bytes(b, k, 2) = <<CR, LF>>, Len(b) > k + 1 PROVE FALSE
    OBVIOUS
  <2>1. SubSeq(b, k + 1, k + 2)[1] = b[k + 1]
    OBVIOUS
  <2>2. SubSeq(b, k + 1, k + 2)[1] = CR
    <3>1. SubSeq(b, k + 1, k + 2) = <<CR, LF>>
      BY DEF Bytes
    <3>2. <<CR, LF>>[1] = CR
      OBVIOUS
    <3> QED BY <3>1, <3>2, Zenon
  <2> QED BY <2>1, <2>2
<1> QED BY <1>1, <1>2 DEF LineEnd

\* The three lengths of a payload.
LEMMA Lengths == PayloadLen[1] = 2 /\ PayloadLen[2] = 7 /\ PayloadLen[3] = 14
BY DEF PayloadLen

\* A line that begins with a payload of type t, tried as type u: a shorter type
\* finds a digit in the place of the semicolon, a longer one a semicolon among
\* the digits.
LEMMA OtherType ==
  ASSUME NEW t \in 1..3, NEW u \in 1..3, u # t,
         NEW payload \in Seq(Byte), Len(payload) = PayloadLen[t],
         NEW tail \in Seq(Byte), NEW b, b = Opening(payload) \o tail,
         NEW n, n = 1 + 2 * PayloadLen[u]
  PROVE  /\ u < t => b[n + 1] # Semicolon
         /\ u > t /\ n <= Len(b) => ~IsHex(Bytes(b, 1, n - 1))
<1> DEFINE k == 1 + 2 * Len(payload)
<1>1. /\ k \in Nat /\ n \in Nat /\ n \in {5, 15, 29} /\ k \in {5, 15, 29}
      /\ (u < t => n < k) /\ (u > t => k < n)
  <2>1. t = 1 \/ t = 2 \/ t = 3
    OBVIOUS
  <2>2. u = 1 \/ u = 2 \/ u = 3
    OBVIOUS
  <2>3. k = 1 + 2 * PayloadLen[t]
    OBVIOUS
  <2> HIDE DEF k
  <2>4. (t = 1 /\ k = 5) \/ (t = 2 /\ k = 15) \/ (t = 3 /\ k = 29)
    BY <2>1, <2>3, Lengths
  <2>5. (u = 1 /\ n = 5) \/ (u = 2 /\ n = 15) \/ (u = 3 /\ n = 29)
    BY <2>2, Lengths
  <2> QED BY <2>4, <2>5
<1>2. /\ b \in Seq(Byte) /\ Len(b) = k + 1 + Len(tail)
      /\ (\A i \in 2..k : b[i] \in HexDigits) /\ b[k + 1] = Semicolon
  <2>1. k = 1 + 2 * Len(payload)
    OBVIOUS
  <2> HIDE DEF k
  <2>2. Opened(b, k, payload, tail)
    BY <2>1, OpeningAt
  <2> QED BY <2>2 DEF Opened
<1>3. Semicolon \notin HexDigits
  BY DEF Semicolon, HexDigits
<1> HIDE DEF k
<1>4. u < t => b[n + 1] # Semicolon
  <2> SUFFICES ASSUME u < t PROVE n + 1 \in 2..k
    BY <1>2, <1>3
  <2> QED BY <1>1
<1>5. ASSUME u > t, n <= Len(b) PROVE ~IsHex(Bytes(b, 1, n - 1))
  <2> DEFINE y == SubSeq(b, 2, n)
  <2>1. y = Bytes(b, 1, n - 1)
    <3>1. 1 + 1 = 2 /\ 1 + (n - 1) = n
      BY <1>1
    <3> QED BY <3>1, Zenon DEF Bytes
  <2>2. k \in DOMAIN y /\ y[k] = b[k + 1]
    BY <1>1, <1>2, <1>5
  <2> HIDE DEF y
  <2> QED BY <1>2, <1>3, <2>1, <2>2 DEF IsHex
<1> QED BY <1>4, <1>5

\* The payload of the right type.
Typed(b, n, payload, tail) ==
  /\ n \in {5, 15, 29} /\ b \in Seq(Byte) /\ Len(b) = n + 1 + Len(tail)
  /\ b[1] = Star /\ b[n + 1] = Semicolon
  /\ IsHex(Bytes(b, 1, n - 1)) /\ Unhex(Bytes(b, 1, n - 1)) = payload
  /\ \A i \in 1..Len(tail) : b[n + 1 + i] = tail[i]

\* An attempt at the type that was written finds the payload where it was
\* written.
LEMMA RightType ==
  ASSUME NEW t \in 1..3, NEW payload \in Seq(Byte), Len(payload) = PayloadLen[t],
         NEW tail \in Seq(Byte), NEW b, b = Opening(payload) \o tail,
         NEW n, n = 1 + 2 * PayloadLen[t]
  PROVE  Typed(b, n, payload, tail)
<1>1. n \in {5, 15, 29} /\ n = 1 + 2 * Len(payload)
  <2>1. n \in {5, 15, 29}
    BY Lengths
  <2>2. n = 1 + 2 * Len(payload)
    BY Zenon
  <2> QED BY <2>1, <2>2
<1>2. /\ b \in Seq(Byte) /\ Len(b) = n + 1 + Len(tail)
      /\ b[1] = Star /\ b[n + 1] = Semicolon /\ Bytes(b, 1, n - 1) = HexText(payload)
      /\ \A i \in 1..Len(tail) : b[n + 1 + i] = tail[i]
  <2>1. Opened(b, n, payload, tail)
    BY <1>1, OpeningAt
  <2> QED BY <2>1 DEF Opened
<1>3. IsHex(HexText(payload)) /\ Unhex(HexText(payload)) = payload
  BY HexBack
<1>4. IsHex(Bytes(b, 1, n - 1)) /\ Unhex(Bytes(b, 1, n - 1)) = payload
  BY <1>2, <1>3, Zenon
<1> QED BY <1>1, <1>2, <1>4 DEF Typed

-----------------------------------------------------------------------------
(* A line of raw *)

\* A line of raw, with what comes after it.
RawLine(payload, eol, rest) == Opening(payload) \o (eol \o rest)

\* A line end, and what follows it.
LEMMA EolAt ==
  ASSUME NEW eol \in LineEnds, NEW rest \in Seq(Byte)
  PROVE  /\ eol \o rest \in Seq(Byte) /\ Len(eol) \in 1..2 /\ eol \in Seq(Byte)
         /\ Len(eol \o rest) = Len(eol) + Len(rest)
         /\ \A i \in 1..Len(eol) : (eol \o rest)[i] = eol[i]
<1>1. eol \in Seq(Byte) /\ Len(eol) \in 1..2
  <2>1. CASE eol = <<LF>>
    BY <2>1 DEF LF, Byte
  <2>2. CASE eol = <<CR, LF>>
    BY <2>2 DEF LF, CR, Byte
  <2> QED BY <2>1, <2>2 DEF LineEnds
<1> QED BY <1>1, ConcatAt

\* raw_parse_packet() takes the packet at the attempt for its own type.
LEMMA RawTryRight ==
  ASSUME NEW t \in 1..3, NEW payload \in Seq(Byte), Len(payload) = PayloadLen[t],
         NEW eol \in LineEnds, NEW rest \in Seq(Byte), NEW s,
         NEW b, b = RawLine(payload, eol, rest)
  PROVE  RawTry(b, t, s) = Parsed(2 + 2 * Len(payload) + Len(eol), Packet(t, 0, <<>>, payload), s)
<1> DEFINE n == 1 + 2 * PayloadLen[t]
           tail == eol \o rest
<1>1. /\ tail \in Seq(Byte) /\ Len(eol) \in 1..2 /\ Len(tail) = Len(eol) + Len(rest)
      /\ \A i \in 1..Len(eol) : tail[i] = eol[i]
  BY EolAt
<1>2. b = Opening(payload) \o tail
  BY DEF RawLine
<1> HIDE DEF tail
<1>3. Typed(b, n, payload, tail)
  BY <1>1, <1>2, RightType
<1>4. /\ n \in {5, 15, 29} /\ b \in Seq(Byte) /\ Len(b) = n + 1 + Len(tail)
      /\ b[1] = Star /\ b[n + 1] = Semicolon
      /\ IsHex(Bytes(b, 1, n - 1)) /\ Unhex(Bytes(b, 1, n - 1)) = payload
      /\ \A i \in 1..Len(tail) : b[n + 1 + i] = tail[i]
  BY <1>3, Zenon DEF Typed
<1>5. n + 1 + Len(eol) = 2 + 2 * Len(payload) + Len(eol)
  BY Lengths
<1>6. LineEnd(b, n + 1) = Len(eol)
  <2> HIDE DEF n
  <2>1. n + 1 \in Nat /\ n + 1 + Len(eol) <= Len(b) /\ \A i \in 1..Len(eol) : b[n + 1 + i] = eol[i]
    <3>1. n \in Nat /\ Len(eol) \in Nat /\ Len(rest) \in Nat
      BY <1>1, <1>4
    <3>2. n + 1 \in Nat /\ n + 1 + Len(eol) <= Len(b)
      BY <1>1, <1>4, <3>1
    <3>3. \A i \in 1..Len(eol) : i \in 1..Len(tail)
      BY <1>1, <3>1
    <3>4. \A i \in 1..Len(eol) : b[n + 1 + i] = eol[i]
      BY <1>1, <1>4, <3>3, Zenon
    <3> QED BY <3>2, <3>4
  <2> QED BY <1>4, <2>1, LineEndAt
<1>7. RawTry(b, t, s) = Parsed(n + 1 + LineEnd(b, n + 1), Packet(t, 0, <<>>, Unhex(Bytes(b, 1, n - 1))), s)
  <2>1. LineEnd(b, n + 1) > 0
    BY <1>1, <1>6
  <2> QED BY <1>4, <2>1, Zenon DEF RawTry
<1>8. RawTry(b, t, s) = Parsed(n + 1 + Len(eol), Packet(t, 0, <<>>, payload), s)
  BY <1>4, <1>6, <1>7, Zenon
<1> QED BY <1>5, <1>8, Zenon

\* A line with a payload of type t, tried as another type u.
Mistyped(t, u, payload, tail, b) ==
  /\ t \in 1..3 /\ u \in 1..3 /\ u # t
  /\ payload \in Seq(Byte) /\ Len(payload) = PayloadLen[t]
  /\ tail \in Seq(Byte) /\ b = Opening(payload) \o tail

\* It takes nothing at the attempts for the other types.
LEMMA RawTryOther ==
  ASSUME NEW t, NEW u, NEW payload, NEW tail, NEW b, NEW s, Mistyped(t, u, payload, tail, b)
  PROVE  RawTry(b, u, s) = Failed(s)
<1> DEFINE n == 1 + 2 * PayloadLen[u]
<1>0. /\ t \in 1..3 /\ u \in 1..3 /\ u # t /\ payload \in Seq(Byte)
      /\ Len(payload) = PayloadLen[t] /\ tail \in Seq(Byte) /\ b = Opening(payload) \o tail
  BY DEF Mistyped
<1>1. n \in Nat
  BY <1>0, Lengths
<1>2. \A m : m = 1 + 2 * PayloadLen[u] =>
        /\ u < t => b[m + 1] # Semicolon
        /\ u > t /\ m <= Len(b) => ~IsHex(Bytes(b, 1, m - 1))
  BY <1>0, OtherType, Zenon
<1>3. /\ u < t => b[n + 1] # Semicolon
      /\ u > t /\ n <= Len(b) => ~IsHex(Bytes(b, 1, n - 1))
  BY <1>2, Zenon
<1>4. b \in Seq(Byte)
  BY <1>0, OpeningAt DEF Opened
<1>5. LineEnd(b, n + 1) > 0 => n <= Len(b)
  <2> HIDE DEF n
  <2>1. CASE Len(b) > n + 1
    BY <1>1, <1>4, <2>1
  <2>2. CASE ~(Len(b) > n + 1)
    <3>1. LineEnd(b, n + 1) = 0
      <4>1. n + 1 \in Nat
        BY <1>1
      <4> QED BY <1>4, <2>2, <4>1, NoLineEnd
    <3> QED BY <3>1
  <2> QED BY <2>1, <2>2
<1>6. u < t \/ u > t
  BY <1>0
<1>7. ~(LineEnd(b, n + 1) > 0 /\ b[1] = Star /\ b[n + 1] = Semicolon /\ IsHex(Bytes(b, 1, n - 1)))
  BY <1>3, <1>5, <1>6, Zenon
<1> QED BY <1>7, Zenon DEF RawTry

\* What raw_parse() makes of a line.
TakesLine(b, s, t, payload, eol) ==
  RawParse(b, s) = Parsed(2 + 2 * Len(payload) + Len(eol), Packet(t, 0, <<>>, payload), s)

\* So raw_parse() takes the packet, whichever type it has.
LEMMA RawParseLine ==
  ASSUME NEW t \in 1..3, NEW payload \in Seq(Byte), Len(payload) = PayloadLen[t],
         NEW eol \in LineEnds, NEW rest \in Seq(Byte), NEW s,
         NEW b, b = RawLine(payload, eol, rest)
  PROVE  TakesLine(b, s, t, payload, eol)
<1> DEFINE r == Parsed(2 + 2 * Len(payload) + Len(eol), Packet(t, 0, <<>>, payload), s)
           orTry(q, u) == IF q.used > 0 THEN q ELSE RawTry(b, u, q.state)
<1>1. RawTry(b, t, s) = r
  BY RawTryRight
<1>2. ASSUME NEW u \in 1..3, u # t PROVE RawTry(b, u, s) = Failed(s)
  <2> DEFINE tail == eol \o rest
  <2>1. tail \in Seq(Byte)
    BY EolAt
  <2>2. b = Opening(payload) \o tail
    BY DEF RawLine
  <2> HIDE DEF tail
  <2>3. Mistyped(t, u, payload, tail, b)
    BY <1>2, <2>1, <2>2 DEF Mistyped
  <2> QED BY <2>3, RawTryOther, Zenon
<1>3. r.used > 0
  <2>1. Len(eol) \in Nat /\ Len(payload) \in Nat
    BY EolAt
  <2> QED BY <2>1 DEF Parsed
<1>4. RawParse(b, s) = orTry(orTry(RawTry(b, 1, s), 2), 3)
  BY DEF RawParse, OrElse
<1>5. Failed(s).used = 0 /\ Failed(s).state = s
  BY DEF Failed
<1> SUFFICES RawParse(b, s) = r
  BY DEF TakesLine
<1> HIDE DEF r
<1>6. \A u : orTry(r, u) = r /\ orTry(Failed(s), u) = RawTry(b, u, s)
  BY <1>3, <1>5
<1> HIDE DEF orTry
<1>7. CASE t = 1
  <2>1. RawTry(b, 1, s) = r
    BY <1>1, <1>7
  <2>2. orTry(RawTry(b, 1, s), 2) = r
    BY <1>6, <2>1
  <2> QED BY <1>4, <1>6, <2>2
<1>8. CASE t = 2
  <2>1. RawTry(b, 1, s) = Failed(s) /\ RawTry(b, 2, s) = r
    BY <1>1, <1>2, <1>8
  <2>2. orTry(RawTry(b, 1, s), 2) = r
    BY <1>6, <2>1
  <2> QED BY <1>4, <1>6, <2>2
<1>9. CASE t = 3
  <2>1. RawTry(b, 1, s) = Failed(s) /\ RawTry(b, 2, s) = Failed(s) /\ RawTry(b, 3, s) = r
    BY <1>1, <1>2, <1>9
  <2>2. orTry(RawTry(b, 1, s), 2) = Failed(s)
    BY <1>6, <2>1
  <2> QED BY <1>4, <1>6, <2>1, <2>2
<1> QED BY <1>7, <1>8, <1>9

\* What a parser returns that takes nothing.
Rejected(r) == \E x : r = Failed(x)

\* Before the semicolon of a line there is no room for another type.
LEMMA AirspyTryOther ==
  ASSUME NEW t, NEW u, NEW payload, NEW tail, NEW b, NEW s, Mistyped(t, u, payload, tail, b)
  PROVE  Rejected(AirspyTry(b, u, s))
<1> DEFINE n == 1 + 2 * PayloadLen[u]
<1>0. /\ t \in 1..3 /\ u \in 1..3 /\ u # t /\ payload \in Seq(Byte)
      /\ Len(payload) = PayloadLen[t] /\ tail \in Seq(Byte) /\ b = Opening(payload) \o tail
  BY DEF Mistyped
<1>1. n \in Nat
  BY <1>0, Lengths
<1>2. \A m : m = 1 + 2 * PayloadLen[u] =>
        /\ u < t => b[m + 1] # Semicolon
        /\ u > t /\ m <= Len(b) => ~IsHex(Bytes(b, 1, m - 1))
  BY <1>0, OtherType, Zenon
<1>3. /\ u < t => b[n + 1] # Semicolon
      /\ u > t /\ n <= Len(b) => ~IsHex(Bytes(b, 1, n - 1))
  BY <1>2, Zenon
<1>4. b \in Seq(Byte)
  BY <1>0, OpeningAt DEF Opened
<1>5. LineEnd(b, n + 18) = 0 \/ n <= Len(b)
  <2> HIDE DEF n
  <2>1. CASE Len(b) > n + 18
    BY <1>1, <1>4, <2>1
  <2>2. CASE ~(Len(b) > n + 18)
    <3>1. n + 18 \in Nat
      BY <1>1
    <3> QED BY <1>4, <2>2, <3>1, NoLineEnd
  <2> QED BY <2>1, <2>2
<1>6. CASE u < t
  <2>1. \E k \in {n, n + 9, n + 12, n + 17} : b[k + 1] # Semicolon
    BY <1>3, <1>6, Zenon
  <2>2. AirspyTry(b, u, s) = Failed(s)
    BY <2>1, Zenon DEF AirspyTry
  <2> QED BY <2>2, Zenon DEF Rejected
<1>7. CASE u > t
  <2>1. LineEnd(b, n + 18) = 0 \/ ~IsHex(Bytes(b, 1, n - 1))
    BY <1>3, <1>5, <1>7, Zenon
  <2>2. \E x : AirspyTry(b, u, s) = Failed(x)
    BY <2>1, Zenon DEF AirspyTry
  <2> QED BY <2>2, Zenon DEF Rejected
<1> QED BY <1>0, <1>6, <1>7

\* airspy_adsb_parse() takes no line of raw for one of its own.
LEMMA AirspyRejects ==
  ASSUME NEW t \in 1..3, NEW payload \in Seq(Byte), Len(payload) = PayloadLen[t],
         NEW eol \in LineEnds, NEW rest \in Seq(Byte), NEW s,
         NEW b, b = RawLine(payload, eol, rest)
  PROVE  Rejected(AirspyParse(b, s))
<1> DEFINE orTry(q, u) == IF q.used > 0 THEN q ELSE AirspyTry(b, u, q.state)
           tail == eol \o rest
<1>1. AirspyParse(b, s) = orTry(orTry(AirspyTry(b, 1, s), 2), 3)
  BY DEF AirspyParse, OrElse
<1>2. ASSUME NEW u \in 1..3, NEW x PROVE Rejected(AirspyTry(b, u, x))
  <2>1. /\ tail \in Seq(Byte) /\ Len(eol) \in 1..2 /\ Len(tail) = Len(eol) + Len(rest)
        /\ \A i \in 1..Len(eol) : tail[i] = eol[i]
    BY EolAt
  <2>2. b = Opening(payload) \o tail
    BY DEF RawLine
  <2> HIDE DEF tail
  <2>3. CASE u # t
    <3>1. Mistyped(t, u, payload, tail, b)
      BY <2>1, <2>2, <2>3 DEF Mistyped
    <3> QED BY <3>1, AirspyTryOther, Zenon
  <2>4. CASE u = t
    <3> DEFINE n == 1 + 2 * PayloadLen[u]
    <3>1. Typed(b, n, payload, tail)
      BY <2>1, <2>2, <2>4, RightType
    <3>2. n \in Nat /\ b \in Seq(Byte) /\ Len(b) > n + 1 /\ b[n + 2] \in {CR, LF}
      <4> HIDE DEF n
      <4>1. /\ n \in Nat /\ b \in Seq(Byte) /\ Len(b) = n + 1 + Len(tail)
            /\ \A i \in 1..Len(tail) : b[n + 1 + i] = tail[i]
        BY <3>1 DEF Typed
      <4>2. n + 1 \in Nat /\ n + 1 + Len(eol) <= Len(b) /\ \A i \in 1..Len(eol) : b[n + 1 + i] = eol[i]
        BY <2>1, <4>1
      <4>3. eol[1] \in {CR, LF}
        BY DEF LineEnds
      <4>4. b[n + 1 + 1] = eol[1] /\ n + 1 + 1 = n + 2
        BY <2>1, <4>1, <4>2
      <4> QED BY <2>1, <4>1, <4>2, <4>3, <4>4
    <3> HIDE DEF n
    <3>3. ~IsHex(Bytes(b, n + 1, 8)) \/ LineEnd(b, n + 18) = 0
      <4>1. CASE Len(b) > n + 18
        <5> DEFINE y == SubSeq(b, n + 2, n + 9)
        <5>1. n + 1 + 1 = n + 2 /\ n + 1 + 8 = n + 9
          BY <3>2
        <5>2. y = Bytes(b, n + 1, 8)
          BY <5>1, Zenon DEF Bytes
        <5>3. 1 \in DOMAIN y /\ y[1] = b[n + 2]
          BY <3>2, <4>1
        <5>4. CR \notin HexDigits /\ LF \notin HexDigits
          BY DEF CR, LF, HexDigits
        <5> HIDE DEF y
        <5> QED BY <3>2, <5>2, <5>3, <5>4 DEF IsHex
      <4>2. CASE ~(Len(b) > n + 18)
        <5>1. n + 18 \in Nat
          BY <3>2
        <5> QED BY <3>2, <4>2, <5>1, NoLineEnd
      <4> QED BY <4>1, <4>2
    <3>4. AirspyTry(b, u, x) = Failed(x)
      BY <3>3, Zenon DEF AirspyTry, n
    <3> QED BY <3>4, Zenon DEF Rejected
  <2> QED BY <2>3, <2>4
<1>3. ASSUME NEW x PROVE Failed(x).used = 0
  BY DEF Failed
<1>4. ASSUME NEW q, NEW u \in 1..3, Rejected(q) PROVE Rejected(orTry(q, u))
  <2>1. q.used = 0
    BY <1>3, <1>4 DEF Rejected
  <2>2. orTry(q, u) = AirspyTry(b, u, q.state)
    BY <2>1
  <2> QED BY <1>2, <2>2, Zenon
<1> HIDE DEF orTry
<1>5. Rejected(AirspyTry(b, 1, s))
  BY <1>2
<1>6. Rejected(orTry(AirspyTry(b, 1, s), 2))
  BY <1>4, <1>5
<1> QED BY <1>1, <1>4, <1>6

-----------------------------------------------------------------------------
(* The parsers in turn *)

\* Only airspy_adsb and raw have anything that begins with a star.
LEMMA BeastRejects ==
  ASSUME NEW b, b[1] = Star, NEW s
  PROVE  Rejected(BeastParse(b, s))
<1>1. b[1] # ESC
  BY DEF Star, ESC
<1> QED BY <1>1, Zenon DEF BeastParse, Rejected

\* json_parse() refuses a line that begins with an asterisk.
LEMMA JsonRejects ==
  ASSUME NEW b \in Seq(Byte), Len(b) > 0, b[1] = Star, NEW s
  PROVE  Rejected(JsonParse(b, s))
<1> DEFINE others == {i \in 0 + 1..Len(b) : b[i] \notin {CR, LF}}
<1>1. 1 \in others /\ \A y \in others : 1 <= y /\ y \in Nat
  BY DEF Star, CR, LF
<1>2. \A y \in others : y <= 1 => y = 1
  BY <1>1
<1>3. Min(others) = 1
  <2> HIDE DEF others
  <2> QED BY <1>1, <1>2 DEF Min
<1>4. Blank(b, 0) = 0
  BY <1>1, <1>3 DEF Blank
<1>5. b[0 + 1] # OpenBrace
  BY DEF Star, OpenBrace
<1>6. JsonEnd(b) = 0
  BY <1>4, <1>5, Zenon DEF JsonEnd
<1>7. JsonParse(b, s) = Failed(s)
  BY <1>6 DEF JsonParse
<1> QED BY <1>7, Zenon DEF Rejected

\* So does proto_parse().
LEMMA ProtoRejects ==
  ASSUME NEW b, b[1] = Star, NEW s
  PROVE  Rejected(ProtoParse(b, s))
<1>1. b[1] # FieldOne
  BY DEF Star, FieldOne
<1>2. ProtoUnwrap(b) = [used |-> 0, body |-> <<>>]
  BY <1>1, Zenon DEF ProtoUnwrap
<1>3. ProtoUnwrap(b).body = <<>>
  BY <1>2
<1>4. ProtoParse(b, s) = Failed(s)
  BY <1>3 DEF ProtoParse
<1> QED BY <1>4, Zenon DEF Rejected

\* What the parser of a format finds.
Found(r, format, used, packet) == r.format = format /\ r.used = used /\ r.packet = packet

\* The same, with the parser_state that it leaves.
FoundAt(r, format, used, packet, x) == Found(r, format, used, packet) /\ r.state = x

\* parser_wrapper() tells of the parser that it has tried.
LEMMA TaggedParsed ==
  ASSUME NEW used, NEW packet, NEW x, NEW f, NEW r, r = [Parsed(used, packet, x) EXCEPT !.format = f]
  PROVE  FoundAt(r, f, used, packet, x)
BY DEF Parsed, Found, FoundAt

\* A parser that has refused consumes nothing.
LEMMA TaggedRejected ==
  ASSUME NEW q, Rejected(q), NEW f
  PROVE  [q EXCEPT !.format = f].used = 0
BY DEF Rejected, Failed

\* What the next parser is given.
After(r, i, b) == IF r.used > 0 THEN r ELSE Parse(Parsers[i], b, r.state)

\* receive_autodetect_parse() tries one parser after the other.
LEMMA AutodetectSteps ==
  ASSUME NEW b, NEW s
  PROVE  AutodetectParse(b, s) = After(After(After(After(After(Failed(s), 1, b), 2, b), 3, b), 4, b), 5, b)
BY DEF AutodetectParse, OrElse, After

\* The parser of each format.
LEMMA ParseNames ==
  ASSUME NEW b, NEW s
  PROVE  /\ Parse("airspy_adsb", b, s) = [AirspyParse(b, s) EXCEPT !.format = "airspy_adsb"]
         /\ Parse("beast", b, s) = [BeastParse(b, s) EXCEPT !.format = "beast"]
         /\ Parse("json", b, s) = [JsonParse(b, s) EXCEPT !.format = "json"]
         /\ Parse("proto", b, s) = [ProtoParse(b, s) EXCEPT !.format = "proto"]
         /\ Parse("raw", b, s) = [RawParse(b, s) EXCEPT !.format = "raw"]
BY DEF Parse

\* A packet that fits its type.
Whole(p) == p.type \in 1..3 /\ p.payload \in Seq(Byte) /\ Len(p.payload) = PayloadLen[p.type]

\* How long the asterisk, the payload and the semicolon are.
LEMMA OpeningBytes ==
  ASSUME NEW payload \in Seq(Byte)
  PROVE  Opening(payload) \in Seq(Byte) /\ Len(Opening(payload)) = 2 + 2 * Len(payload)
<1> DEFINE n == 1 + 2 * Len(payload)
<1>1. n = 1 + 2 * Len(payload) /\ <<>> \in Seq(Byte)
  OBVIOUS
<1> HIDE DEF n
<1>2. Opened(Opening(payload) \o <<>>, n, payload, <<>>)
  BY <1>1, OpeningAt
<1>3. Opening(payload) \o <<>> \in Seq(Byte) /\ Len(Opening(payload) \o <<>>) = n + 1
  BY <1>2 DEF Opened
<1>4. Opening(payload) \o <<>> = Opening(payload)
  <2>1. HexText(payload) \in Seq(HexDigits)
    BY HexTextSeq
  <2> QED BY <2>1 DEF Opening
<1> QED BY <1>1, <1>3, <1>4

\* What raw_serialize() writes, and how long it is.
LEMMA RawFrame ==
  ASSUME NEW p, Whole(p), NEW eol \in LineEnds, NEW rest \in Seq(Byte)
  PROVE  /\ RawSerialize(p, eol) \o rest = RawLine(p.payload, eol, rest)
         /\ Len(RawSerialize(p, eol)) = 2 + 2 * Len(p.payload) + Len(eol)
<1> DEFINE o == Opening(p.payload)
           frame == RawSerialize(p, eol)
<1>0. p.payload \in Seq(Byte)
  BY DEF Whole
<1>1. eol \in Seq(Byte)
  BY EolAt
<1>2. o \in Seq(Byte) /\ Len(o) = 2 + 2 * Len(p.payload)
  BY <1>0, OpeningBytes
<1>3. frame = o \o eol
  BY DEF RawSerialize, Opening
<1> HIDE DEF o, frame
<1>4. frame \o rest = o \o (eol \o rest)
  BY <1>1, <1>2, <1>3, ConcatAssociative
<1>5. Len(frame) = 2 + 2 * Len(p.payload) + Len(eol)
  BY <1>1, <1>2, <1>3, ConcatAt
<1> QED BY <1>4, <1>5 DEF frame, o, RawLine

\* raw: what raw_serialize() writes for a packet, with either line end and
\* whatever follows it, raw_parse() reads as the same packet, consuming its bytes
\* and no others and leaving the parser_state alone.
THEOREM RawRoundTrip ==
  ASSUME NEW p, Whole(p), NEW eol \in LineEnds, NEW rest \in Seq(Byte), NEW s
  PROVE  FoundAt(Parse("raw", RawSerialize(p, eol) \o rest, s), "raw",
                 Len(RawSerialize(p, eol)), Packet(p.type, 0, <<>>, p.payload), s)
<1> DEFINE b == RawSerialize(p, eol) \o rest
           used == Len(RawSerialize(p, eol))
           packet == Packet(p.type, 0, <<>>, p.payload)
<1>1. b = RawLine(p.payload, eol, rest) /\ used = 2 + 2 * Len(p.payload) + Len(eol)
  BY RawFrame
<1>2. /\ p.type \in 1..3 /\ p.payload \in Seq(Byte) /\ Len(p.payload) = PayloadLen[p.type]
  BY DEF Whole
<1>3. RawParse(b, s) = Parsed(used, packet, s)
  <2> DEFINE t == p.type
             payload == p.payload
  <2>0. t \in 1..3 /\ payload \in Seq(Byte) /\ Len(payload) = PayloadLen[t]
    BY <1>2
  <2> HIDE DEF t, payload, b, used, packet
  <2>1. b = RawLine(payload, eol, rest)
    BY <1>1 DEF payload
  <2>2. TakesLine(b, s, t, payload, eol)
    BY <2>0, <2>1, RawParseLine
  <2> QED BY <1>1, <2>2, Zenon DEF TakesLine, t, payload, packet
<1> HIDE DEF b, used, packet
<1>4. Parse("raw", b, s) = [Parsed(used, packet, s) EXCEPT !.format = "raw"]
  BY <1>3, ParseNames
<1>5. FoundAt(Parse("raw", b, s), "raw", used, packet, s)
  BY <1>4, TaggedParsed
<1> QED BY <1>5 DEF b, used, packet

\* Where a parser consumes nothing the next one is tried.
LEMMA AfterRejected ==
  ASSUME NEW r, r.used = 0, NEW i, NEW b
  PROVE  After(r, i, b) = Parse(Parsers[i], b, r.state)
BY DEF After

\* raw: receive_autodetect_parse() finds the format by that packet, although
\* airspy_adsb is tried before it and begins with the same bytes.  (That attempt may
\* leave a timestamp in the parser_state, so nothing is said of it.)
THEOREM RawDetected ==
  ASSUME NEW p, Whole(p), NEW eol \in LineEnds, NEW rest \in Seq(Byte), NEW s
  PROVE  Found(ParserWrapper("auto", RawSerialize(p, eol) \o rest, s), "raw",
               Len(RawSerialize(p, eol)), Packet(p.type, 0, <<>>, p.payload))
<1> DEFINE b == RawSerialize(p, eol) \o rest
           used == Len(RawSerialize(p, eol))
           packet == Packet(p.type, 0, <<>>, p.payload)
<1>1. b = RawLine(p.payload, eol, rest)
  BY RawFrame
<1>2. /\ p.type \in 1..3 /\ p.payload \in Seq(Byte) /\ Len(p.payload) = PayloadLen[p.type]
  BY DEF Whole
<1>3. \A x : Found(Parse("raw", b, x), "raw", used, packet)
  BY RawRoundTrip DEF FoundAt
<1> HIDE DEF b, used, packet
<1>4. b \in Seq(Byte) /\ Len(b) > 0 /\ b[1] = Star
  <2> DEFINE tail == eol \o rest
             n == 1 + 2 * Len(p.payload)
  <2>1. tail \in Seq(Byte) /\ n = 1 + 2 * Len(p.payload) /\ b = Opening(p.payload) \o tail
    BY <1>1, EolAt DEF RawLine
  <2> HIDE DEF tail, n
  <2>2. Opened(b, n, p.payload, tail)
    BY <1>2, <2>1, OpeningAt
  <2> QED BY <2>1, <2>2 DEF Opened
<1>5. ASSUME NEW x PROVE Rejected(AirspyParse(b, x))
  BY <1>1, <1>2, AirspyRejects
<1>6. ASSUME NEW r, r.used = 0, NEW i \in 1..4 PROVE After(r, i, b).used = 0
  <2>1. After(r, i, b) = Parse(Parsers[i], b, r.state)
    BY <1>6, AfterRejected
  <2>2. ASSUME NEW x PROVE /\ Parse("airspy_adsb", b, x).used = 0 /\ Parse("beast", b, x).used = 0
                           /\ Parse("json", b, x).used = 0 /\ Parse("proto", b, x).used = 0
    <3>1. /\ Rejected(AirspyParse(b, x)) /\ Rejected(BeastParse(b, x))
          /\ Rejected(JsonParse(b, x)) /\ Rejected(ProtoParse(b, x))
      BY <1>4, <1>5, BeastRejects, JsonRejects, ProtoRejects
    <3>3. Parse("airspy_adsb", b, x).used = 0
      <4>1. [AirspyParse(b, x) EXCEPT !.format = "airspy_adsb"].used = 0
        BY <3>1, TaggedRejected
      <4> QED BY <4>1, ParseNames
    <3>4. Parse("beast", b, x).used = 0
      <4>1. [BeastParse(b, x) EXCEPT !.format = "beast"].used = 0
        BY <3>1, TaggedRejected
      <4> QED BY <4>1, ParseNames
    <3>5. Parse("json", b, x).used = 0
      <4>1. [JsonParse(b, x) EXCEPT !.format = "json"].used = 0
        BY <3>1, TaggedRejected
      <4> QED BY <4>1, ParseNames
    <3>6. Parse("proto", b, x).used = 0
      <4>1. [ProtoParse(b, x) EXCEPT !.format = "proto"].used = 0
        BY <3>1, TaggedRejected
      <4> QED BY <4>1, ParseNames
    <3> QED BY <3>3, <3>4, <3>5, <3>6
  <2>3. Parsers[i] \in {"airspy_adsb", "beast", "json", "proto"}
    BY DEF Parsers
  <2> QED BY <2>1, <2>2, <2>3
<1>7. Failed(s).used = 0
  BY DEF Failed
<1> DEFINE r2 == After(After(Failed(s), 1, b), 2, b)
           r4 == After(After(r2, 3, b), 4, b)
<1>8. r2.used = 0
  BY <1>6, <1>7
<1>9. r4.used = 0
  <2> HIDE DEF r2
  <2> QED BY <1>6, <1>8
<1>10. AutodetectParse(b, s) = After(r4, 5, b)
  BY AutodetectSteps
<1> HIDE DEF r4
<1>11. After(r4, 5, b) = Parse("raw", b, r4.state)
  <2>1. Parsers[5] = "raw"
    BY DEF Parsers
  <2> QED BY <1>9, <2>1, AfterRejected
<1>12. Found(AutodetectParse(b, s), "raw", used, packet)
  BY <1>3, <1>10, <1>11
<1>13. ParserWrapper("auto", b, s) = AutodetectParse(b, s)
  BY DEF ParserWrapper
<1>14. Found(ParserWrapper("auto", b, s), "raw", used, packet)
  BY <1>12, <1>13
<1> QED BY <1>14 DEF b, used, packet

-----------------------------------------------------------------------------
(* Taking a buffer apart *)

\* From at(k) on, the buffer has the bytes z and no others; or y and others.
Ends(b, k, z) ==
  /\ b \in Seq(Byte) /\ k \in Nat /\ z \in Seq(Byte) /\ Len(b) = k + Len(z)
  /\ \A i \in 1..Len(z) : b[k + i] = z[i]

Has(b, k, y) ==
  /\ k + Len(y) <= Len(b) /\ Bytes(b, k, Len(y)) = y
  /\ \A i \in 1..Len(y) : b[k + i] = y[i]

\* A buffer ends with itself.
LEMMA EndsAll == ASSUME NEW b \in Seq(Byte) PROVE Ends(b, 0, b)
<1>1. \A i \in 1..Len(b) : b[0 + i] = b[i]
  OBVIOUS
<1> QED BY <1>1 DEF Ends

\* The first part of what a buffer ends with, and what is left of it.
LEMMA Peel ==
  ASSUME NEW b, NEW k, NEW y \in Seq(Byte), NEW z \in Seq(Byte), Ends(b, k, y \o z),
         NEW m, m = k + Len(y)
  PROVE  Has(b, k, y) /\ Ends(b, m, z)
<1> DEFINE yz == y \o z
<1>1. /\ yz \in Seq(Byte) /\ Len(yz) = Len(y) + Len(z)
      /\ \A i \in 1..Len(y) : yz[i] = y[i]
      /\ \A i \in 1..Len(z) : yz[Len(y) + i] = z[i]
  BY ConcatAt
<1>2. Ends(b, k, yz)
  OBVIOUS
<1> HIDE DEF yz
<1>3. /\ b \in Seq(Byte) /\ k \in Nat /\ Len(b) = k + Len(yz)
      /\ \A i \in 1..Len(yz) : b[k + i] = yz[i]
  BY <1>2 DEF Ends
<1>4. ASSUME NEW i \in 1..Len(y) PROVE b[k + i] = y[i]
  BY <1>1, <1>3
<1>5. k + Len(y) <= Len(b)
  BY <1>1, <1>3
<1>6. Bytes(b, k, Len(y)) = y
  BY <1>3, <1>4, <1>5, PartIs
<1>7. ASSUME NEW i \in 1..Len(z) PROVE b[m + i] = z[i]
  <2>1. Len(y) + i \in 1..Len(yz) /\ k + (Len(y) + i) = m + i
    BY <1>1, <1>3
  <2> QED BY <1>1, <1>3, <2>1
<1>8. m \in Nat /\ Len(b) = m + Len(z)
  BY <1>1, <1>3
<1> QED BY <1>3, <1>4, <1>5, <1>6, <1>7, <1>8 DEF Has, Ends

\* How long two sequences are together.
LEMMA JoinLen ==
  ASSUME NEW x \in Seq(Byte), NEW y \in Seq(Byte), NEW z, z = x \o y
  PROVE  z \in Seq(Byte) /\ Len(z) = Len(x) + Len(y)
BY ConcatAt

Join(x, y, xy) == x \in Seq(Byte) /\ y \in Seq(Byte) /\ xy = x \o y

Same(xy, z, x, yz) == xy \o z = x \o yz

\* The parts of a frame may be put together in any order.
LEMMA Regroup ==
  ASSUME NEW x, NEW y, NEW z, NEW xy, NEW yz, Join(x, y, xy), Join(y, z, yz)
  PROVE  Same(xy, z, x, yz)
BY ConcatAssociative DEF Join, Same

\* Two texts one after the other are the text of both.
LEMMA HexConcat ==
  ASSUME NEW x \in Seq(Byte), NEW y \in Seq(Byte)
  PROVE  HexText(x) \o HexText(y) = HexText(x \o y)
<1> DEFINE xy == x \o y
           hx == HexText(x)
           hy == HexText(y)
           at(z, i) == HexUpper(IF i % 2 = 1 THEN z[(i + 1) \div 2] \div 16 ELSE z[(i + 1) \div 2] % 16)
<1>1. /\ xy \in Seq(Byte) /\ Len(xy) = Len(x) + Len(y)
      /\ \A i \in 1..Len(x) : xy[i] = x[i]
      /\ \A i \in 1..Len(y) : xy[Len(x) + i] = y[i]
  BY ConcatAt
<1>2. /\ hx \in Seq(Byte) /\ Len(hx) = 2 * Len(x) /\ hy \in Seq(Byte) /\ Len(hy) = 2 * Len(y)
  BY HexTextSeq, HexBytes
<1>3. /\ hx \o hy \in Seq(Byte) /\ Len(hx \o hy) = 2 * Len(x) + 2 * Len(y)
      /\ \A i \in 1..Len(hx) : (hx \o hy)[i] = hx[i]
      /\ \A i \in 1..Len(hy) : (hx \o hy)[Len(hx) + i] = hy[i]
  <2> DEFINE z == hx \o hy
  <2>1. z = hx \o hy
    OBVIOUS
  <2> SUFFICES /\ z \in Seq(Byte) /\ Len(z) = 2 * Len(x) + 2 * Len(y)
               /\ \A i \in 1..Len(hx) : z[i] = hx[i]
               /\ \A i \in 1..Len(hy) : z[Len(hx) + i] = hy[i]
    OBVIOUS
  <2> HIDE DEF hx, hy, z
  <2>2. Joined(hx, hy, z)
    BY <1>2, <2>1, JoinAt
  <2> QED BY <1>2, <2>2 DEF Joined
<1>4. HexText(xy) = [i \in 1..2 * Len(xy) |-> at(xy, i)]
  BY DEF HexText
<1>5. hx = [i \in 1..2 * Len(x) |-> at(x, i)] /\ hy = [i \in 1..2 * Len(y) |-> at(y, i)]
  BY DEF HexText
<1>6. ASSUME NEW i \in 1..2 * Len(x) PROVE at(xy, i) = at(x, i)
  <2>1. (i + 1) \div 2 \in 1..Len(x)
    OBVIOUS
  <2>2. xy[(i + 1) \div 2] = x[(i + 1) \div 2]
    BY <1>1, <2>1
  <2> HIDE DEF xy
  <2> QED BY <2>2
<1>7. ASSUME NEW i \in 1..2 * Len(y) PROVE at(xy, 2 * Len(x) + i) = at(y, i)
  <2>1. /\ (i + 1) \div 2 \in 1..Len(y)
        /\ (2 * Len(x) + i + 1) \div 2 = Len(x) + ((i + 1) \div 2)
        /\ (2 * Len(x) + i) % 2 = i % 2
    OBVIOUS
  <2>2. xy[(2 * Len(x) + i + 1) \div 2] = y[(i + 1) \div 2]
    BY <1>1, <2>1
  <2> HIDE DEF xy
  <2> QED BY <2>1, <2>2
<1> HIDE DEF at, xy, hx, hy
<1>8. ASSUME NEW i \in 1..2 * Len(xy) PROVE (hx \o hy)[i] = at(xy, i)
  <2>1. CASE i <= 2 * Len(x)
    BY <1>1, <1>2, <1>3, <1>5, <1>6, <2>1
  <2>2. CASE i > 2 * Len(x)
    <3> DEFINE j == i - 2 * Len(x)
    <3>1. j \in 1..2 * Len(y) /\ i = 2 * Len(x) + j
      BY <1>1, <2>2
    <3> HIDE DEF j
    <3>2. (hx \o hy)[i] = hy[j]
      BY <1>2, <1>3, <3>1
    <3> QED BY <1>5, <1>7, <3>1, <3>2
  <2>3. i \in Nat /\ 2 * Len(x) \in Nat
    BY <1>1
  <2>4. i <= 2 * Len(x) \/ i > 2 * Len(x)
    BY <2>3
  <2> QED BY <2>1, <2>2, <2>4
<1>9. Len(hx \o hy) = 2 * Len(xy)
  BY <1>1, <1>3
<1>10. hx \o hy = [i \in 1..2 * Len(xy) |-> (hx \o hy)[i]]
  <2> DEFINE h == hx \o hy
  <2>1. h \in Seq(Byte) /\ Len(h) = 2 * Len(xy)
    BY <1>3, <1>9
  <2> HIDE DEF h
  <2>2. h = [i \in 1..Len(h) |-> h[i]]
    BY <2>1
  <2> QED BY <2>1, <2>2, Zenon DEF h
<1>11. hx \o hy = HexText(xy)
  BY <1>4, <1>8, <1>10, Zenon
<1> QED BY <1>11 DEF hx, hy, xy

-----------------------------------------------------------------------------
(* A line of airspy_adsb *)

\* What stands between the payload and the line end, with what comes after it:
\* the timestamp, the precision and the level.
Stamped(time, prec, level, tail) ==
  time \o (<<Semicolon>> \o (prec \o (<<Semicolon>> \o (level \o (<<Semicolon>> \o tail)))))

\* The fields of a line, from at(k) on.
Fields(b, k, time, prec, level, tail) ==
  /\ Bytes(b, k, 8) = time /\ b[k + 8 + 1] = Semicolon
  /\ Bytes(b, k + 9, 2) = prec /\ b[k + 11 + 1] = Semicolon
  /\ Bytes(b, k + 12, 4) = level /\ b[k + 16 + 1] = Semicolon
  /\ Ends(b, k + 17, tail)

\* Where the fields of that are in a buffer that ends with it.
LEMMA FieldsAt ==
  ASSUME NEW b, NEW k \in Nat, NEW time \in Seq(Byte), NEW prec \in Seq(Byte),
         NEW level \in Seq(Byte), NEW tail \in Seq(Byte),
         Len(time) = 8, Len(prec) = 2, Len(level) = 4,
         Ends(b, k, Stamped(time, prec, level, tail))
  PROVE  Fields(b, k, time, prec, level, tail)
<1> DEFINE semi == <<Semicolon>>
           t6 == semi \o tail
           t5 == level \o t6
           t4 == semi \o t5
           t3 == prec \o t4
           t2 == semi \o t3
<1>0. semi \in Seq(Byte) /\ Len(semi) = 1 /\ semi[1] = Semicolon
  BY DEF Semicolon, Byte
<1>1. Ends(b, k, time \o t2)
  BY DEF Stamped
<1> HIDE DEF semi
<1>2. t6 \in Seq(Byte)
  BY <1>0, ConcatAt
<1>3. t5 \in Seq(Byte)
  <2> HIDE DEF t6
  <2> QED BY <1>2, ConcatAt
<1>4. t4 \in Seq(Byte)
  <2> HIDE DEF t5
  <2> QED BY <1>0, <1>3, ConcatAt
<1>5. t3 \in Seq(Byte)
  <2> HIDE DEF t4
  <2> QED BY <1>4, ConcatAt
<1>6. t2 \in Seq(Byte)
  <2> HIDE DEF t3
  <2> QED BY <1>0, <1>5, ConcatAt
<1>7. /\ k + 8 \in Nat /\ k + 9 \in Nat /\ k + 11 \in Nat /\ k + 12 \in Nat /\ k + 16 \in Nat
      /\ k + 9 = k + 8 + 1 /\ k + 11 = k + 9 + 2 /\ k + 12 = k + 11 + 1
      /\ k + 16 = k + 12 + 4 /\ k + 17 = k + 16 + 1
  OBVIOUS
<1>8. Has(b, k, time) /\ Ends(b, k + 8, t2)
  <2> HIDE DEF t2
  <2> QED BY <1>1, <1>6, Peel
<1>9. Has(b, k + 8, semi) /\ Ends(b, k + 9, t3)
  <2> HIDE DEF t3
  <2> QED BY <1>0, <1>5, <1>7, <1>8, Peel DEF t2
<1>10. Has(b, k + 9, prec) /\ Ends(b, k + 11, t4)
  <2> HIDE DEF t4
  <2> QED BY <1>4, <1>7, <1>9, Peel DEF t3
<1>11. Has(b, k + 11, semi) /\ Ends(b, k + 12, t5)
  <2> HIDE DEF t5
  <2> QED BY <1>0, <1>3, <1>7, <1>10, Peel DEF t4
<1>12. Has(b, k + 12, level) /\ Ends(b, k + 16, t6)
  <2> HIDE DEF t6
  <2> QED BY <1>2, <1>7, <1>11, Peel DEF t5
<1>13. Has(b, k + 16, semi) /\ Ends(b, k + 17, tail)
  BY <1>0, <1>7, <1>12, Peel DEF t6
<1>14. ASSUME NEW m, Has(b, m, semi) PROVE b[m + 1] = Semicolon
  BY <1>0, <1>14 DEF Has
<1>15. b[k + 8 + 1] = Semicolon /\ b[k + 11 + 1] = Semicolon /\ b[k + 16 + 1] = Semicolon
  BY <1>9, <1>11, <1>13, <1>14
<1>16. Bytes(b, k, 8) = time /\ Bytes(b, k + 9, 2) = prec /\ Bytes(b, k + 12, 4) = level
  BY <1>8, <1>10, <1>12, Zenon DEF Has
<1> QED BY <1>13, <1>15, <1>16 DEF Fields

\* The line that is written for a payload and the bytes of a timestamp and a
\* level, with what comes after it.
TimeText(stamp) == HexText(SubSeq(stamp, 1, 4))
LevelText(stamp) == HexText(SubSeq(stamp, 5, 6))
PrecText == HexText(AirspyPrecision)
AirspyLine(payload, stamp, eol, rest) ==
  Opening(payload) \o Stamped(TimeText(stamp), PrecText, LevelText(stamp), eol \o rest)

\* Those texts and what they stand for.
LEMMA StampTexts ==
  ASSUME NEW stamp \in Seq(Byte), Len(stamp) = 6
  PROVE  /\ TimeText(stamp) \in Seq(Byte) /\ Len(TimeText(stamp)) = 8 /\ IsHex(TimeText(stamp))
         /\ LevelText(stamp) \in Seq(Byte) /\ Len(LevelText(stamp)) = 4
         /\ PrecText \in Seq(Byte) /\ Len(PrecText) = 2 /\ PrecText # <<48, 48>>
         /\ Unhex(TimeText(stamp) \o LevelText(stamp)) = stamp
<1> DEFINE x == SubSeq(stamp, 1, 4)
           y == SubSeq(stamp, 5, 6)
           z == AirspyPrecision
<1>1. x \in Seq(Byte) /\ Len(x) = 4 /\ y \in Seq(Byte) /\ Len(y) = 2
  <2>1. x \in Seq(Byte) /\ Len(x) = 4
    OBVIOUS
  <2>2. y \in Seq(Byte) /\ Len(y) = 2
    <3>2. ASSUME NEW i \in 5..6 PROVE stamp[i] \in Byte
      <4>1. i \in 1..Len(stamp)
        OBVIOUS
      <4> QED BY <4>1, ByteRange DEF Byte
    <3> QED BY <3>2, SubSeqProperties
  <2> QED BY <2>1, <2>2
<1>2. z \in Seq(Byte) /\ Len(z) = 1 /\ z[1] = 10
  BY DEF AirspyPrecision, Byte
<1>3. stamp = x \o y
  <2>1. /\ \A i \in 1..4 : x[i] = stamp[i]
        /\ \A i \in 1..2 : y[i] = stamp[4 + i]
    OBVIOUS
  <2> HIDE DEF x, y
  <2> DEFINE xy == x \o y
  <2>2. /\ xy \in Seq(Byte) /\ Len(xy) = Len(x) + Len(y)
        /\ \A i \in 1..Len(x) : xy[i] = x[i]
        /\ \A i \in 1..Len(y) : xy[Len(x) + i] = y[i]
    BY <1>1, ConcatAt
  <2> HIDE DEF xy
  <2>3. ASSUME NEW i \in 1..6 PROVE xy[i] = stamp[i]
    <3>1. CASE i <= 4
      BY <1>1, <2>1, <2>2, <3>1
    <3>2. CASE i > 4
      <4>1. i - 4 \in 1..2 /\ 4 + (i - 4) = i
        BY <3>2
      <4>2. xy[4 + (i - 4)] = y[i - 4]
        BY <1>1, <2>2, <4>1
      <4>3. y[i - 4] = stamp[4 + (i - 4)]
        BY <2>1, <4>1
      <4> QED BY <4>1, <4>2, <4>3
    <3> QED BY <3>1, <3>2
  <2>4. xy = stamp
    BY <1>1, <2>2, <2>3
  <2> QED BY <2>4 DEF xy
<1> HIDE DEF x, y, z
<1>4. /\ HexText(x) \in Seq(Byte) /\ Len(HexText(x)) = 8 /\ IsHex(HexText(x))
      /\ HexText(y) \in Seq(Byte) /\ Len(HexText(y)) = 4
      /\ HexText(z) \in Seq(Byte) /\ Len(HexText(z)) = 2
  <2>1. HexText(x) \in Seq(Byte) /\ HexText(y) \in Seq(Byte) /\ HexText(z) \in Seq(Byte)
    BY <1>1, <1>2, HexBytes
  <2>2. /\ Len(HexText(x)) = 2 * Len(x) /\ Len(HexText(y)) = 2 * Len(y)
        /\ Len(HexText(z)) = 2 * Len(z)
    BY <1>1, <1>2, HexTextSeq
  <2>3. IsHex(HexText(x))
    BY <1>1, HexBack
  <2> QED BY <1>1, <1>2, <2>1, <2>2, <2>3
<1>5. HexText(z) # <<48, 48>>
  <2>1. HexText(z)[2 * 1] = HexUpper(z[1] % 16)
    BY <1>2, HexTextSeq
  <2>2. HexText(z)[2] = 65
    BY <1>2, <2>1 DEF HexUpper
  <2> QED BY <2>2
<1>6. Unhex(HexText(x) \o HexText(y)) = stamp
  <2>1. HexText(x) \o HexText(y) = HexText(stamp)
    BY <1>1, <1>3, HexConcat
  <2> QED BY <2>1, HexBack
<1> QED BY <1>4, <1>5, <1>6 DEF TimeText, LevelText, PrecText, x, y, z

\* What follows the payload is bytes.
LEMMA AirspyTail ==
  ASSUME NEW stamp \in Seq(Byte), Len(stamp) = 6, NEW eol \in LineEnds, NEW rest \in Seq(Byte)
  PROVE  Stamped(TimeText(stamp), PrecText, LevelText(stamp), eol \o rest) \in Seq(Byte)
<1> DEFINE time == TimeText(stamp)
           level == LevelText(stamp)
           prec == PrecText
           end == eol \o rest
           semi == <<Semicolon>>
           t6 == semi \o end
           t5 == level \o t6
           t4 == semi \o t5
           t3 == prec \o t4
           t2 == semi \o t3
           t1 == time \o t2
<1>1. time \in Seq(Byte) /\ level \in Seq(Byte) /\ prec \in Seq(Byte)
  BY StampTexts
<1>2. semi \in Seq(Byte)
  BY DEF Semicolon, Byte
<1>3. end \in Seq(Byte)
  BY EolAt
<1>4. /\ t6 = semi \o end /\ t5 = level \o t6 /\ t4 = semi \o t5 /\ t3 = prec \o t4
      /\ t2 = semi \o t3 /\ t1 = time \o t2
  OBVIOUS
<1>5. t1 = Stamped(time, prec, level, end)
  BY DEF Stamped
<1> HIDE DEF time, level, prec, end, semi, t1, t2, t3, t4, t5, t6
<1>6. t6 \in Seq(Byte)
  BY <1>2, <1>3, <1>4, JoinLen
<1>7. t5 \in Seq(Byte)
  BY <1>1, <1>4, <1>6, JoinLen
<1>8. t4 \in Seq(Byte)
  BY <1>2, <1>4, <1>7, JoinLen
<1>9. t3 \in Seq(Byte)
  BY <1>1, <1>4, <1>8, JoinLen
<1>10. t2 \in Seq(Byte)
  BY <1>2, <1>4, <1>9, JoinLen
<1>11. t1 \in Seq(Byte)
  BY <1>1, <1>4, <1>10, JoinLen
<1> QED BY <1>5, <1>11 DEF time, level, prec, end

\* What airspy_adsb_parse_packet() makes of a line of the type it is tried for.
AirspyTakes(r, t, payload, stamp, eol, s) ==
  r = Parsed(19 + 2 * Len(payload) + Len(eol), Packet(t, 0, stamp, payload), Stamp(s, stamp))

\* airspy_adsb_parse_packet() takes the packet at the attempt for its own type.
LEMMA AirspyTryRight ==
  ASSUME NEW t \in 1..3, NEW payload \in Seq(Byte), Len(payload) = PayloadLen[t],
         NEW stamp \in Seq(Byte), Len(stamp) = 6,
         NEW eol \in LineEnds, NEW rest \in Seq(Byte), NEW s,
         NEW b, b = AirspyLine(payload, stamp, eol, rest)
  PROVE  AirspyTakes(AirspyTry(b, t, s), t, payload, stamp, eol, s)
<1> DEFINE n == 1 + 2 * PayloadLen[t]
           time == TimeText(stamp)
           level == LevelText(stamp)
           prec == PrecText
           end == eol \o rest
           tail == Stamped(time, prec, level, end)
<1>1. /\ end \in Seq(Byte) /\ Len(eol) \in 1..2 /\ Len(end) = Len(eol) + Len(rest)
      /\ eol \in Seq(Byte) /\ \A i \in 1..Len(eol) : end[i] = eol[i]
  BY EolAt
<1>2. /\ time \in Seq(Byte) /\ Len(time) = 8 /\ IsHex(time)
      /\ level \in Seq(Byte) /\ Len(level) = 4
      /\ prec \in Seq(Byte) /\ Len(prec) = 2 /\ prec # <<48, 48>>
      /\ Unhex(time \o level) = stamp
  BY StampTexts
<1>3. b = Opening(payload) \o tail
  BY DEF AirspyLine
<1>4. tail \in Seq(Byte)
  BY AirspyTail
<1> HIDE DEF time, level, prec, end
<1>5. Typed(b, n, payload, tail)
  <2> HIDE DEF tail
  <2> QED BY <1>3, <1>4, RightType
<1>6. /\ n \in {5, 15, 29} /\ b \in Seq(Byte) /\ Len(b) = n + 1 + Len(tail)
      /\ b[1] = Star /\ b[n + 1] = Semicolon
      /\ IsHex(Bytes(b, 1, n - 1)) /\ Unhex(Bytes(b, 1, n - 1)) = payload
      /\ \A i \in 1..Len(tail) : b[n + 1 + i] = tail[i]
  <2> HIDE DEF tail
  <2> QED BY <1>5, Zenon DEF Typed
<1>7. n \in Nat /\ n + 1 \in Nat /\ n + 18 + Len(eol) = 19 + 2 * Len(payload) + Len(eol)
  <2>1. n = 1 + 2 * Len(payload)
    OBVIOUS
  <2>2. Len(payload) \in Nat /\ Len(eol) \in Nat
    BY <1>1
  <2>3. \A u, v \in Nat : (1 + 2 * u) + 18 + v = 19 + 2 * u + v /\ 1 + 2 * u \in Nat /\ 1 + 2 * u + 1 \in Nat
    OBVIOUS
  <2> HIDE DEF n
  <2> QED BY <2>1, <2>2, <2>3, Zenon
<1> HIDE DEF n
<1>8. Ends(b, n + 1, tail)
  <2> HIDE DEF tail
  <2> QED BY <1>4, <1>6, <1>7 DEF Ends
<1>9. Fields(b, n + 1, time, prec, level, end)
  BY <1>1, <1>2, <1>7, <1>8, FieldsAt
<1>10. /\ n + 1 + 8 = n + 9 /\ n + 1 + 9 = n + 10 /\ n + 1 + 11 = n + 12
       /\ n + 1 + 12 = n + 13 /\ n + 1 + 16 = n + 17 /\ n + 1 + 17 = n + 18
  BY <1>7
<1>11. /\ Bytes(b, n + 1, 8) = time /\ b[n + 9 + 1] = Semicolon
       /\ Bytes(b, n + 10, 2) = prec /\ b[n + 12 + 1] = Semicolon
       /\ Bytes(b, n + 13, 4) = level /\ b[n + 17 + 1] = Semicolon
       /\ Ends(b, n + 18, end)
  BY <1>9, <1>10, Zenon DEF Fields
<1>12. Has(b, n + 18, eol)
  <2>1. n + 18 + Len(eol) = n + 18 + Len(eol)
    OBVIOUS
  <2>2. Ends(b, n + 18, eol \o rest)
    BY <1>11 DEF end
  <2> QED BY <1>1, <2>1, <2>2, Peel
<1>13. LineEnd(b, n + 18) = Len(eol)
  <2>1. /\ n + 18 \in Nat /\ n + 18 + Len(eol) <= Len(b)
        /\ \A i \in 1..Len(eol) : b[n + 18 + i] = eol[i]
    BY <1>7, <1>12 DEF Has
  <2> DEFINE k == n + 18
  <2>2. /\ k \in Nat /\ k + Len(eol) <= Len(b)
        /\ \A i \in 1..Len(eol) : b[k + i] = eol[i]
    BY <2>1
  <2> HIDE DEF k
  <2>3. LineEnd(b, k) = Len(eol)
    BY <1>6, <2>2, LineEndAt
  <2> QED BY <2>3 DEF k
<1>14. LineEnd(b, n + 18) # 0
  BY <1>1, <1>13
<1>15. ~(\E k \in {n, n + 9, n + 12, n + 17} : b[k + 1] # Semicolon)
  BY <1>6, <1>11, Zenon
<1>16. AirspyTry(b, t, s) =
         Parsed(n + 18 + LineEnd(b, n + 18),
                Packet(t, 0, Unhex(Bytes(b, n + 1, 8) \o Bytes(b, n + 13, 4)), Unhex(Bytes(b, 1, n - 1))),
                Stamp(s, Unhex(Bytes(b, n + 1, 8) \o Bytes(b, n + 13, 4))))
  BY <1>2, <1>6, <1>11, <1>14, <1>15, Zenon DEF AirspyTry, n
<1>17. AirspyTry(b, t, s) = Parsed(n + 18 + Len(eol), Packet(t, 0, stamp, payload), Stamp(s, stamp))
  BY <1>2, <1>6, <1>11, <1>13, <1>16, Zenon
<1> QED BY <1>7, <1>17, Zenon DEF AirspyTakes

\* A shorter type finds a digit in the place of the first semicolon.
LEMMA AirspyTryShorter ==
  ASSUME NEW t, NEW u, NEW payload, NEW tail, NEW b, NEW s, Mistyped(t, u, payload, tail, b), u < t
  PROVE  AirspyTry(b, u, s) = Failed(s)
<1> DEFINE n == 1 + 2 * PayloadLen[u]
<1>0. /\ t \in 1..3 /\ u \in 1..3 /\ u # t /\ payload \in Seq(Byte)
      /\ Len(payload) = PayloadLen[t] /\ tail \in Seq(Byte) /\ b = Opening(payload) \o tail
  BY DEF Mistyped
<1>1. \A m : m = 1 + 2 * PayloadLen[u] =>
        /\ u < t => b[m + 1] # Semicolon
        /\ u > t /\ m <= Len(b) => ~IsHex(Bytes(b, 1, m - 1))
  BY <1>0, OtherType, Zenon
<1>2. \E k \in {n, n + 9, n + 12, n + 17} : b[k + 1] # Semicolon
  BY <1>1, Zenon
<1> QED BY <1>2, Zenon DEF AirspyTry

\* The line as it is written.
LEMMA AirspyFrame ==
  ASSUME NEW p, Whole(p), p.stamp \in Seq(Byte), Len(p.stamp) = 6,
         NEW eol \in LineEnds, NEW rest \in Seq(Byte)
  PROVE  /\ AirspySerialize(p, eol) \o rest = AirspyLine(p.payload, p.stamp, eol, rest)
         /\ Len(AirspySerialize(p, eol)) = 19 + 2 * Len(p.payload) + Len(eol)
<1> DEFINE o == Opening(p.payload)
           time == TimeText(p.stamp)
           level == LevelText(p.stamp)
           prec == PrecText
           semi == <<Semicolon>>
           end == eol \o rest
           l1 == o \o time
           l2 == l1 \o semi
           l3 == l2 \o prec
           l4 == l3 \o semi
           l5 == l4 \o level
           l6 == l5 \o semi
           l7 == l6 \o eol
<1>1. /\ time \in Seq(Byte) /\ Len(time) = 8 /\ level \in Seq(Byte) /\ Len(level) = 4
      /\ prec \in Seq(Byte) /\ Len(prec) = 2
  BY StampTexts
<1>2. semi \in Seq(Byte) /\ Len(semi) = 1
  BY DEF Semicolon, Byte
<1>3. eol \in Seq(Byte) /\ end \in Seq(Byte) /\ Len(eol) \in Nat
  BY EolAt
<1>4. o \in Seq(Byte) /\ Len(o) = 2 + 2 * Len(p.payload) /\ Len(p.payload) \in Nat
  <2> DEFINE payload == p.payload
  <2>1. payload \in Seq(Byte)
    BY DEF Whole
  <2> HIDE DEF payload
  <2>2. Opening(payload) \in Seq(Byte) /\ Len(Opening(payload)) = 2 + 2 * Len(payload)
    BY <2>1, OpeningBytes
  <2> QED BY <2>1, <2>2 DEF payload
<1>5. AirspySerialize(p, eol) = l7
  BY DEF AirspySerialize, Opening, TimeText, LevelText, PrecText
<1>6. AirspyLine(p.payload, p.stamp, eol, rest) = o \o Stamped(time, prec, level, end)
  BY DEF AirspyLine
<1>a. o \in Seq(Byte) /\ time \in Seq(Byte) /\ level \in Seq(Byte) /\ prec \in Seq(Byte)
  BY <1>1, <1>4
<1> HIDE DEF o, time, level, prec, semi, end
<1>b. /\ l1 = o \o time /\ l2 = l1 \o semi /\ l3 = l2 \o prec /\ l4 = l3 \o semi
      /\ l5 = l4 \o level /\ l6 = l5 \o semi /\ l7 = l6 \o eol
  OBVIOUS
<1> DEFINE t6 == semi \o end
           t5 == level \o t6
           t4 == semi \o t5
           t3 == prec \o t4
           t2 == semi \o t3
           t1 == time \o t2
<1>c. /\ t6 = semi \o end /\ t5 = level \o t6 /\ t4 = semi \o t5 /\ t3 = prec \o t4
      /\ t2 = semi \o t3 /\ t1 = time \o t2
  OBVIOUS
<1>21. t1 = Stamped(time, prec, level, end)
  BY DEF Stamped, semi
<1> HIDE DEF l1, l2, l3, l4, l5, l6, l7, t1, t2, t3, t4, t5, t6
<1>7. l1 \in Seq(Byte) /\ Len(l1) = Len(o) + Len(time)
  BY <1>a, <1>b, JoinLen
<1>8. l2 \in Seq(Byte) /\ Len(l2) = Len(l1) + Len(semi)
  BY <1>2, <1>7, <1>b, JoinLen
<1>9. l3 \in Seq(Byte) /\ Len(l3) = Len(l2) + Len(prec)
  BY <1>a, <1>8, <1>b, JoinLen
<1>10. l4 \in Seq(Byte) /\ Len(l4) = Len(l3) + Len(semi)
  BY <1>2, <1>9, <1>b, JoinLen
<1>11. l5 \in Seq(Byte) /\ Len(l5) = Len(l4) + Len(level)
  BY <1>a, <1>10, <1>b, JoinLen
<1>12. l6 \in Seq(Byte) /\ Len(l6) = Len(l5) + Len(semi)
  BY <1>2, <1>11, <1>b, JoinLen
<1>13. l7 \in Seq(Byte) /\ Len(l7) = Len(l6) + Len(eol)
  BY <1>3, <1>12, <1>b, JoinLen
<1>14. end \in Seq(Byte) /\ t6 \in Seq(Byte)
  BY <1>2, <1>3, <1>c, JoinLen
<1>15. t5 \in Seq(Byte)
  BY <1>a, <1>14, <1>c, JoinLen
<1>16. t4 \in Seq(Byte)
  BY <1>2, <1>15, <1>c, JoinLen
<1>17. t3 \in Seq(Byte)
  BY <1>a, <1>16, <1>c, JoinLen
<1>18. t2 \in Seq(Byte)
  BY <1>2, <1>17, <1>c, JoinLen
<1>19. /\ Join(l6, eol, l7) /\ Join(l5, semi, l6) /\ Join(l4, level, l5) /\ Join(l3, semi, l4)
       /\ Join(l2, prec, l3) /\ Join(l1, semi, l2) /\ Join(o, time, l1)
  BY <1>a, <1>b, <1>2, <1>3, <1>7, <1>8, <1>9, <1>10, <1>11, <1>12, Zenon DEF Join
<1>20. /\ Join(eol, rest, end) /\ Join(semi, end, t6) /\ Join(level, t6, t5)
       /\ Join(semi, t5, t4) /\ Join(prec, t4, t3) /\ Join(semi, t3, t2) /\ Join(time, t2, t1)
  BY <1>a, <1>c, <1>2, <1>3, <1>14, <1>15, <1>16, <1>17, <1>18, Zenon DEF Join, end
<1>d. /\ Same(l7, rest, l6, end) /\ Same(l6, end, l5, t6) /\ Same(l5, t6, l4, t5)
      /\ Same(l4, t5, l3, t4) /\ Same(l3, t4, l2, t3) /\ Same(l2, t3, l1, t2)
      /\ Same(l1, t2, o, t1)
  BY <1>19, <1>20, Regroup
<1>22. l7 \o rest = o \o Stamped(time, prec, level, end)
  BY <1>d, <1>21, Zenon DEF Same
<1>23. Len(l7) = 19 + 2 * Len(p.payload) + Len(eol)
  BY <1>1, <1>2, <1>3, <1>4, <1>7, <1>8, <1>9, <1>10, <1>11, <1>12, <1>13
<1> QED BY <1>5, <1>6, <1>22, <1>23 DEF l7, o

\* airspy_adsb: what airspy_adsb_serialize() writes for a packet, with either line
\* end and whatever follows it, airspy_adsb_parse() reads as the same packet with
\* the same timestamp and level, consuming its bytes and no others and taking one
\* timestamp into the parser_state.
THEOREM AirspyRoundTrip ==
  ASSUME NEW p, Whole(p), p.stamp \in Seq(Byte), Len(p.stamp) = 6,
         NEW eol \in LineEnds, NEW rest \in Seq(Byte), NEW s
  PROVE  FoundAt(Parse("airspy_adsb", AirspySerialize(p, eol) \o rest, s), "airspy_adsb",
                 Len(AirspySerialize(p, eol)), Packet(p.type, 0, p.stamp, p.payload),
                 Stamp(s, p.stamp))
<1> DEFINE b == AirspySerialize(p, eol) \o rest
           used == Len(AirspySerialize(p, eol))
           t == p.type
           payload == p.payload
           stamp == p.stamp
           packet == Packet(t, 0, stamp, payload)
           r == Parsed(used, packet, Stamp(s, stamp))
           orTry(q, u) == IF q.used > 0 THEN q ELSE AirspyTry(b, u, q.state)
<1>1. b = AirspyLine(payload, stamp, eol, rest) /\ used = 19 + 2 * Len(payload) + Len(eol)
  BY AirspyFrame
<1>2. /\ t \in 1..3 /\ payload \in Seq(Byte) /\ Len(payload) = PayloadLen[t]
      /\ stamp \in Seq(Byte) /\ Len(stamp) = 6
  BY DEF Whole
<1>3. AirspyParse(b, s) = orTry(orTry(AirspyTry(b, 1, s), 2), 3)
  BY DEF AirspyParse, OrElse
<1> SUFFICES FoundAt(Parse("airspy_adsb", b, s), "airspy_adsb", used, packet, Stamp(s, stamp))
  OBVIOUS
<1> HIDE DEF b, used, t, payload, stamp
<1>4. AirspyTry(b, t, s) = r
  <2>1. AirspyTakes(AirspyTry(b, t, s), t, payload, stamp, eol, s)
    BY <1>1, <1>2, AirspyTryRight
  <2> QED BY <1>1, <2>1, Zenon DEF AirspyTakes
<1>5. r.used > 0
  <2>1. Len(eol) \in Nat /\ Len(payload) \in Nat
    BY <1>2, EolAt
  <2>2. used > 0
    BY <1>1, <2>1
  <2> HIDE DEF packet
  <2> QED BY <2>2 DEF Parsed
<1>6. ASSUME NEW u \in 1..3, u < t PROVE AirspyTry(b, u, s) = Failed(s)
  <2> DEFINE tail == Stamped(TimeText(stamp), PrecText, LevelText(stamp), eol \o rest)
  <2>1. b = Opening(payload) \o tail
    BY <1>1 DEF AirspyLine
  <2>2. tail \in Seq(Byte)
    BY <1>2, AirspyTail
  <2> HIDE DEF tail
  <2>3. u # t
    BY <1>2, <1>6
  <2>4. Mistyped(t, u, payload, tail, b)
    BY <1>2, <2>1, <2>2, <2>3 DEF Mistyped
  <2> QED BY <1>6, <2>4, AirspyTryShorter, Zenon
<1>7. Failed(s).used = 0 /\ Failed(s).state = s
  BY DEF Failed
<1> HIDE DEF r
<1>8. \A u : orTry(r, u) = r /\ orTry(Failed(s), u) = AirspyTry(b, u, s)
  BY <1>5, <1>7
<1> HIDE DEF orTry
<1>9. AirspyParse(b, s) = r
  <2>1. CASE t = 1
    <3>1. orTry(AirspyTry(b, 1, s), 2) = r
      BY <1>4, <1>8, <2>1
    <3> QED BY <1>3, <1>8, <3>1
  <2>2. CASE t = 2
    <3>1. AirspyTry(b, 1, s) = Failed(s) /\ AirspyTry(b, 2, s) = r
      BY <1>4, <1>6, <2>2
    <3>2. orTry(AirspyTry(b, 1, s), 2) = r
      BY <1>8, <3>1
    <3> QED BY <1>3, <1>8, <3>2
  <2>3. CASE t = 3
    <3>1. /\ AirspyTry(b, 1, s) = Failed(s) /\ AirspyTry(b, 2, s) = Failed(s)
          /\ AirspyTry(b, 3, s) = r
      BY <1>4, <1>6, <2>3
    <3>2. orTry(AirspyTry(b, 1, s), 2) = Failed(s)
      BY <1>8, <3>1
    <3> QED BY <1>3, <1>8, <3>1, <3>2
  <2> QED BY <1>2, <2>1, <2>2, <2>3
<1> HIDE DEF packet
<1>10. Parse("airspy_adsb", b, s) = [r EXCEPT !.format = "airspy_adsb"]
  BY <1>9, ParseNames
<1> QED BY <1>10, TaggedParsed DEF r

\* A first parser that succeeds is the only one that is tried.
LEMMA FirstTaken ==
  ASSUME NEW b, NEW s, Parse("airspy_adsb", b, s).used > 0
  PROVE  ParserWrapper("auto", b, s) = Parse("airspy_adsb", b, s)
<1> DEFINE r == Parse("airspy_adsb", b, s)
<1>1. Failed(s).used = 0 /\ Failed(s).state = s /\ Parsers[1] = "airspy_adsb"
  BY DEF Failed, Parsers
<1>2. After(Failed(s), 1, b) = r
  BY <1>1, AfterRejected
<1>3. \A i : After(r, i, b) = r
  BY DEF After
<1> HIDE DEF r
<1>4. AutodetectParse(b, s) = r
  BY <1>2, <1>3, AutodetectSteps
<1> QED BY <1>4 DEF ParserWrapper, r

\* airspy_adsb: receive_autodetect_parse() finds the format by that packet.
THEOREM AirspyDetected ==
  ASSUME NEW p, Whole(p), p.stamp \in Seq(Byte), Len(p.stamp) = 6,
         NEW eol \in LineEnds, NEW rest \in Seq(Byte), NEW s
  PROVE  FoundAt(ParserWrapper("auto", AirspySerialize(p, eol) \o rest, s), "airspy_adsb",
                 Len(AirspySerialize(p, eol)), Packet(p.type, 0, p.stamp, p.payload),
                 Stamp(s, p.stamp))
<1> DEFINE b == AirspySerialize(p, eol) \o rest
           r == Parse("airspy_adsb", b, s)
           used == Len(AirspySerialize(p, eol))
           packet == Packet(p.type, 0, p.stamp, p.payload)
<1>1. FoundAt(r, "airspy_adsb", used, packet, Stamp(s, p.stamp))
  BY AirspyRoundTrip
<1>2. used > 0
  <2>1. used = 19 + 2 * Len(p.payload) + Len(eol)
    BY AirspyFrame
  <2>2. Len(p.payload) \in Nat
    BY DEF Whole
  <2>3. Len(eol) \in Nat
    BY EolAt
  <2> HIDE DEF used
  <2> QED BY <2>1, <2>2, <2>3
<1> HIDE DEF b, used, packet
<1>3. r.used > 0
  BY <1>1, <1>2 DEF FoundAt, Found
<1>4. ParserWrapper("auto", b, s) = r
  BY <1>3, FirstTaken
<1>5. FoundAt(ParserWrapper("auto", b, s), "airspy_adsb", used, packet, Stamp(s, p.stamp))
  BY <1>1, <1>4
<1> QED BY <1>5 DEF b, used, packet

-----------------------------------------------------------------------------
(* The packets of beast *)


\* The sequences put together, one after the other.
Put(before, seqs, i) == IF i = 1 THEN seqs[i] ELSE before \o seqs[i]
Flattens(f, seqs, n) == f = [i \in 1..n |-> Put(f[i - 1], seqs, i)]

\* FlattenSeq() puts them together that way.
LEMMA FlattenSteps ==
  ASSUME NEW seqs, NEW n, n = Len(seqs), n \in Nat \ {0}
  PROVE  \E f : Flattens(f, seqs, n) /\ FlattenSeq(seqs) = f[n]
<1> DEFINE f == CHOOSE g : Flattens(g, seqs, n)
<1>1. FlattenSeq(seqs) = f[n]
  BY DEF FlattenSeq, Flattens, Put
<1>2. Flattens(f, seqs, n)
  <2> DEFINE P == {m \in Nat : \E g : Flattens(g, seqs, m)}
  <2>1. 0 \in P
    <3>1. Flattens([i \in 1..0 |-> 0], seqs, 0)
      BY DEF Flattens
    <3> QED BY <3>1
  <2>2. ASSUME NEW m \in P PROVE m + 1 \in P
    <3>1. PICK g : Flattens(g, seqs, m)
      OBVIOUS
    <3> DEFINE h == [i \in 1..m + 1 |-> Put(g[i - 1], seqs, i)]
    <3>2. \A i \in 1..m : h[i] = g[i]
      BY <3>1 DEF Flattens
    <3>3. \A i \in 2..m + 1 : i - 1 \in 1..m /\ h[i - 1] = g[i - 1]
      <4>1. m \in Nat
        OBVIOUS
      <4>2. \A i \in 2..m + 1 : i - 1 \in 1..m
        BY <4>1
      <4> HIDE DEF h
      <4> QED BY <3>2, <4>2
    <3>4. \A i \in 1..m + 1 : Put(g[i - 1], seqs, i) = Put(h[i - 1], seqs, i)
      <4> HIDE DEF h
      <4> SUFFICES ASSUME NEW i \in 1..m + 1 PROVE Put(g[i - 1], seqs, i) = Put(h[i - 1], seqs, i)
        OBVIOUS
      <4>1. CASE i = 1
        BY <4>1 DEF Put
      <4>2. CASE i # 1
        BY <3>3, <4>2
      <4> QED BY <4>1, <4>2
    <3>5. Flattens(h, seqs, m + 1)
      BY <3>4, Zenon DEF Flattens
    <3> QED BY <3>5
  <2>3. P \in SUBSET Nat
    OBVIOUS
  <2>4. n \in P
    <3> HIDE DEF P
    <3> QED BY <2>1, <2>2, <2>3, Reaches
  <2> QED BY <2>4
<1> HIDE DEF f
<1> QED BY <1>1, <1>2

\* What beast_write() writes for byte i of x.
Written(x, i) == IF i > 1 /\ x[i] = ESC THEN <<ESC, ESC>> ELSE <<x[i]>>

\* After i bytes, f[i] has been written.
Writes(f, x) ==
  /\ f[1] = <<x[1]>>
  /\ \A i \in 2..Len(x) : f[i] = f[i - 1] \o Written(x, i)

\* beast_escape() writes the bytes of a packet one after the other.
LEMMA EscapeSteps ==
  ASSUME NEW x \in Seq(Byte), Len(x) > 0
  PROVE  \E f : Writes(f, x) /\ BeastEscape(x) = f[Len(x)]
<1> DEFINE seqs == [i \in DOMAIN x |-> Written(x, i)]
           n == Len(x)
<1>1. BeastEscape(x) = FlattenSeq(seqs)
  BY DEF BeastEscape, Written
<1>2. n \in Nat \ {0} /\ DOMAIN x = 1..n
  OBVIOUS
<1>3. n = Len(seqs)
  BY <1>2
<1>4. \A i \in 1..n : seqs[i] = Written(x, i)
  BY <1>2
<1> HIDE DEF seqs, n
<1>5. PICK f : Flattens(f, seqs, n) /\ FlattenSeq(seqs) = f[n]
  BY <1>2, <1>3, FlattenSteps
<1>6. \A i \in 1..n : f[i] = Put(f[i - 1], seqs, i)
  BY <1>5 DEF Flattens
<1>7. f[1] = <<x[1]>>
  <2>1. f[1] = seqs[1] /\ seqs[1] = Written(x, 1)
    BY <1>2, <1>4, <1>6 DEF Put
  <2>2. Written(x, 1) = <<x[1]>>
    BY DEF Written
  <2> QED BY <2>1, <2>2, Zenon
<1>8. ASSUME NEW i \in 2..n PROVE f[i] = f[i - 1] \o Written(x, i)
  <2>1. i \in 1..n /\ i # 1
    BY <1>2
  <2>2. f[i] = f[i - 1] \o seqs[i]
    BY <1>6, <2>1, Zenon DEF Put
  <2> QED BY <1>4, <2>1, <2>2, Zenon
<1>9. Writes(f, x)
  BY <1>7, <1>8 DEF Writes, n
<1> QED BY <1>1, <1>5, <1>9 DEF n

Follows(f, x, j, k) == f[j] = f[k] \o Written(x, j)

\* What is written of the next byte follows what has been written.
LEMMA WritesNext ==
  ASSUME NEW x, NEW f, Writes(f, x), NEW k, NEW j, j \in 2..Len(x), j - 1 = k
  PROVE  Follows(f, x, j, k)
<1>1. f[j] = f[j - 1] \o Written(x, j)
  BY DEF Writes
<1> QED BY <1>1 DEF Follows

\* One byte is written as one or two, of which the last is itself.
LEMMA WrittenBytes ==
  ASSUME NEW x \in Seq(Byte), NEW i \in 1..Len(x)
  PROVE  /\ Written(x, i) \in Seq(Byte) /\ Len(Written(x, i)) \in 1..2
         /\ Written(x, i)[Len(Written(x, i))] = x[i]
         /\ Written(x, i)[1] = x[i]
         /\ Len(Written(x, i)) = IF i > 1 /\ x[i] = ESC THEN 2 ELSE 1
<1>1. x[i] \in Byte
  OBVIOUS
<1>2. CASE i > 1 /\ x[i] = ESC
  <2>1. Written(x, i) = <<ESC, ESC>>
    BY <1>2 DEF Written
  <2>2. ESC \in Byte
    BY DEF ESC, Byte
  <2> QED BY <1>2, <2>1, <2>2
<1>3. CASE ~(i > 1 /\ x[i] = ESC)
  <2>1. Written(x, i) = <<x[i]>>
    BY <1>3 DEF Written
  <2> QED BY <1>1, <1>3, <2>1
<1> QED BY <1>2, <1>3

\* y is how the buffer begins.
Begins(y, b) ==
  /\ y \in Seq(Byte) /\ b \in Seq(Byte) /\ Len(y) <= Len(b)
  /\ \A i \in 1..Len(y) : b[i] = y[i]

\* What has been written is bytes, at least one for each of x and the last one
\* of them its last.
Kept(y, x, k) == y \in Seq(Byte) /\ Len(y) \in Nat /\ Len(y) >= k /\ y[Len(y)] = x[k]

\* What has been written ends with the last byte that was to be written.
LEMMA WritesBytes ==
  ASSUME NEW x \in Seq(Byte), Len(x) > 0, NEW f, Writes(f, x)
  PROVE  \A k \in 1..Len(x) : Kept(f[k], x, k)
<1> DEFINE P == {m \in Nat : m + 1 \in 1..Len(x) => Kept(f[m + 1], x, m + 1)}
<1>1. 0 \in P
  <2>1. x[1] \in Byte /\ 0 + 1 = 1
    OBVIOUS
  <2>2. <<x[1]>> \in Seq(Byte) /\ Len(<<x[1]>>) = 1 /\ <<x[1]>>[1] = x[1]
    BY <2>1
  <2>3. Kept(<<x[1]>>, x, 1)
    BY <2>2 DEF Kept
  <2>4. Kept(f[0 + 1], x, 0 + 1)
    BY <2>1, <2>3, Zenon DEF Writes
  <2> QED BY <2>4
<1>2. ASSUME NEW m \in P PROVE m + 1 \in P
  <2> DEFINE k == m + 1
             w == Written(x, k + 1)
             y == f[k]
  <2>0. m \in Nat /\ k \in Nat /\ k = m + 1 /\ Len(x) \in Nat
    OBVIOUS
  <2> SUFFICES ASSUME k + 1 \in 1..Len(x) PROVE Kept(f[k + 1], x, k + 1)
    OBVIOUS
  <2>1. k \in 1..Len(x) /\ k + 1 \in 2..Len(x) /\ k + 1 - 1 = k
    BY <2>0
  <2>2. Kept(y, x, k)
    BY <2>1
  <2> HIDE DEF k
  <2>3. f[k + 1] = f[k] \o Written(x, k + 1)
    <3> DEFINE j == k + 1
    <3>1. j \in 2..Len(x) /\ j - 1 = k
      BY <2>1
    <3> HIDE DEF j
    <3>2. Follows(f, x, j, k)
      BY <3>1, WritesNext
    <3> QED BY <3>2, Zenon DEF Follows, j
  <2>4. w \in Seq(Byte) /\ Len(w) \in 1..2 /\ w[Len(w)] = x[k + 1]
    BY WrittenBytes
  <2>5. f[k + 1] = y \o w
    BY <2>3
  <2> HIDE DEF w, y
  <2>6. /\ y \o w \in Seq(Byte) /\ Len(y \o w) = Len(y) + Len(w)
        /\ (y \o w)[Len(y) + Len(w)] = w[Len(w)]
    <3>1. y \in Seq(Byte) /\ Len(w) \in 1..Len(w)
      <4>1. y \in Seq(Byte)
        BY <2>2 DEF Kept
      <4>2. \A v \in 1..2 : v \in 1..v
        OBVIOUS
      <4> QED BY <2>4, <4>1, <4>2, Zenon
    <3> QED BY <2>4, <3>1, ConcatAt
  <2> DEFINE z == y \o w
  <2>7. z \in Seq(Byte) /\ Len(z) = Len(y) + Len(w) /\ z[Len(z)] = x[k + 1]
    BY <2>4, <2>6
  <2>8. f[k + 1] = z
    BY <2>5
  <2> HIDE DEF z
  <2>9. Kept(z, x, k + 1)
    <3>1. Len(y) \in Nat /\ Len(y) >= k
      BY <2>2 DEF Kept
    <3>3. Len(w) \in Nat
      BY <2>4
    <3>4. Len(z) \in Nat /\ Len(z) >= k + 1
      <4> DEFINE u == Len(y)
                 v == Len(w)
      <4>1. /\ u \in Nat /\ u >= k /\ v \in Nat /\ v >= 1 /\ Len(z) = u + v /\ k \in Nat
        <5>1. v >= 1
          <6>1. \A l \in 1..2 : l >= 1
            OBVIOUS
          <6> QED BY <2>4, <6>1, Zenon
        <5>2. Len(z) = u + v
          BY <2>7
        <5> QED BY <2>0, <3>1, <3>3, <5>1, <5>2
      <4> HIDE DEF u, v
      <4> QED BY <4>1
    <3> QED BY <2>7, <3>4, Zenon DEF Kept
  <2> QED BY <2>8, <2>9
<1>3. P \in SUBSET Nat
  OBVIOUS
<1>4. \A m \in Nat : m \in P
  <2> HIDE DEF P
  <2> QED BY <1>1, <1>2, <1>3, Reaches
<1> SUFFICES ASSUME NEW k \in 1..Len(x) PROVE Kept(f[k], x, k)
  OBVIOUS
<1>5. k - 1 \in Nat /\ k - 1 + 1 = k
  OBVIOUS
<1>6. k - 1 \in P
  BY <1>4, <1>5, Zenon
<1> QED BY <1>5, <1>6

\* The packet begins with all that has been written on the way.
LEMMA WritesBegin ==
  ASSUME NEW x \in Seq(Byte), Len(x) > 0, NEW f, Writes(f, x), NEW b, Begins(f[Len(x)], b)
  PROVE  \A k \in 1..Len(x) : Begins(f[k], b)
<1> DEFINE n == Len(x)
           P == {m \in Nat : n - m \in 1..n => Begins(f[n - m], b)}
<1>0. n \in Nat
  OBVIOUS
<1>1. 0 \in P
  <2>1. n - 0 = n
    BY <1>0
  <2> QED BY <2>1
<1>2. ASSUME NEW m \in P PROVE m + 1 \in P
  <2> DEFINE k == n - (m + 1)
             y == f[k]
             w == Written(x, k + 1)
  <2> SUFFICES ASSUME k \in 1..n PROVE Begins(f[k], b)
    OBVIOUS
  <2>1. m \in Nat /\ k + 1 = n - m /\ n - m \in 1..n /\ k + 1 \in 2..n /\ k + 1 - 1 = k
    BY <1>0
  <2>2. Begins(f[k + 1], b)
    BY <2>1
  <2>3. f[k + 1] = y \o w
    <3> HIDE DEF k
    <3> DEFINE j == k + 1
    <3>1. j \in 2..Len(x) /\ j - 1 = k
      BY <2>1
    <3> HIDE DEF j
    <3>2. Follows(f, x, j, k)
      BY <3>1, WritesNext
    <3> QED BY <3>2, Zenon DEF Follows, j
  <2>4. Kept(y, x, k)
    BY WritesBytes
  <2>5. w \in Seq(Byte)
    <3> HIDE DEF k
    <3>1. k + 1 \in 1..Len(x)
      BY <2>1
    <3> QED BY <3>1, WrittenBytes
  <2> DEFINE z == y \o w
  <2>6. Begins(z, b)
    BY <2>2, <2>3
  <2> HIDE DEF k, y, w
  <2>7. y \in Seq(Byte) /\ Len(y) \in Nat /\ Len(w) \in Nat
    BY <2>4, <2>5 DEF Kept
  <2>8. Len(z) = Len(y) + Len(w) /\ \A i \in 1..Len(y) : z[i] = y[i]
    BY <2>5, <2>7, ConcatAt
  <2> HIDE DEF z
  <2>9. /\ b \in Seq(Byte) /\ Len(z) <= Len(b) /\ \A i \in 1..Len(z) : b[i] = z[i]
    BY <2>6 DEF Begins
  <2>10. Len(y) <= Len(b) /\ \A i \in 1..Len(y) : i \in 1..Len(z)
    BY <2>7, <2>8, <2>9
  <2>11. Begins(y, b)
    BY <2>7, <2>8, <2>9, <2>10 DEF Begins
  <2> QED BY <2>11 DEF y
<1>3. P \in SUBSET Nat
  OBVIOUS
<1>4. \A m \in Nat : m \in P
  <2> HIDE DEF P
  <2> QED BY <1>1, <1>2, <1>3, Reaches
<1> SUFFICES ASSUME NEW k \in 1..n PROVE Begins(f[k], b)
  OBVIOUS
<1>5. n - k \in Nat /\ n - (n - k) = k
  BY <1>0
<1>6. n - k \in P
  BY <1>4, <1>5, Zenon
<1> QED BY <1>5, <1>6

Takes(b, y, z) == TakeOne(b, Len(y)) = Len(z)

\* One byte more: where it ends in the buffer.
LEMMA TakeWritten ==
  ASSUME NEW x \in Seq(Byte), NEW k \in 1..Len(x), NEW j \in 2..Len(x), j = k + 1,
         NEW y, Kept(y, x, k), NEW z, z = y \o Written(x, j),
         NEW b, Begins(z, b)
  PROVE  Takes(b, y, z)
<1> DEFINE w == Written(x, j)
           i == Len(y)
<1>1. /\ w \in Seq(Byte) /\ Len(w) \in 1..2 /\ w[1] = x[j] /\ w[Len(w)] = x[j]
      /\ Len(w) = IF x[j] = ESC THEN 2 ELSE 1
  <2>1. j \in 1..Len(x) /\ j > 1
    OBVIOUS
  <2>2. /\ w \in Seq(Byte) /\ Len(w) \in 1..2 /\ w[1] = x[j] /\ w[Len(w)] = x[j]
        /\ Len(w) = IF j > 1 /\ x[j] = ESC THEN 2 ELSE 1
    BY <2>1, WrittenBytes
  <2> QED BY <2>1, <2>2, Zenon
<1>2. z = y \o w
  OBVIOUS
<1> HIDE DEF w
<1>3. y \in Seq(Byte) /\ i \in Nat /\ i >= 1
  BY DEF Kept
<1>4. Len(z) = i + Len(w) /\ \A q \in 1..Len(w) : z[i + q] = w[q]
  <2>1. w \in Seq(Byte) /\ y \in Seq(Byte)
    BY <1>1, <1>3
  <2>2. Joined(y, w, z)
    BY <1>2, <2>1, JoinAt
  <2> QED BY <2>2, Zenon DEF Joined
<1>5. b \in Seq(Byte) /\ Len(b) \in Nat /\ Len(z) <= Len(b) /\ \A q \in 1..Len(z) : b[q] = z[q]
  BY DEF Begins
<1> HIDE DEF i
<1>6. b[i + 1] = x[j] /\ i < Len(b) /\ i \in 1..Len(b) - 1
  <2>1. i + 1 \in 1..Len(z) /\ 1 \in 1..Len(w)
    BY <1>1, <1>3, <1>4
  <2>2. b[i + 1] = w[1]
    BY <1>4, <1>5, <2>1, Zenon
  <2> QED BY <1>1, <1>3, <1>4, <1>5, <2>2
<1>7. CASE x[j] = ESC
  <2>1. Len(w) = 2
    BY <1>1, <1>7
  <2>2. i + 2 \in 1..Len(z) /\ 2 \in 1..Len(w) /\ i # Len(b) - 1
    BY <1>3, <1>4, <1>5, <2>1
  <2>3. b[i + 2] = w[2] /\ w[2] = ESC
    BY <1>1, <1>4, <1>5, <1>7, <2>1, <2>2, Zenon
  <2>4. ~(i = -1 \/ i >= Len(b))
    BY <1>3, <1>5, <1>6
  <2>5. TakeOne(b, i) = i + 2
    BY <1>6, <1>7, <2>2, <2>3, <2>4 DEF TakeOne
  <2> QED BY <1>4, <2>1, <2>5 DEF Takes, i
<1>8. CASE x[j] # ESC
  <2>1. Len(w) = 1
    BY <1>1, <1>8
  <2>2. ~(i = -1 \/ i >= Len(b)) /\ b[i + 1] # ESC
    BY <1>3, <1>5, <1>6, <1>8
  <2>3. TakeOne(b, i) = i + 1
    BY <2>2 DEF TakeOne
  <2> QED BY <1>4, <2>1, <2>3 DEF Takes, i
<1> QED BY <1>7, <1>8

\* The parser finds each byte of x where it has been written.
Unescaped(b, x, frame) ==
  /\ b \in Seq(Byte) /\ frame \in Seq(Byte) /\ Len(frame) >= Len(x) /\ Len(frame) <= Len(b)
  /\ Taken(b, Len(x))[Len(x)] = Len(frame)
  /\ \A k \in 1..Len(x) : b[Taken(b, Len(x))[k]] = x[k]
  /\ b[1] = x[1] /\ (x[2] # ESC => b[2] = x[2])

\* beast_unescape() undoes the escaping, whatever follows the packet.
LEMMA Unescape ==
  ASSUME NEW x \in Seq(Byte), Len(x) > 1, NEW rest \in Seq(Byte),
         NEW frame, frame = BeastEscape(x), NEW b, b = frame \o rest
  PROVE  Unescaped(b, x, frame)
<1> DEFINE n == Len(x)
           taken == Taken(b, n)
<1>0. n \in Nat /\ n > 1 /\ 1 \in 1..n /\ 2 \in 1..n /\ n \in 1..n
  OBVIOUS
<1>1. PICK f : Writes(f, x) /\ frame = f[n]
  BY EscapeSteps
<1>2. \A k \in 1..n : Kept(f[k], x, k)
  BY <1>1, WritesBytes
<1>3. frame \in Seq(Byte) /\ Len(frame) \in Nat /\ Len(frame) >= n
  BY <1>0, <1>1, <1>2 DEF Kept
<1>4. b \in Seq(Byte) /\ Len(b) = Len(frame) + Len(rest) /\ \A i \in 1..Len(frame) : b[i] = frame[i]
  BY <1>3, ConcatAt
<1>5. Len(frame) <= Len(b) /\ Begins(f[n], b)
  BY <1>1, <1>3, <1>4 DEF Begins
<1>6. \A k \in 1..n : Begins(f[k], b)
  <2>1. Begins(f[Len(x)], b) /\ Len(x) > 0
    BY <1>0, <1>5
  <2> QED BY <1>1, <2>1, WritesBegin
<1>7. taken = [k \in 0..n |-> IF k = 0 THEN 0 ELSE TakeOne(b, taken[k - 1])]
  BY <1>0, TakenSteps
<1> HIDE DEF taken
<1>8. \A k \in 1..n : taken[k] = Len(f[k])
  <2> DEFINE P == {m \in Nat : m + 1 \in 1..n => taken[m + 1] = Len(f[m + 1])}
  <2>1. 0 \in P
    <3>1. taken[0] = 0 /\ taken[1] = TakeOne(b, taken[1 - 1]) /\ 1 - 1 = 0 /\ 0 + 1 = 1
      BY <1>0, <1>7
    <3>2. TakeOne(b, 0) = 1
      <4>1. Len(b) \in Nat /\ Len(b) > 0
        BY <1>0, <1>3, <1>4
      <4>2. ~(0 = -1 \/ 0 >= Len(b)) /\ 0 \notin 1..Len(b) - 1
        BY <4>1
      <4> QED BY <4>2 DEF TakeOne
    <3>3. Len(f[1]) = 1
      <4>1. f[1] = <<x[1]>>
        BY <1>1 DEF Writes
      <4> QED BY <4>1
    <3> QED BY <3>1, <3>2, <3>3
  <2>2. ASSUME NEW m \in P PROVE m + 1 \in P
    <3> DEFINE k == m + 1
    <3>0. m \in Nat /\ k = m + 1
      OBVIOUS
    <3> SUFFICES ASSUME k + 1 \in 1..n PROVE taken[k + 1] = Len(f[k + 1])
      OBVIOUS
    <3>1. /\ k \in 1..n /\ k + 1 \in 2..n /\ k + 1 - 1 = k /\ k + 1 \in 0..n /\ k + 1 # 0
      BY <1>0, <3>0
    <3>2. taken[k] = Len(f[k])
      BY <3>1
    <3> HIDE DEF k
    <3>3. f[k + 1] = f[k] \o Written(x, k + 1)
      <4> DEFINE j == k + 1
      <4>1. j \in 2..Len(x) /\ j - 1 = k
        BY <3>1
      <4> HIDE DEF j
      <4>2. Follows(f, x, j, k)
        BY <1>1, <4>1, WritesNext
      <4> QED BY <4>2, Zenon DEF Follows, j
    <3>4. Kept(f[k], x, k) /\ Begins(f[k + 1], b)
      BY <1>2, <1>6, <3>1
    <3>5. TakeOne(b, Len(f[k])) = Len(f[k + 1])
      <4> DEFINE y == f[k]
                 j == k + 1
                 z == f[j]
      <4>1. Kept(y, x, k) /\ Begins(z, b) /\ z = y \o Written(x, j)
        BY <3>3, <3>4
      <4>2. k \in 1..Len(x) /\ j \in 2..Len(x) /\ j = k + 1
        BY <3>1
      <4> HIDE DEF y, z, j
      <4>3. Takes(b, y, z)
        BY <4>1, <4>2, TakeWritten
      <4> QED BY <4>3 DEF Takes, y, z, j
    <3>6. taken[k + 1] = TakeOne(b, taken[k + 1 - 1])
      BY <1>7, <3>1
    <3> QED BY <3>1, <3>2, <3>5, <3>6
  <2>3. P \in SUBSET Nat
    OBVIOUS
  <2>4. \A m \in Nat : m \in P
    <3> HIDE DEF P
    <3> QED BY <2>1, <2>2, <2>3, Reaches
  <2> SUFFICES ASSUME NEW k \in 1..n PROVE taken[k] = Len(f[k])
    OBVIOUS
  <2>5. k - 1 \in Nat /\ k - 1 + 1 = k
    BY <1>0
  <2>6. k - 1 \in P
    BY <2>4, <2>5, Zenon
  <2> QED BY <2>5, <2>6
<1>9. ASSUME NEW k \in 1..n PROVE b[Len(f[k])] = x[k]
  <2> DEFINE y == f[k]
  <2>1. Kept(y, x, k) /\ Begins(y, b) /\ k \in Nat /\ k >= 1
    BY <1>0, <1>2, <1>6
  <2> HIDE DEF y
  <2>2. Len(y) \in 1..Len(y) /\ y[Len(y)] = x[k]
    BY <2>1 DEF Kept
  <2>3. b[Len(y)] = y[Len(y)]
    BY <2>1, <2>2 DEF Begins
  <2> QED BY <2>2, <2>3 DEF y
<1>10. taken[n] = Len(frame) /\ \A k \in 1..n : b[taken[k]] = x[k]
  BY <1>0, <1>1, <1>8, <1>9
<1>11. f[1] = <<x[1]>> /\ Len(f[1]) = 1
  BY <1>1 DEF Writes
<1>12. b[1] = x[1]
  BY <1>0, <1>9, <1>11
<1>13. x[2] # ESC => b[2] = x[2]
  <2> SUFFICES ASSUME x[2] # ESC PROVE Len(f[2]) = 2
    BY <1>0, <1>9
  <2>1. f[2] = f[1] \o Written(x, 2)
    <3>1. f[2] = f[2 - 1] \o Written(x, 2) /\ 2 - 1 = 1
      BY <1>0, <1>1 DEF Writes
    <3> QED BY <3>1
  <2>2. Written(x, 2) = <<x[2]>>
    BY DEF Written
  <2>3. x[1] \in Byte /\ x[2] \in Byte
    BY <1>0
  <2> DEFINE u == <<x[1]>>
             v == <<x[2]>>
             z == f[2]
  <2>4. u \in Seq(Byte) /\ Len(u) = 1 /\ v \in Seq(Byte) /\ Len(v) = 1
    BY <2>3
  <2>5. z = u \o v
    BY <1>11, <2>1, <2>2, Zenon
  <2> HIDE DEF u, v, z
  <2>6. Len(z) = Len(u) + Len(v)
    BY <2>4, <2>5, JoinLen
  <2> QED BY <2>4, <2>6 DEF z
<1> QED BY <1>3, <1>4, <1>5, <1>10, <1>12, <1>13 DEF Unescaped, taken, n

\* What a packet of beast is before it is escaped, and where its parts are in it.
Plain(p) == <<ESC, 48 + p.type>> \o p.stamp \o p.payload

PlainParts(x, t, stamp, payload) ==
  /\ x \in Seq(Byte) /\ Len(x) = 9 + Len(payload) /\ x[1] = ESC /\ x[2] = 48 + t
  /\ SubSeq(x, 3, 9) = stamp /\ SubSeq(x, 10, Len(x)) = payload

\* So they are.
LEMMA PlainAt ==
  ASSUME NEW t \in 1..3, NEW stamp \in Seq(Byte), Len(stamp) = 7, NEW payload \in Seq(Byte),
         NEW x, x = <<ESC, 48 + t>> \o stamp \o payload
  PROVE  PlainParts(x, t, stamp, payload)
<1> DEFINE h == <<ESC, 48 + t>>
           hs == h \o stamp
           sp == stamp \o payload
<1>1. h \in Seq(Byte) /\ Len(h) = 2 /\ h[1] = ESC /\ h[2] = 48 + t
  <2>1. ESC \in Byte /\ 48 + t \in Byte
    BY DEF ESC, Byte
  <2> QED BY <2>1
<1>2. hs = h \o stamp /\ x = hs \o payload /\ sp = stamp \o payload
  OBVIOUS
<1> HIDE DEF h, hs, sp
<1>3. /\ hs \in Seq(Byte) /\ Len(hs) = Len(h) + Len(stamp)
      /\ sp \in Seq(Byte) /\ Len(sp) = Len(stamp) + Len(payload)
  BY <1>1, <1>2, JoinLen
<1>4. x \in Seq(Byte) /\ Len(x) = Len(hs) + Len(payload)
  BY <1>2, <1>3, JoinLen
<1>5. Join(h, stamp, hs) /\ Join(stamp, payload, sp)
  BY <1>1, <1>2 DEF Join
<1>6. Same(hs, payload, h, sp)
  BY <1>5, Regroup
<1>7. x = h \o sp
  BY <1>2, <1>6, Zenon DEF Same
<1>8. Len(x) = 9 + Len(payload) /\ Len(payload) \in Nat
  BY <1>1, <1>3, <1>4
<1>9. Ends(x, 0, h \o sp)
  BY <1>4, <1>7, EndsAll
<1>10. Has(x, 0, h) /\ Ends(x, 2, sp)
  <2>1. 2 = 0 + Len(h)
    BY <1>1
  <2> QED BY <1>1, <1>3, <1>9, <2>1, Peel
<1>11. Has(x, 2, stamp) /\ Ends(x, 9, payload)
  <2>1. 9 = 2 + Len(stamp) /\ Ends(x, 2, stamp \o payload)
    BY <1>2, <1>10
  <2> QED BY <2>1, Peel
<1>12. x[1] = ESC /\ x[2] = 48 + t
  <2>1. x[0 + 1] = h[1] /\ x[0 + 2] = h[2] /\ 0 + 1 = 1 /\ 0 + 2 = 2
    BY <1>1, <1>10 DEF Has
  <2> QED BY <1>1, <2>1
<1>13. SubSeq(x, 3, 9) = stamp
  <2>1. 2 + 1 = 3 /\ 2 + Len(stamp) = 9 /\ Bytes(x, 2, Len(stamp)) = stamp
    BY <1>11 DEF Has
  <2> QED BY <2>1, Zenon DEF Bytes
<1>14. SubSeq(x, 10, Len(x)) = payload
  <2>1. /\ 9 + Len(payload) <= Len(x) /\ \A i \in 1..Len(payload) : x[9 + i] = payload[i]
    BY <1>8, <1>11 DEF Ends
  <2>2. Bytes(x, 9, Len(payload)) = payload
    BY <1>4, <2>1, PartIs
  <2>3. 9 + 1 = 10
    OBVIOUS
  <2> QED BY <1>8, <2>2, <2>3, Zenon DEF Bytes
<1> QED BY <1>4, <1>8, <1>12, <1>13, <1>14 DEF PlainParts

\* What beast_parse() returns of it.
LEMMA BeastParsePlain ==
  ASSUME NEW t \in 1..3, NEW stamp \in Seq(Byte), Len(stamp) = 7,
         NEW payload \in Seq(Byte), Len(payload) = PayloadLen[t],
         NEW x, PlainParts(x, t, stamp, payload), NEW frame, NEW b, Unescaped(b, x, frame), NEW s
  PROVE  BeastParse(b, s) = Parsed(Len(frame), Packet(t, 0, stamp, payload), Stamp(s, stamp))
<1> DEFINE n == 9 + PayloadLen[t]
           taken == Taken(b, n)
           plain == [k \in 1..n |-> b[taken[k]]]
<1>1. /\ x \in Seq(Byte) /\ Len(x) = n /\ x[1] = ESC /\ x[2] = 48 + t
      /\ SubSeq(x, 3, 9) = stamp /\ SubSeq(x, 10, n) = payload
  BY DEF PlainParts
<1>2. /\ frame \in Seq(Byte) /\ Len(frame) >= n /\ b \in Seq(Byte) /\ Len(frame) <= Len(b)
      /\ taken[n] = Len(frame) /\ \A k \in 1..n : b[taken[k]] = x[k]
      /\ b[1] = x[1] /\ (x[2] # ESC => b[2] = x[2])
  <2>1. n = Len(x)
    BY <1>1
  <2> QED BY <2>1, Zenon DEF Unescaped
<1>3. PayloadLen[t] \in Nat /\ n \in Nat /\ n >= 9
  BY PayloadLens
<1>4. plain = x
  <2> HIDE DEF n, taken
  <2>1. x = [k \in 1..n |-> x[k]]
    BY <1>1, <1>3
  <2> QED BY <1>2, <2>1
<1>5. 48 + t # ESC /\ 48 + t - 48 = t /\ t \in Types
  BY DEF ESC, Types, PayloadLen
<1>6. b[1] = ESC /\ b[2] = 48 + t /\ b[2] - 48 = t /\ Len(b) \in Nat /\ Len(b) >= 9
  <2> HIDE DEF n, taken, plain
  <2>1. Len(b) \in Nat /\ Len(frame) \in Nat
    BY <1>2
  <2>2. Len(b) >= 9
    BY <1>2, <1>3, <2>1
  <2>3. b[1] = ESC /\ b[2] = 48 + t
    BY <1>1, <1>2, <1>5
  <2> QED BY <1>5, <2>1, <2>2, <2>3
<1>7. BeastParse(b, s) = BeastPacket(b, t, s)
  <2>1. ~(Len(b) < 9 \/ b[1] # ESC \/ b[2] - 48 \notin Types)
    BY <1>5, <1>6
  <2> QED BY <1>6, <2>1, Zenon DEF BeastParse
<1>8. taken[n] # -1
  <2> HIDE DEF n, taken, plain
  <2>1. Len(frame) \in Nat
    BY <1>2
  <2> QED BY <1>2, <2>1
<1>9. BeastPacket(b, t, s) =
        IF taken[n] = -1 THEN Failed(s)
        ELSE Parsed(taken[n], Packet(t, 0, SubSeq(plain, 3, 9), SubSeq(plain, 10, n)),
                    Stamp(s, SubSeq(plain, 3, 9)))
  BY Zenon DEF BeastPacket
<1> HIDE DEF n, taken, plain
<1> QED BY <1>1, <1>2, <1>4, <1>7, <1>8, <1>9, Zenon

\* How a packet begins in the buffer, and how long it is.
BeastBegins(b, p) ==
  /\ PlainParts(Plain(p), p.type, p.stamp, p.payload)
  /\ Unescaped(b, Plain(p), BeastSerialize(p))

\* beast_serialize() writes a packet so that beast_parse() can take it apart.
LEMMA BeastWritten ==
  ASSUME NEW p, Whole(p), p.stamp \in Seq(Byte), Len(p.stamp) = 7, NEW rest \in Seq(Byte)
  PROVE  BeastBegins(BeastSerialize(p) \o rest, p)
<1> DEFINE frame == BeastSerialize(p)
           b == frame \o rest
           t == p.type
           stamp == p.stamp
           payload == p.payload
           x == Plain(p)
<1>1. /\ t \in 1..3 /\ payload \in Seq(Byte) /\ stamp \in Seq(Byte) /\ Len(stamp) = 7
  BY DEF Whole
<1>2. x = <<ESC, 48 + t>> \o stamp \o payload /\ frame = BeastEscape(x) /\ b = frame \o rest
  BY DEF Plain, BeastSerialize
<1> SUFFICES PlainParts(x, t, stamp, payload) /\ Unescaped(b, x, frame)
  BY DEF BeastBegins
<1> HIDE DEF frame, b, t, stamp, payload, x
<1>3. PlainParts(x, t, stamp, payload)
  BY <1>1, <1>2, PlainAt
<1>4. x \in Seq(Byte) /\ Len(x) > 1
  <2>1. x \in Seq(Byte) /\ Len(x) = 9 + Len(payload)
    BY <1>3 DEF PlainParts
  <2>2. Len(payload) \in Nat
    BY <1>1
  <2> QED BY <2>1, <2>2
<1>5. Unescaped(b, x, frame)
  BY <1>2, <1>4, Unescape
<1> QED BY <1>3, <1>5

\* It is long enough for beast_parse(), and begins with an escape byte.
LEMMA BeastFrame ==
  ASSUME NEW p, Whole(p), p.stamp \in Seq(Byte), Len(p.stamp) = 7, NEW rest \in Seq(Byte)
  PROVE  /\ Len(BeastSerialize(p)) \in Nat /\ Len(BeastSerialize(p)) >= 9
         /\ (BeastSerialize(p) \o rest)[1] = ESC
<1> DEFINE frame == BeastSerialize(p)
           b == frame \o rest
           payload == p.payload
           x == Plain(p)
<1>1. PlainParts(x, p.type, p.stamp, payload) /\ Unescaped(b, x, frame)
  BY BeastWritten DEF BeastBegins
<1>2. Len(payload) \in Nat
  BY DEF Whole
<1> SUFFICES Len(frame) \in Nat /\ Len(frame) >= 9 /\ b[1] = ESC
  OBVIOUS
<1> HIDE DEF frame, b, payload, x
<1>3. Len(x) = 9 + Len(payload) /\ x[1] = ESC
  BY <1>1 DEF PlainParts
<1>4. frame \in Seq(Byte) /\ Len(frame) >= Len(x) /\ b[1] = x[1]
  BY <1>1 DEF Unescaped
<1>5. Len(frame) \in Nat
  BY <1>4
<1> QED BY <1>2, <1>3, <1>4, <1>5

\* beast: what beast_serialize() writes for a packet, whichever of its bytes have to
\* be escaped and whatever follows it, beast_parse() reads as the same packet with
\* the same timestamp and level, consuming its bytes and no others and taking one
\* timestamp into the parser_state.
THEOREM BeastRoundTrip ==
  ASSUME NEW p, Whole(p), p.stamp \in Seq(Byte), Len(p.stamp) = 7, NEW rest \in Seq(Byte), NEW s
  PROVE  FoundAt(Parse("beast", BeastSerialize(p) \o rest, s), "beast", Len(BeastSerialize(p)),
                 Packet(p.type, 0, p.stamp, p.payload), Stamp(s, p.stamp))
<1> DEFINE frame == BeastSerialize(p)
           b == frame \o rest
           t == p.type
           stamp == p.stamp
           payload == p.payload
           x == Plain(p)
           packet == Packet(t, 0, stamp, payload)
           used == Len(frame)
<1>1. /\ t \in 1..3 /\ payload \in Seq(Byte) /\ Len(payload) = PayloadLen[t]
      /\ stamp \in Seq(Byte) /\ Len(stamp) = 7
  BY DEF Whole
<1>2. PlainParts(x, t, stamp, payload) /\ Unescaped(b, x, frame)
  BY BeastWritten DEF BeastBegins
<1> SUFFICES FoundAt(Parse("beast", b, s), "beast", used, packet, Stamp(s, stamp))
  OBVIOUS
<1> HIDE DEF frame, b, t, stamp, payload, x
<1>3. BeastParse(b, s) = Parsed(used, packet, Stamp(s, stamp))
  BY <1>1, <1>2, BeastParsePlain
<1> HIDE DEF packet, used
<1>4. Parse("beast", b, s) = [Parsed(used, packet, Stamp(s, stamp)) EXCEPT !.format = "beast"]
  BY <1>3, ParseNames
<1> QED BY <1>4, TaggedParsed

-----------------------------------------------------------------------------
(* The messages of proto *)

\* What json and proto carry of a packet, and where it is in it.
Carried(p) == <<p.hops>> \o p.stamp \o p.payload

Carries(data, hops, stamp, payload) ==
  /\ data \in Seq(Byte) /\ Len(data) = 3 + Len(payload) /\ data[1] = hops
  /\ SubSeq(data, 2, 3) = stamp /\ SubSeq(data, 4, Len(data)) = payload

\* So they are.
LEMMA CarriedParts ==
  ASSUME NEW hops \in Byte, NEW stamp \in Seq(Byte), Len(stamp) = 2, NEW payload \in Seq(Byte),
         NEW data, data = <<hops>> \o stamp \o payload
  PROVE  Carries(data, hops, stamp, payload)
<1> DEFINE h == <<hops>>
           hs == h \o stamp
           sp == stamp \o payload
<1>1. h \in Seq(Byte) /\ Len(h) = 1 /\ h[1] = hops
  OBVIOUS
<1>2. hs = h \o stamp /\ data = hs \o payload /\ sp = stamp \o payload
  OBVIOUS
<1> HIDE DEF h, hs, sp
<1>3. /\ hs \in Seq(Byte) /\ Len(hs) = Len(h) + Len(stamp)
      /\ sp \in Seq(Byte) /\ Len(sp) = Len(stamp) + Len(payload)
  BY <1>1, <1>2, JoinLen
<1>4. data \in Seq(Byte) /\ Len(data) = Len(hs) + Len(payload)
  BY <1>2, <1>3, JoinLen
<1>5. Join(h, stamp, hs) /\ Join(stamp, payload, sp)
  BY <1>1, <1>2 DEF Join
<1>6. Same(hs, payload, h, sp)
  BY <1>5, Regroup
<1>7. data = h \o sp
  BY <1>2, <1>6, Zenon DEF Same
<1>8. Len(data) = 3 + Len(payload) /\ Len(payload) \in Nat
  BY <1>1, <1>3, <1>4
<1>9. Ends(data, 0, h \o sp)
  BY <1>4, <1>7, EndsAll
<1>10. Has(data, 0, h) /\ Ends(data, 1, sp)
  <2>1. 1 = 0 + Len(h)
    BY <1>1
  <2> QED BY <1>1, <1>3, <1>9, <2>1, Peel
<1>11. Has(data, 1, stamp) /\ Ends(data, 3, payload)
  <2>1. 3 = 1 + Len(stamp) /\ Ends(data, 1, stamp \o payload)
    BY <1>2, <1>10
  <2> QED BY <2>1, Peel
<1>12. data[1] = hops
  <2>1. data[0 + 1] = h[1] /\ 0 + 1 = 1
    BY <1>1, <1>10 DEF Has
  <2> QED BY <1>1, <2>1
<1>13. SubSeq(data, 2, 3) = stamp
  <2>1. 1 + 1 = 2 /\ 1 + Len(stamp) = 3 /\ Bytes(data, 1, Len(stamp)) = stamp
    BY <1>11 DEF Has
  <2> QED BY <2>1, Zenon DEF Bytes
<1>14. SubSeq(data, 4, Len(data)) = payload
  <2>1. /\ 3 + Len(payload) <= Len(data) /\ \A i \in 1..Len(payload) : data[3 + i] = payload[i]
    BY <1>8, <1>11 DEF Ends
  <2>2. Bytes(data, 3, Len(payload)) = payload
    BY <1>4, <2>1, PartIs
  <2>3. 3 + 1 = 4
    OBVIOUS
  <2> QED BY <1>8, <2>2, <2>3, Zenon DEF Bytes
<1> QED BY <1>4, <1>8, <1>12, <1>13, <1>14 DEF Carries

\* A message is its kind and the bytes that it carries.
LEMMA FirstAndRest ==
  ASSUME NEW k \in Byte, NEW x \in Seq(Byte)
  PROVE  <<k>> \o x # <<>> /\ (<<k>> \o x)[1] = k /\ Tail(<<k>> \o x) = x
<1> DEFINE y == <<k>> \o x
<1>1. /\ y \in Seq(Byte) /\ Len(y) = 1 + Len(x) /\ y[1] = k
      /\ \A i \in 1..Len(x) : y[1 + i] = x[i]
  OBVIOUS
<1> HIDE DEF y
<1>2. y # <<>>
  BY <1>1
<1>3. Tail(y) \in Seq(Byte) /\ Len(Tail(y)) = Len(x) /\ \A i \in 1..Len(x) : Tail(y)[i] = y[i + 1]
  BY <1>1, <1>2, HeadTailProperties
<1>4. \A i \in 1..Len(x) : Tail(y)[i] = x[i]
  <2>1. \A i \in 1..Len(x) : i + 1 = 1 + i
    OBVIOUS
  <2> QED BY <1>1, <1>3, <2>1
<1>5. Tail(y) = x
  <2> DEFINE z == Tail(y)
  <2>1. z \in Seq(Byte) /\ Len(z) = Len(x) /\ \A i \in 1..Len(x) : z[i] = x[i]
    BY <1>3, <1>4
  <2> HIDE DEF z
  <2>2. z = x
    BY <2>1
  <2> QED BY <2>2 DEF z
<1> QED BY <1>1, <1>2, <1>5 DEF y

\* proto_unwrap() finds the message that was wrapped.
Wrapped(b, load) ==
  b \in Seq(Byte) /\ Len(b) >= 3 + Len(load) /\ b[1] = FieldOne /\ b[2] = 1 + Len(load)
Unwrapped(m, kind, load) == m = [used |-> 3 + Len(load), body |-> <<kind>> \o load]

\* proto_unwrap() finds a message that was written with its length before it.
LEMMA ProtoUnwrapMessage ==
  ASSUME NEW kind \in Byte, NEW load \in Seq(Byte), Len(load) < 127, NEW rest \in Seq(Byte)
  PROVE  /\ Unwrapped(ProtoUnwrap(ProtoMessage(kind, load) \o rest), kind, load)
         /\ Len(ProtoMessage(kind, load)) = 3 + Len(load)
         /\ Wrapped(ProtoMessage(kind, load) \o rest, load)
<1> DEFINE n == 1 + Len(load)
           one == <<FieldOne>>
           len == <<n>>
           head == one \o len
           k == <<kind>>
           hk == head \o k
           frame == hk \o load
           body == k \o load
           br == body \o rest
           lbr == len \o br
           b == frame \o rest
<1>1. n \in 1..127 /\ n \in Nat /\ n % 128 = n
  <2>1. Len(load) \in Nat
    OBVIOUS
  <2>2. n \in 1..127
    <3>1. \A v \in Nat : v < 127 => 1 + v \in 1..127
      OBVIOUS
    <3> QED BY <2>1, <3>1, Zenon
  <2>3. \A v \in 1..127 : v \in Nat /\ v % 128 = v
    OBVIOUS
  <2> HIDE DEF n
  <2> QED BY <2>2, <2>3
<1>2. ProtoMessage(kind, load) = frame
  BY <1>1 DEF ProtoMessage
<1>3. /\ one \in Seq(Byte) /\ Len(one) = 1 /\ one[1] = FieldOne
      /\ k \in Seq(Byte) /\ Len(k) = 1 /\ k[1] = kind
  BY DEF FieldOne, Byte
<1>4. len \in Seq(Byte) /\ Len(len) = 1 /\ len[1] = n
  <2>1. n \in Byte
    BY <1>1 DEF Byte
  <2> HIDE DEF n
  <2> QED BY <2>1
<1>5. /\ head = one \o len /\ hk = head \o k /\ frame = hk \o load /\ body = k \o load
      /\ br = body \o rest /\ lbr = len \o br /\ b = frame \o rest
  OBVIOUS
<1> SUFFICES /\ ProtoUnwrap(b) = [used |-> 3 + Len(load), body |-> body]
             /\ Len(frame) = 3 + Len(load) /\ Wrapped(b, load)
  BY <1>2 DEF Unwrapped
<1> HIDE DEF one, len, head, k, hk, frame, body, br, lbr, b
<1>6. head \in Seq(Byte) /\ Len(head) = Len(one) + Len(len)
  <2>1. one \in Seq(Byte) /\ len \in Seq(Byte) /\ head = one \o len
    BY <1>3, <1>4, <1>5, Zenon
  <2> QED BY <2>1, JoinLen
<1>7. hk \in Seq(Byte) /\ Len(hk) = Len(head) + Len(k)
  BY <1>3, <1>5, <1>6, JoinLen
<1>8. frame \in Seq(Byte) /\ Len(frame) = Len(hk) + Len(load)
  BY <1>5, <1>7, JoinLen
<1>9. body \in Seq(Byte) /\ Len(body) = Len(k) + Len(load)
  BY <1>3, <1>5, JoinLen
<1>10. br \in Seq(Byte) /\ Len(br) = Len(body) + Len(rest)
  BY <1>5, <1>9, JoinLen
<1>11. lbr \in Seq(Byte) /\ Len(lbr) = Len(len) + Len(br)
  BY <1>4, <1>5, <1>10, JoinLen
<1>12. b \in Seq(Byte) /\ Len(b) = Len(frame) + Len(rest)
  BY <1>5, <1>8, JoinLen
<1>13. b = one \o lbr
  <2>1. Join(head, k, hk) /\ Join(k, load, body) /\ Join(one, len, head) /\ Join(len, br, lbr)
    BY <1>3, <1>4, <1>5, <1>6, <1>10, Zenon DEF Join
  <2>2. Same(hk, load, head, body)
    BY <2>1, Regroup
  <2>3. frame = head \o body
    BY <1>5, <2>2, Zenon DEF Same
  <2>4. Join(head, body, frame) /\ Join(body, rest, br)
    BY <1>5, <1>6, <1>9, <2>3, Zenon DEF Join
  <2>5. Same(frame, rest, head, br) /\ Same(head, br, one, lbr)
    BY <2>1, <2>4, Regroup
  <2> QED BY <1>5, <2>5, Zenon DEF Same
<1>14. Ends(b, 0, one \o lbr)
  BY <1>12, <1>13, EndsAll
<1>15. Has(b, 0, one) /\ Ends(b, 1, lbr)
  <2>1. 1 = 0 + Len(one)
    BY <1>3
  <2> QED BY <1>3, <1>11, <1>14, <2>1, Peel
<1>16. Has(b, 1, len) /\ Ends(b, 2, br)
  <2>1. 2 = 1 + Len(len) /\ Ends(b, 1, len \o br)
    BY <1>4, <1>5, <1>15
  <2> QED BY <1>4, <1>10, <2>1, Peel
<1>17. Has(b, 2, body)
  <2>1. Ends(b, 2, body \o rest)
    BY <1>5, <1>16
  <2>2. 2 + Len(body) = 2 + Len(body)
    OBVIOUS
  <2> QED BY <1>9, <2>1, <2>2, Peel
<1>18. b[1] = FieldOne
  <2>1. b[0 + 1] = one[1] /\ 0 + 1 = 1
    BY <1>3, <1>15 DEF Has
  <2> QED BY <1>3, <2>1
<1>19. b[0 + 2] = n /\ b[2] = n
  <2>1. b[1 + 1] = len[1] /\ 1 + 1 = 2 /\ 0 + 2 = 2
    BY <1>4, <1>16 DEF Has
  <2> QED BY <1>4, <2>1
<1>20. /\ Len(frame) = 3 + Len(load) /\ Len(body) = n /\ Len(b) >= 3 + Len(load)
       /\ Len(load) \in Nat /\ Len(b) \in Nat
  BY <1>3, <1>4, <1>6, <1>7, <1>8, <1>9, <1>12
<1>21. MoreBytes(b) = {0}
  <2> DEFINE last == {i \in 0..3 : Len(b) > i + 1 /\ b[i + 2] < 128}
  <2>1. 0 \in last
    BY <1>1, <1>19, <1>20
  <2>2. \A i \in last : 0 <= i /\ (i <= 0 => i = 0)
    OBVIOUS
  <2>3. MoreBytes(b) = IF last = {} THEN {} ELSE {Min(last)}
    BY DEF MoreBytes
  <2> HIDE DEF last
  <2>4. Min(last) = 0
    BY <2>1, <2>2 DEF Min
  <2> QED BY <2>1, <2>3, <2>4
<1>22. Varint(b, 0) = n
  BY <1>1, <1>19 DEF Varint
<1>23. (CHOOSE i \in {0} : TRUE) = 0
  OBVIOUS
<1>24. SubSeq(b, 0 + 3, 0 + 2 + n) = body
  <2>1. Bytes(b, 2, Len(body)) = body
    BY <1>17 DEF Has
  <2>2. 2 + 1 = 0 + 3 /\ 2 + Len(body) = 0 + 2 + n
    BY <1>1, <1>20
  <2> QED BY <2>1, <2>2, Zenon DEF Bytes
<1>25. 0 + 2 + n = 3 + Len(load) /\ ~(0 + 2 + n > Len(b))
  BY <1>20
<1>27. Wrapped(b, load)
  BY <1>12, <1>18, <1>19, <1>20 DEF Wrapped
<1> HIDE DEF n
<1>26. ProtoUnwrap(b) = [used |-> 0 + 2 + n, body |-> SubSeq(b, 0 + 3, 0 + 2 + n)]
  <2>1. (CHOOSE i \in MoreBytes(b) : TRUE) = 0 /\ MoreBytes(b) # {}
    BY <1>21, <1>23
  <2> QED BY <1>18, <1>22, <1>25, <2>1, Zenon DEF ProtoUnwrap
<1> QED BY <1>20, <1>24, <1>25, <1>26, <1>27

\* What parsed proto and json messages need of a packet.
Sendable(p) ==
  /\ Whole(p) /\ p.hops \in Byte /\ p.stamp \in Seq(Byte) /\ Len(p.stamp) = 2

\* proto: what proto_serialize() writes for a packet, proto_parse() reads, once it
\* has had a header, as the same packet with the same hops, timestamp and level,
\* consuming its bytes and no others whatever follows it.
THEOREM ProtoRoundTrip ==
  ASSUME NEW p, Sendable(p), NEW rest \in Seq(Byte), NEW s, s.header
  PROVE  FoundAt(Parse("proto", ProtoSerialize(p) \o rest, s), "proto", Len(ProtoSerialize(p)),
                 Packet(p.type, p.hops, p.stamp, p.payload), Stamp(s, p.stamp))
<1> DEFINE t == p.type
           payload == p.payload
           stamp == p.stamp
           hops == p.hops
           data == Carried(p)
           frame == ProtoSerialize(p)
           b == frame \o rest
           m == ProtoUnwrap(b)
           packet == Packet(t, hops, stamp, payload)
<1>1. /\ t \in 1..3 /\ payload \in Seq(Byte) /\ Len(payload) = PayloadLen[t]
      /\ hops \in Byte /\ stamp \in Seq(Byte) /\ Len(stamp) = 2
  BY DEF Sendable, Whole
<1>2. data = <<hops>> \o stamp \o payload
  BY DEF Carried
<1>3. frame = ProtoMessage(t, data)
  BY DEF ProtoSerialize, Carried
<1> SUFFICES FoundAt(Parse("proto", b, s), "proto", Len(frame), packet, Stamp(s, stamp))
  OBVIOUS
<1> HIDE DEF t, payload, stamp, hops, data, frame
<1>4. Carries(data, hops, stamp, payload)
  BY <1>1, <1>2, CarriedParts
<1>5. /\ data \in Seq(Byte) /\ Len(data) = 3 + Len(payload) /\ data[1] = hops
      /\ SubSeq(data, 2, 3) = stamp /\ SubSeq(data, 4, Len(data)) = payload
  BY <1>4, Zenon DEF Carries
<1>6. t \in Byte /\ Len(data) < 127
  <2>1. Len(payload) <= 14
    BY <1>1, Lengths
  <2>2. Len(payload) \in Nat
    BY <1>1
  <2>3. Len(data) < 127
    BY <1>5, <2>1, <2>2
  <2> QED BY <1>1, <2>3 DEF Byte
<1>7. m = [used |-> 3 + Len(data), body |-> <<t>> \o data] /\ Len(frame) = 3 + Len(data)
  BY <1>3, <1>5, <1>6, ProtoUnwrapMessage DEF Unwrapped
<1>8. m.used = Len(frame) /\ m.body = <<t>> \o data
  BY <1>7
<1> HIDE DEF m
<1>9. m.body # <<>> /\ m.body[1] = t /\ Tail(m.body) = data
  <2>1. /\ <<t>> \o data # <<>> /\ (<<t>> \o data)[1] = t /\ Tail(<<t>> \o data) = data
    BY <1>5, <1>6, FirstAndRest
  <2> QED BY <1>8, <2>1, Zenon
<1>10. t \notin {Header, OwnHeader} /\ t \in Types
  BY <1>1 DEF Header, OwnHeader, Types, PayloadLen
<1>11. ProtoParse(b, s) = ProtoPacket(Len(frame), t, data, s)
  <2>1. ProtoParse(b, s) = ProtoPacket(m.used, m.body[1], Tail(m.body), s)
    BY <1>9, <1>10 DEF ProtoParse, m
  <2> QED BY <1>8, <1>9, <2>1, Zenon
<1>12. ProtoPacket(Len(frame), t, data, s) = Parsed(Len(frame), packet, Stamp(s, stamp))
  BY <1>1, <1>5, Zenon DEF ProtoPacket
<1> HIDE DEF packet, b
<1>13. Parse("proto", b, s) = [Parsed(Len(frame), packet, Stamp(s, stamp)) EXCEPT !.format = "proto"]
  BY <1>11, <1>12, ParseNames
<1> QED BY <1>13, TaggedParsed

-----------------------------------------------------------------------------
(* The objects of json *)

\* What is least is the minimum.
LEMMA MinIs ==
  ASSUME NEW T \in SUBSET Nat, NEW i \in T, \A j \in T : i <= j
  PROVE  Min(T) = i
<1>1. \A x \in T : (\A j \in T : x <= j) => x = i
  OBVIOUS
<1> QED BY <1>1 DEF Min

\* An object in a buffer, and how much of it json_loadb() and the line end take.
JsonAt(b, kind, text, end) ==
  /\ b \in Seq(Byte) /\ Blank(b, 0) = 0 /\ JsonEnd(b) = end /\ end = 3 + Len(text)
  /\ b[2] = kind /\ SubSeq(b, 3, end - 1) = text /\ end < Len(b) /\ b[end + 1] = LF

\* json_loadb() finds the end of an object that was written, whatever follows it.
LEMMA JsonObjectAt ==
  ASSUME NEW kind \in Byte, kind # CloseBrace, NEW load \in Seq(Byte), NEW rest \in Seq(Byte)
  PROVE  /\ JsonAt(JsonObject(kind, load) \o rest, kind, HexText(load), 3 + 2 * Len(load))
         /\ Len(JsonObject(kind, load)) = 4 + 2 * Len(load)
<1> DEFINE x == <<OpenBrace, kind>>
           h == HexText(load)
           y == <<CloseBrace, LF>>
           xh == x \o h
           frame == xh \o y
           yr == y \o rest
           hyr == h \o yr
           b == frame \o rest
           end == 3 + 2 * Len(load)
<1>1. /\ x \in Seq(Byte) /\ Len(x) = 2 /\ x[1] = OpenBrace /\ x[2] = kind
      /\ y \in Seq(Byte) /\ Len(y) = 2 /\ y[1] = CloseBrace /\ y[2] = LF
  BY DEF OpenBrace, CloseBrace, LF, Byte
<1>2. h \in Seq(Byte) /\ Len(h) = 2 * Len(load) /\ \A i \in 1..Len(h) : h[i] \in HexDigits
  <2>1. h \in Seq(Byte)
    BY HexBytes
  <2>2. h \in Seq(HexDigits) /\ Len(h) = 2 * Len(load)
    BY HexTextSeq
  <2> HIDE DEF h
  <2> QED BY <2>1, <2>2
<1>3. JsonObject(kind, load) = frame
  BY DEF JsonObject
<1>4. xh = x \o h /\ frame = xh \o y /\ yr = y \o rest /\ hyr = h \o yr /\ b = frame \o rest
  OBVIOUS
<1>5. Len(load) \in Nat
  OBVIOUS
<1> SUFFICES JsonAt(b, kind, h, end) /\ Len(frame) = 4 + 2 * Len(load)
  BY <1>3
<1> HIDE DEF x, h, y, xh, frame, yr, hyr, b
<1>6. xh \in Seq(Byte) /\ Len(xh) = Len(x) + Len(h)
  BY <1>1, <1>2, <1>4, JoinLen
<1>7. frame \in Seq(Byte) /\ Len(frame) = Len(xh) + Len(y)
  BY <1>1, <1>4, <1>6, JoinLen
<1>8. yr \in Seq(Byte) /\ Len(yr) = Len(y) + Len(rest)
  BY <1>1, <1>4, JoinLen
<1>9. hyr \in Seq(Byte) /\ Len(hyr) = Len(h) + Len(yr)
  BY <1>2, <1>4, <1>8, JoinLen
<1>10. b \in Seq(Byte) /\ Len(b) = Len(frame) + Len(rest)
  BY <1>4, <1>7, JoinLen
<1>11. b = x \o hyr
  <2>1. Join(xh, y, frame) /\ Join(y, rest, yr) /\ Join(x, h, xh) /\ Join(h, yr, hyr)
    BY <1>1, <1>2, <1>4, <1>6, <1>8, Zenon DEF Join
  <2>2. Same(frame, rest, xh, yr) /\ Same(xh, yr, x, hyr)
    BY <2>1, Regroup
  <2> QED BY <1>4, <2>2, Zenon DEF Same
<1>12. Ends(b, 0, x \o hyr)
  BY <1>10, <1>11, EndsAll
<1>13. Has(b, 0, x) /\ Ends(b, 2, hyr)
  <2>1. 2 = 0 + Len(x)
    BY <1>1
  <2> QED BY <1>1, <1>9, <1>12, <2>1, Peel
<1> DEFINE k == 2 + Len(h)
<1>14. k = 2 + Len(h) /\ k \in Nat /\ k + 1 = end /\ end - 1 = k /\ Len(h) \in Nat
  BY <1>2, <1>5
<1> HIDE DEF k, end
<1>15. Has(b, 2, h) /\ Ends(b, k, yr)
  <2>1. Ends(b, 2, h \o yr)
    BY <1>4, <1>13
  <2> QED BY <1>2, <1>8, <1>14, <2>1, Peel
<1>16. Has(b, k, y)
  <2>1. Ends(b, k, y \o rest)
    BY <1>4, <1>15
  <2> DEFINE m == k + Len(y)
  <2>2. m = k + Len(y)
    OBVIOUS
  <2> HIDE DEF m
  <2> QED BY <1>1, <2>1, <2>2, Peel
<1>17. b[1] = OpenBrace /\ b[2] = kind
  <2>1. b[0 + 1] = x[1] /\ b[0 + 2] = x[2] /\ 0 + 1 = 1 /\ 0 + 2 = 2
    BY <1>1, <1>13 DEF Has
  <2> QED BY <1>1, <2>1
<1>18. b[end] = CloseBrace /\ b[end + 1] = LF
  <2>1. b[k + 1] = y[1] /\ b[k + 2] = y[2] /\ k + 2 = end + 1
    BY <1>1, <1>14, <1>16 DEF Has
  <2> QED BY <1>1, <1>14, <2>1
<1>19. \A i \in 1..Len(h) : b[2 + i] \in HexDigits
  BY <1>2, <1>15 DEF Has
<1>20. /\ Len(frame) = 4 + 2 * Len(load) /\ end \in Nat /\ end < Len(b) /\ end = 3 + Len(h)
       /\ Len(b) \in Nat
  <2>1. Len(frame) = 4 + 2 * Len(load)
    BY <1>1, <1>2, <1>5, <1>6, <1>7
  <2>2. end = 3 + 2 * Len(load)
    BY DEF end
  <2> QED BY <1>2, <1>5, <1>10, <2>1, <2>2
<1>21. SubSeq(b, 3, end - 1) = h
  <2>1. Bytes(b, 2, Len(h)) = h /\ 2 + 1 = 3 /\ 2 + Len(h) = end - 1
    BY <1>14, <1>15 DEF Has
  <2> QED BY <2>1, Zenon DEF Bytes
<1>22. Blank(b, 0) = 0
  <2> DEFINE others == {i \in 0 + 1..Len(b) : b[i] \notin {CR, LF}}
  <2>1. others \in SUBSET Nat /\ 1 \in others /\ \A j \in others : 1 <= j
    BY <1>17, <1>20 DEF OpenBrace, CR, LF
  <2>2. Blank(b, 0) = (IF others = {} THEN Len(b) + 1 ELSE Min(others)) - (0 + 1)
    BY DEF Blank
  <2> HIDE DEF others
  <2>3. Min(others) = 1
    BY <2>1, MinIs
  <2> QED BY <2>1, <2>2, <2>3
<1>23. JsonEnd(b) = end
  <2> DEFINE ends == {i \in 0 + 1..Len(b) : b[i] = CloseBrace}
  <2>1. ends \in SUBSET Nat /\ end \in ends
    BY <1>18, <1>20
  <2>2. ASSUME NEW i \in ends PROVE end <= i
    <3> SUFFICES ASSUME i < end PROVE FALSE
      BY <1>20
    <3>1. i = 1 \/ i = 2 \/ i - 2 \in 1..Len(h)
      BY <1>14, <1>20
    <3>2. b[1] # CloseBrace /\ b[2] # CloseBrace
      BY <1>17 DEF OpenBrace, CloseBrace
    <3>3. CloseBrace \notin HexDigits
      BY DEF CloseBrace, HexDigits
    <3>4. i - 2 \in 1..Len(h) => b[i] \in HexDigits
      <4> DEFINE j == i - 2
      <4>1. 2 + j = i
        OBVIOUS
      <4> HIDE DEF j
      <4>2. j \in 1..Len(h) => b[2 + j] \in HexDigits
        BY <1>19, Zenon
      <4> QED BY <4>1, <4>2, Zenon DEF j
    <3> QED BY <3>1, <3>2, <3>3, <3>4
  <2>3. JsonEnd(b) = IF Len(b) <= 0 \/ b[0 + 1] # OpenBrace \/ ends = {} THEN 0 ELSE Min(ends)
    BY <1>22, Zenon DEF JsonEnd
  <2> HIDE DEF ends
  <2>4. Min(ends) = end
    BY <2>1, <2>2, MinIs
  <2> QED BY <1>17, <1>20, <2>1, <2>3, <2>4
<1> QED BY <1>10, <1>17, <1>18, <1>20, <1>21, <1>22, <1>23 DEF JsonAt

\* There may be no line end.
LEMMA BlankNat ==
  ASSUME NEW b \in Seq(Byte), NEW k \in 0..Len(b)
  PROVE  Blank(b, k) \in Nat
<1> DEFINE others == {i \in k + 1..Len(b) : b[i] \notin {CR, LF}}
<1>1. CASE others = {}
  BY <1>1 DEF Blank
<1>2. CASE others # {}
  <2>1. others \in SUBSET Nat /\ \A i \in others : i \in k + 1..Len(b)
    OBVIOUS
  <2>2. Min(others) \in k + 1..Len(b)
    <3> HIDE DEF others
    <3> QED BY <1>2, <2>1, MinOf
  <2>3. Blank(b, k) = Min(others) - (k + 1)
    BY <1>2 DEF Blank
  <2> HIDE DEF others
  <2> QED BY <2>2, <2>3
<1> QED BY <1>1, <1>2

\* The line end of an object is one of those that follow it.
LEMMA BlankAfter ==
  ASSUME NEW b \in Seq(Byte), NEW k \in Nat, k < Len(b), b[k + 1] = LF
  PROVE  Blank(b, k) = 1 + Blank(b, k + 1) /\ Blank(b, k + 1) \in Int
<1> DEFINE S == {i \in k + 1..Len(b) : b[i] \notin {CR, LF}}
           T == {i \in k + 1 + 1..Len(b) : b[i] \notin {CR, LF}}
           e == IF S = {} THEN Len(b) + 1 ELSE Min(S)
<1>1. S = T
  <2>1. ASSUME NEW i \in S PROVE i \in T
    <3>1. i # k + 1
      OBVIOUS
    <3> QED BY <3>1
  <2>2. ASSUME NEW i \in T PROVE i \in S
    OBVIOUS
  <2> HIDE DEF S, T
  <2> QED BY <2>1, <2>2, Zenon
<1>2. Blank(b, k) = e - (k + 1)
  BY DEF Blank
<1>3. Blank(b, k + 1) = e - (k + 1 + 1)
  BY <1>1 DEF Blank
<1>4. e \in Nat
  <2>1. S \in SUBSET Nat
    OBVIOUS
  <2>2. S # {} => Min(S) \in S
    <3> HIDE DEF S
    <3> QED BY <2>1, MinOf
  <2>3. Len(b) + 1 \in Nat
    OBVIOUS
  <2> HIDE DEF S
  <2>4. CASE S = {}
    BY <2>3, <2>4
  <2>5. CASE S # {}
    BY <2>1, <2>2, <2>5
  <2> QED BY <2>4, <2>5
<1> HIDE DEF e
<1> QED BY <1>2, <1>3, <1>4

\* json: what json_serialize() writes for a packet, json_parse() reads, once it has
\* had a header, as the same packet with the same hops, timestamp and level,
\* consuming its bytes and the line ends after it.
THEOREM JsonRoundTrip ==
  ASSUME NEW p, Sendable(p), NEW rest \in Seq(Byte), NEW s, s.header
  PROVE  LET frame == JsonSerialize(p)
         IN  FoundAt(Parse("json", frame \o rest, s), "json",
                     Len(frame) + Blank(frame \o rest, Len(frame)),
                     Packet(p.type, p.hops, p.stamp, p.payload), Stamp(s, p.stamp))
<1> DEFINE t == p.type
           payload == p.payload
           stamp == p.stamp
           hops == p.hops
           data == Carried(p)
           frame == JsonSerialize(p)
           b == frame \o rest
           n == Len(frame)
           end == 3 + 2 * Len(data)
           used == n + Blank(b, n)
           packet == Packet(t, hops, stamp, payload)
<1>1. /\ t \in 1..3 /\ payload \in Seq(Byte) /\ Len(payload) = PayloadLen[t]
      /\ hops \in Byte /\ stamp \in Seq(Byte) /\ Len(stamp) = 2
  BY DEF Sendable, Whole
<1>2. data = <<hops>> \o stamp \o payload
  BY DEF Carried
<1>3. frame = JsonObject(t, data)
  BY DEF JsonSerialize, Carried
<1> SUFFICES FoundAt(Parse("json", b, s), "json", used, packet, Stamp(s, stamp))
  OBVIOUS
<1> HIDE DEF t, payload, stamp, hops, data, frame
<1>4. Carries(data, hops, stamp, payload)
  BY <1>1, <1>2, CarriedParts
<1>5. /\ data \in Seq(Byte) /\ Len(data) = 3 + Len(payload) /\ data[1] = hops
      /\ SubSeq(data, 2, 3) = stamp /\ SubSeq(data, 4, Len(data)) = payload
  BY <1>4, Zenon DEF Carries
<1>6. t \in Byte /\ t # CloseBrace /\ t \notin {Header, OwnHeader} /\ t \in Types
  BY <1>1 DEF Byte, CloseBrace, Header, OwnHeader, Types, PayloadLen
<1>7. JsonAt(b, t, HexText(data), end) /\ n = 4 + 2 * Len(data)
  BY <1>3, <1>5, <1>6, JsonObjectAt
<1>8. /\ b \in Seq(Byte) /\ Blank(b, 0) = 0 /\ JsonEnd(b) = end
      /\ b[2] = t /\ SubSeq(b, 3, end - 1) = HexText(data) /\ end < Len(b) /\ b[end + 1] = LF
  <2> HIDE DEF b, end
  <2> QED BY <1>7, Zenon DEF JsonAt
<1>9. Len(data) \in Nat /\ end \in Nat /\ end > 0 /\ end + 1 = n
  BY <1>5, <1>7
<1> HIDE DEF b, n, end
<1>10. end + Blank(b, end) = used
  <2>1. Blank(b, end) = 1 + Blank(b, n) /\ Blank(b, n) \in Int
    BY <1>8, <1>9, BlankAfter
  <2> QED BY <1>9, <2>1
<1>11. Unhex(HexText(data)) = data
  BY <1>5, HexBack
<1> HIDE DEF used
<1>12. JsonParse(b, s) = JsonPacket(used, t, data, s)
  <2>1. b[0 + 2] = t /\ SubSeq(b, 0 + 3, end - 1) = HexText(data)
    BY <1>8
  <2>2. JsonParse(b, s) =
          CASE end = 0 -> Failed(s)
            [] end > 0 /\ t \in {Header, OwnHeader} -> JsonHeader(used, t, s)
            [] end > 0 /\ t \in Types -> JsonPacket(used, t, data, s)
            [] OTHER -> Failed(s)
    BY <1>8, <1>10, <1>11, <2>1, Zenon DEF JsonParse
  <2> QED BY <1>6, <1>9, <2>2
<1>13. JsonPacket(used, t, data, s) = Parsed(used, packet, Stamp(s, stamp))
  BY <1>1, <1>5, Zenon DEF JsonPacket
<1> HIDE DEF packet
<1>14. Parse("json", b, s) = [Parsed(used, packet, Stamp(s, stamp)) EXCEPT !.format = "json"]
  BY <1>12, <1>13, ParseNames
<1> QED BY <1>14, TaggedParsed

-----------------------------------------------------------------------------
(* The first frame of beast, json and proto *)

\* What is left when a parser has refused without a trace.
Untouched(r, s) == r.used = 0 /\ r.state = s

\* So it is with a parser that has failed.
LEMMA TaggedUntouched ==
  ASSUME NEW s, NEW f, NEW q, q = Failed(s), NEW r, r = [q EXCEPT !.format = f]
  PROVE  Untouched(r, s)
BY DEF Failed, Untouched

\* Then the next parser is given the parser_state that was there before.
LEMMA AfterUntouched ==
  ASSUME NEW r, NEW s, NEW i, NEW b, Untouched(r, s)
  PROVE  After(r, i, b) = Parse(Parsers[i], b, s)
BY DEF After, Untouched

\* A parser that succeeds is the last one that is tried.
LEMMA AfterTaken ==
  ASSUME NEW r, NEW i, NEW b, r.used > 0
  PROVE  After(r, i, b) = r
BY DEF After

\* airspy_adsb_parse() refuses whatever does not begin with an asterisk.
LEMMA NoStar ==
  ASSUME NEW b, b[1] # Star, NEW s
  PROVE  Untouched(Parse("airspy_adsb", b, s), s)
<1> DEFINE orTry(q, u) == IF q.used > 0 THEN q ELSE AirspyTry(b, u, q.state)
<1>1. \A u : AirspyTry(b, u, s) = Failed(s)
  BY Zenon DEF AirspyTry
<1>2. AirspyParse(b, s) = orTry(orTry(AirspyTry(b, 1, s), 2), 3)
  BY DEF AirspyParse, OrElse
<1>3. Failed(s).used = 0 /\ Failed(s).state = s
  BY DEF Failed
<1>4. \A u : orTry(Failed(s), u) = Failed(s)
  BY <1>1, <1>3
<1> HIDE DEF orTry
<1>5. orTry(AirspyTry(b, 1, s), 2) = Failed(s)
  BY <1>1, <1>4
<1>6. AirspyParse(b, s) = Failed(s)
  BY <1>2, <1>4, <1>5
<1> QED BY <1>6, ParseNames, TaggedUntouched

\* beast_parse() refuses whatever does not begin with an escape byte.
LEMMA NoEscape ==
  ASSUME NEW b, b[1] # ESC, NEW s
  PROVE  Untouched(Parse("beast", b, s), s)
<1>1. BeastParse(b, s) = Failed(s)
  BY Zenon DEF BeastParse
<1> QED BY <1>1, ParseNames, TaggedUntouched

\* The parser_state after a header.
Introduced(s) == [s EXCEPT !.rates = TRUE, !.header = TRUE]

\* json is tried third, and is found if the first byte keeps the others away.
LEMMA ThirdTaken ==
  ASSUME NEW b, b[1] \notin {Star, ESC}, NEW s, NEW r, r = Parse("json", b, s), r.used > 0
  PROVE  ParserWrapper("auto", b, s) = r
<1>1. Parsers[1] = "airspy_adsb" /\ Parsers[2] = "beast" /\ Parsers[3] = "json"
  BY DEF Parsers
<1>2. Untouched(Failed(s), s)
  BY DEF Failed, Untouched
<1> DEFINE r1 == After(Failed(s), 1, b)
           r2 == After(r1, 2, b)
           r3 == After(r2, 3, b)
           r4 == After(r3, 4, b)
<1>3. Untouched(r1, s)
  BY <1>1, <1>2, AfterUntouched, NoStar
<1>4. AutodetectParse(b, s) = After(r4, 5, b)
  BY AutodetectSteps
<1> HIDE DEF r1
<1>5. Untouched(r2, s)
  BY <1>1, <1>3, AfterUntouched, NoEscape
<1> HIDE DEF r2
<1>6. r3 = r
  BY <1>1, <1>5, AfterUntouched
<1> HIDE DEF r3
<1>7. r4 = r
  BY <1>6, AfterTaken
<1> HIDE DEF r4
<1>8. AutodetectParse(b, s) = r
  BY <1>4, <1>7, AfterTaken
<1> QED BY <1>8 DEF ParserWrapper

\* proto is tried fourth, and is found if json_parse() leaves no trace either.
LEMMA FourthTaken ==
  ASSUME NEW b, b[1] \notin {Star, ESC}, NEW s, Untouched(Parse("json", b, s), s),
         NEW r, r = Parse("proto", b, s), r.used > 0
  PROVE  ParserWrapper("auto", b, s) = r
<1>1. /\ Parsers[1] = "airspy_adsb" /\ Parsers[2] = "beast" /\ Parsers[3] = "json"
      /\ Parsers[4] = "proto"
  BY DEF Parsers
<1>2. Untouched(Failed(s), s)
  BY DEF Failed, Untouched
<1> DEFINE r1 == After(Failed(s), 1, b)
           r2 == After(r1, 2, b)
           r3 == After(r2, 3, b)
           r4 == After(r3, 4, b)
<1>3. Untouched(r1, s)
  BY <1>1, <1>2, AfterUntouched, NoStar
<1>4. AutodetectParse(b, s) = After(r4, 5, b)
  BY AutodetectSteps
<1> HIDE DEF r1
<1>5. Untouched(r2, s)
  BY <1>1, <1>3, AfterUntouched, NoEscape
<1> HIDE DEF r2
<1>6. Untouched(r3, s)
  BY <1>1, <1>5, AfterUntouched
<1> HIDE DEF r3
<1>7. r4 = r
  BY <1>1, <1>6, AfterUntouched
<1> HIDE DEF r4
<1>8. AutodetectParse(b, s) = r
  BY <1>4, <1>7, AfterTaken
<1> QED BY <1>8 DEF ParserWrapper

\* json: receive_autodetect_parse() finds the format by the header that
\* json_hello() sends, and the parser_state is ready for packets.
THEOREM JsonHelloDetected ==
  ASSUME NEW rest \in Seq(Byte), NEW s
  PROVE  FoundAt(ParserWrapper("auto", JsonHello \o rest, s), "json",
                 Len(JsonHello) + Blank(JsonHello \o rest, Len(JsonHello)), NoPacket, Introduced(s))
<1> DEFINE b == JsonHello \o rest
           n == Len(JsonHello)
           used == n + Blank(b, n)
           none == <<>>
           r == Parse("json", b, s)
<1>1. none \in Seq(Byte) /\ Len(none) = 0 /\ JsonHello = JsonObject(Header, none)
  BY DEF JsonHello
<1>2. Header \in Byte /\ Header # CloseBrace
  BY DEF Header, CloseBrace, Byte
<1> SUFFICES FoundAt(ParserWrapper("auto", b, s), "json", used, NoPacket, Introduced(s))
  OBVIOUS
<1> HIDE DEF none
<1>3. JsonAt(b, Header, HexText(none), 3 + 2 * Len(none)) /\ n = 4 + 2 * Len(none)
  BY <1>1, <1>2, JsonObjectAt
<1>4. 3 + 2 * Len(none) = 3 /\ 4 + 2 * Len(none) = 4
  BY <1>1
<1>5. /\ b \in Seq(Byte) /\ Blank(b, 0) = 0 /\ JsonEnd(b) = 3 /\ n = 4
      /\ b[2] = Header /\ 3 < Len(b) /\ b[3 + 1] = LF
  <2> HIDE DEF b, n
  <2> QED BY <1>3, <1>4, Zenon DEF JsonAt
<1>6. b[1] = OpenBrace
  <2>1. ~(Len(b) <= 0 \/ b[0 + 1] # OpenBrace)
    <3> HIDE DEF b
    <3>1. JsonEnd(b) # 0
      BY <1>5
    <3> QED BY <1>5, <3>1, Zenon DEF JsonEnd
  <2>2. 0 + 1 = 1
    OBVIOUS
  <2> QED BY <2>1, <2>2, Zenon
<1> HIDE DEF b, n
<1>7. 3 + Blank(b, 3) = used /\ used \in Int /\ used > 0
  <2>1. Blank(b, 3) = 1 + Blank(b, 3 + 1) /\ Blank(b, 3 + 1) \in Int
    BY <1>5, BlankAfter
  <2>2. 3 + Blank(b, 3) \in 0..Len(b)
    BY <1>5, BlankFits
  <2>3. Blank(b, 3) >= 0
    BY <1>5, BlankNat
  <2> QED BY <1>5, <2>1, <2>2, <2>3
<1> HIDE DEF used
<1>8. JsonParse(b, s) = Parsed(used, NoPacket, Introduced(s))
  <2>1. b[0 + 2] = Header
    BY <1>5
  <2>2. JsonParse(b, s) =
          CASE 3 = 0 -> Failed(s)
            [] 3 > 0 /\ Header \in {Header, OwnHeader} -> JsonHeader(used, Header, s)
            [] 3 > 0 /\ Header \in Types
                 -> JsonPacket(used, Header, Unhex(SubSeq(b, 0 + 3, 3 - 1)), s)
            [] OTHER -> Failed(s)
    BY <1>5, <1>7, <2>1, Zenon DEF JsonParse
  <2>3. Header \notin Types /\ Header # OwnHeader
    BY DEF Header, OwnHeader, Types, PayloadLen
  <2>4. JsonParse(b, s) = JsonHeader(used, Header, s)
    BY <2>2, <2>3
  <2> QED BY <2>3, <2>4, Zenon DEF JsonHeader, Introduced
<1>9. FoundAt(r, "json", used, NoPacket, Introduced(s))
  BY <1>8, ParseNames, TaggedParsed
<1>10. b[1] \notin {Star, ESC}
  BY <1>6 DEF OpenBrace, Star, ESC
<1>11. r.used > 0
  BY <1>7, <1>9 DEF FoundAt, Found
<1>12. ParserWrapper("auto", b, s) = r
  BY <1>10, <1>11, ThirdTaken
<1> QED BY <1>9, <1>12

\* proto: receive_autodetect_parse() finds the format by the header that
\* proto_hello() sends, and the parser_state is ready for packets: the
\* parsers tried before it leave no trace.
THEOREM ProtoHelloDetected ==
  ASSUME NEW rest \in Seq(Byte), NEW s
  PROVE  FoundAt(ParserWrapper("auto", ProtoHello \o rest, s), "proto", Len(ProtoHello),
                 NoPacket, Introduced(s))
<1> DEFINE b == ProtoHello \o rest
           load == <<1, 2, 3>>
           n == Len(ProtoHello)
           m == ProtoUnwrap(b)
           r == Parse("proto", b, s)
<1>1. load \in Seq(Byte) /\ Len(load) = 3 /\ ProtoHello = ProtoMessage(Header, load)
  BY DEF ProtoHello, Byte
<1>2. Header \in Byte
  BY DEF Header, Byte
<1>3. /\ b \in Seq(Byte) /\ Len(b) > 1 /\ b[1] = FieldOne /\ b[2] = 4
  <2> HIDE DEF load
  <2>1. Len(load) < 127
    BY <1>1
  <2>2. Wrapped(b, load)
    BY <1>1, <1>2, <2>1, ProtoUnwrapMessage
  <2> HIDE DEF b
  <2> QED BY <1>1, <2>2 DEF Wrapped
<1> SUFFICES FoundAt(ParserWrapper("auto", b, s), "proto", n, NoPacket, Introduced(s))
  OBVIOUS
<1> HIDE DEF load
<1>4. m = [used |-> 3 + Len(load), body |-> <<Header>> \o load] /\ n = 3 + Len(load)
  <2>1. Len(load) < 127
    BY <1>1
  <2> QED BY <1>1, <1>2, <2>1, ProtoUnwrapMessage DEF Unwrapped
<1>5. m.used = n /\ m.body = <<Header>> \o load /\ n = 6
  BY <1>1, <1>4
<1> HIDE DEF b, n, m
<1>6. m.body # <<>> /\ m.body[1] = Header
  <2>1. <<Header>> \o load # <<>> /\ (<<Header>> \o load)[1] = Header
    BY <1>1, <1>2, FirstAndRest
  <2> QED BY <1>5, <2>1, Zenon
<1>7. ProtoParse(b, s) = Parsed(n, NoPacket, Introduced(s))
  <2>1. Header \notin Types /\ Header # OwnHeader
    BY DEF Header, OwnHeader, Types, PayloadLen
  <2>2. ProtoParse(b, s) = ProtoHeader(m.used, m.body[1], s)
    BY <1>6, <2>1 DEF ProtoParse, m
  <2>3. ProtoParse(b, s) = ProtoHeader(n, Header, s)
    BY <1>5, <1>6, <2>2, Zenon
  <2>4. [[s EXCEPT !.rates = TRUE] EXCEPT !.header = TRUE] = Introduced(s)
    BY DEF Introduced
  <2> QED BY <2>1, <2>3, <2>4, Zenon DEF ProtoHeader
<1>8. FoundAt(r, "proto", n, NoPacket, Introduced(s))
  BY <1>7, ParseNames, TaggedParsed
<1>9. Untouched(Parse("json", b, s), s)
  <2> DEFINE others == {i \in 0 + 1..Len(b) : b[i] \notin {CR, LF}}
  <2>1. others \in SUBSET Nat /\ 2 \in others /\ 1 \notin others
    BY <1>3 DEF FieldOne, CR, LF
  <2>2. \A j \in others : 2 <= j
    BY <2>1
  <2>3. Blank(b, 0) = (IF others = {} THEN Len(b) + 1 ELSE Min(others)) - (0 + 1)
    BY DEF Blank
  <2> HIDE DEF others
  <2>4. Min(others) = 2
    BY <2>1, <2>2, MinIs
  <2>5. Blank(b, 0) = 1
    BY <2>1, <2>3, <2>4
  <2>6. b[1 + 1] # OpenBrace
    BY <1>3 DEF OpenBrace
  <2>7. JsonEnd(b) = 0
    BY <2>5, <2>6, Zenon DEF JsonEnd
  <2>8. JsonParse(b, s) = Failed(s)
    BY <2>7 DEF JsonParse
  <2>9. Parse("json", b, s) = [JsonParse(b, s) EXCEPT !.format = "json"]
    BY ParseNames
  <2> QED BY <2>8, <2>9, TaggedUntouched
<1>10. b[1] \notin {Star, ESC}
  BY <1>3 DEF FieldOne, Star, ESC
<1>11. r.used > 0
  BY <1>5, <1>8 DEF FoundAt, Found
<1>12. ParserWrapper("auto", b, s) = r
  BY <1>9, <1>10, <1>11, FourthTaken
<1> QED BY <1>8, <1>12

\* beast is tried second, and is found if there is no asterisk.
LEMMA SecondTaken ==
  ASSUME NEW b, b[1] # Star, NEW s, NEW r, r = Parse("beast", b, s), r.used > 0
  PROVE  ParserWrapper("auto", b, s) = r
<1>1. Parsers[1] = "airspy_adsb" /\ Parsers[2] = "beast"
  BY DEF Parsers
<1>2. Untouched(Failed(s), s)
  BY DEF Failed, Untouched
<1> DEFINE r1 == After(Failed(s), 1, b)
           r2 == After(r1, 2, b)
           r3 == After(r2, 3, b)
           r4 == After(r3, 4, b)
<1>3. Untouched(r1, s)
  BY <1>1, <1>2, AfterUntouched, NoStar
<1>4. AutodetectParse(b, s) = After(r4, 5, b)
  BY AutodetectSteps
<1> HIDE DEF r1
<1>5. r2 = r
  BY <1>1, <1>3, AfterUntouched
<1> HIDE DEF r2
<1>6. r3 = r
  BY <1>5, AfterTaken
<1> HIDE DEF r3
<1>7. r4 = r
  BY <1>6, AfterTaken
<1> HIDE DEF r4
<1>8. AutodetectParse(b, s) = r
  BY <1>4, <1>7, AfterTaken
<1> QED BY <1>8 DEF ParserWrapper

\* beast: receive_autodetect_parse() finds the format by a packet, which
\* airspy_adsb_parse() refuses without a trace.
THEOREM BeastDetected ==
  ASSUME NEW p, Whole(p), p.stamp \in Seq(Byte), Len(p.stamp) = 7, NEW rest \in Seq(Byte), NEW s
  PROVE  FoundAt(ParserWrapper("auto", BeastSerialize(p) \o rest, s), "beast",
                 Len(BeastSerialize(p)), Packet(p.type, 0, p.stamp, p.payload), Stamp(s, p.stamp))
<1> DEFINE b == BeastSerialize(p) \o rest
           r == Parse("beast", b, s)
           used == Len(BeastSerialize(p))
           packet == Packet(p.type, 0, p.stamp, p.payload)
<1>1. FoundAt(r, "beast", used, packet, Stamp(s, p.stamp))
  BY BeastRoundTrip
<1>2. used \in Nat /\ used >= 9 /\ b[1] = ESC
  BY BeastFrame
<1> SUFFICES FoundAt(ParserWrapper("auto", b, s), "beast", used, packet, Stamp(s, p.stamp))
  OBVIOUS
<1> HIDE DEF b, used, packet
<1>3. r.used > 0
  BY <1>1, <1>2 DEF FoundAt, Found
<1>4. b[1] # Star
  BY <1>2 DEF ESC, Star
<1>5. ParserWrapper("auto", b, s) = r
  BY <1>3, <1>4, SecondTaken
<1> QED BY <1>1, <1>5

-----------------------------------------------------------------------------
(* Random bytes: the inductive invariant *)

Slots == 0..(BufLen - 1)

\* What is not consumed reaches to the end of the buffer, or there is nothing.
Window == rand_start + rand_length = BufLen \/ (rand_start = 0 /\ rand_length = 0)

\* The bytes in the buffer are different ones, and all that is anywhere has
\* been read from urandom.
Distinct ==
  /\ \A j, k \in Slots : bytes[j] = bytes[k] => j = k
  /\ \A k \in Slots : bytes[k] < reads
  /\ served \cup value \subseteq 0..(reads - 1)

\* A byte that is not consumed was not handed out, unless it was drained.
Fresh == \A k \in Slots : k >= rand_start /\ bytes[k] \in served \cup value => bytes[k] \in drained

RandInv == RandTypeOK /\ Window /\ Distinct /\ Fresh /\ RepeatsOnlyDrained

-----------------------------------------------------------------------------
(* Random bytes: steps *)

\* rand_init().
LEMMA RandInitInv == RandInit => RandInv
<1> SUFFICES ASSUME RandInit PROVE RandInv
  OBVIOUS
<1>1. RandTypeOK /\ Window
  BY RandAssumption DEF RandInit, RandTypeOK, Window
<1>2. Distinct /\ Fresh /\ RepeatsOnlyDrained
  <2>1. BufLen \in Nat /\ \A k \in Slots : k \in Nat /\ k < BufLen /\ bytes[k] = k
    BY RandAssumption DEF RandInit, Slots
  <2> QED BY <2>1 DEF RandInit, Distinct, Fresh, RepeatsOnlyDrained
<1> QED BY <1>1, <1>2 DEF RandInv

\* What is taken from the buffer was not handed out before, unless drained.
LEMMA FromBufferInv ==
  ASSUME RandInv, NEW size \in Sizes, FillFromBuffer(size)
  PROVE  RandInv'
<1> USE DEF RandInv
<1>1. /\ size \in Nat /\ size > 0 /\ size <= rand_length /\ rand_start + rand_length = BufLen
      /\ BufLen \in Nat /\ rand_start \in Nat /\ rand_length \in Nat /\ reads \in Nat
  BY RandAssumption DEF FillFromBuffer, RandTypeOK, Window
<1>2. /\ UNCHANGED <<bytes, reads>> /\ served' = served \cup value
      /\ value' = {bytes[k] : k \in rand_start..(rand_start + size - 1)}
      /\ rand_start..(rand_start + size - 1) \subseteq Slots
  BY <1>1 DEF FillFromBuffer, Slots
<1>3. RandTypeOK' /\ Window'
  <2>1. /\ rand_length' = rand_length - size
        /\ rand_start' = IF rand_length - size > 0 THEN rand_start + size ELSE 0
    BY DEF FillFromBuffer, BufConsume
  <2>2. /\ rand_start' \in 0..(BufLen - 1) /\ rand_length' \in 0..BufLen /\ rand_start' + rand_length' <= BufLen
        /\ Window'
    BY <1>1, <2>1 DEF Window
  <2> QED BY <1>2, <2>2 DEF RandTypeOK
<1>4. Distinct'
  <2>1. value' \subseteq 0..(reads - 1)
    <3> SUFFICES ASSUME NEW k \in rand_start..(rand_start + size - 1) PROVE bytes[k] \in 0..(reads - 1)
      BY <1>2
    <3>1. k \in Slots /\ bytes[k] \in Nat
      BY <1>2 DEF RandTypeOK, Slots
    <3> QED BY <1>1, <3>1 DEF Distinct
  <2> QED BY <1>2, <2>1 DEF Distinct
<1>5. drained \subseteq drained'
  BY DEF FillFromBuffer
<1>6. RepeatsOnlyDrained'
  <2> SUFFICES ASSUME NEW k \in rand_start..(rand_start + size - 1), bytes[k] \in served \cup value
               PROVE  bytes[k] \in drained'
    BY <1>2 DEF RepeatsOnlyDrained
  <2>1. k \in Slots /\ k >= rand_start
    BY <1>1, <1>2
  <2> QED BY <1>5, <2>1 DEF Fresh
<1>7. Fresh'
  <2> SUFFICES ASSUME NEW k \in Slots, k >= rand_start', bytes[k] \in served \cup value \cup value'
               PROVE  bytes[k] \in drained'
    BY <1>2 DEF Fresh
  <2>1. CASE size = rand_length
    BY <1>1, <2>1 DEF FillFromBuffer, Slots
  <2>2. CASE size < rand_length
    <3>1. rand_start' = rand_start + size
      BY <1>1, <2>2 DEF FillFromBuffer, BufConsume
    <3>2. \A j \in rand_start..(rand_start + size - 1) : j \in Slots /\ j # k
      BY <1>1, <1>2, <3>1 DEF Slots
    <3>3. bytes[k] \notin value'
      BY <1>2, <3>2 DEF Distinct
    <3>4. k >= rand_start
      BY <1>1, <3>1 DEF Slots
    <3> QED BY <1>5, <3>3, <3>4 DEF Fresh
  <2> QED BY <1>1, <2>1, <2>2
<1> QED BY <1>3, <1>4, <1>6, <1>7

\* What is read from urandom is new, in the buffer as in the caller's value.
LEMMA FromUrandomInv ==
  ASSUME RandInv, NEW size \in Sizes, FillFromUrandom(size)
  PROVE  RandInv'
<1> USE DEF RandInv
<1>1. /\ size \in Nat /\ size > 0 /\ reads \in Nat /\ rand_start \in Nat /\ BufLen \in Nat
      /\ rand_start < BufLen
  BY RandAssumption DEF RandTypeOK
<1>2. /\ value' = (reads + rand_start)..(reads + rand_start + size - 1)
      /\ reads' = reads + rand_start + size /\ served' = served \cup value
      /\ rand_start' = 0 /\ rand_length' = BufLen /\ drained' = drained
  BY DEF FillFromUrandom
<1>3. /\ bytes' \in [Slots -> Nat]
      /\ \A k \in Slots : (bytes')[k] = IF k < rand_start THEN reads + k ELSE bytes[k]
      /\ \A k \in Slots : k \in Nat /\ bytes[k] \in Nat /\ bytes[k] < reads
  BY <1>1 DEF FillFromUrandom, RandTypeOK, Slots, Distinct
<1>4. RandTypeOK' /\ Window'
  BY <1>1, <1>2, <1>3 DEF RandTypeOK, Window, Slots
<1>5. \A v \in served \cup value : v \in Nat /\ v < reads
  BY <1>1 DEF Distinct
<1>6. Distinct'
  <2>1. \A j, k \in Slots : (bytes')[j] = (bytes')[k] => j = k
    BY <1>1, <1>3 DEF Distinct
  <2>2. \A k \in Slots : (bytes')[k] < reads'
    BY <1>1, <1>2, <1>3
  <2>3. ASSUME NEW v \in (served \cup value)' PROVE v \in 0..(reads' - 1)
    <3>1. CASE v \in served \cup value
      BY <1>1, <1>2, <1>5, <3>1
    <3>2. CASE v \in (reads + rand_start)..(reads + rand_start + size - 1)
      BY <1>1, <1>2, <3>2
    <3> QED BY <1>2, <3>1, <3>2
  <2> QED BY <2>1, <2>2, <2>3 DEF Distinct
<1>7. Fresh'
  <2> SUFFICES ASSUME NEW k \in Slots, (bytes')[k] \in served \cup value \cup value'
               PROVE  (bytes')[k] \in drained
    BY <1>2 DEF Fresh
  <2>1. (bytes')[k] \notin value'
    BY <1>1, <1>2, <1>3
  <2>2. ~(k < rand_start)
    BY <1>1, <1>3, <1>5, <2>1
  <2> QED BY <1>1, <1>3, <2>1, <2>2 DEF Fresh
<1>8. RepeatsOnlyDrained'
  BY <1>1, <1>2, <1>5 DEF RepeatsOnlyDrained
<1> QED BY <1>4, <1>6, <1>7, <1>8

\* Every call keeps the invariant.
LEMMA RandNextInv == RandInv /\ [RandNext]_rand_vars => RandInv'
<1> SUFFICES ASSUME RandInv, [RandNext]_rand_vars PROVE RandInv'
  OBVIOUS
<1>1. ASSUME UNCHANGED rand_vars PROVE RandInv'
  BY <1>1 DEF rand_vars, RandInv, RandTypeOK, Window, Distinct, Fresh, RepeatsOnlyDrained
<1> QED BY <1>1, FromBufferInv, FromUrandomInv DEF RandNext, Exhausted

-----------------------------------------------------------------------------
(* Random bytes: theorems *)

\* The invariant of rand_buf.
THEOREM RandInvariant == RandSpec => []RandInv
BY RandInitInv, RandNextInv, PTL DEF RandSpec

\* The buffer is never read beyond its end.
THEOREM RandTypeCorrect == RandSpec => []RandTypeOK
BY RandInvariant, PTL DEF RandInv

\* rand_fill() repeats a byte only after a request that drained the buffer
\* exactly (rand.c:41), whatever the sizes of the buffer and of the requests.
THEOREM NothingElseRepeats == RandSpec => []RepeatsOnlyDrained
BY RandInvariant, PTL DEF RandInv

-----------------------------------------------------------------------------
(* Streams of frames *)

StateAt(s, i) ==
  LET introduced == \E j \in 1..i : s.frames[j].packet = NoPacket
  IN  [rates |-> introduced, header |-> introduced, stamps |-> StampsOf(s)[i]]

Known(s, i) == IF i = 0 THEN "auto" ELSE s.format

\* What the parsers make of the bytes from a to q of the wire, when i frames have
\* been taken.
Made(s, i, a, q, st) == ParserWrapper(Known(s, i), SubSeq(s.wire, a + 1, q), st)

\* A frame is there: it is taken, and the line end after it if that is there.
NextTaken(r, s, i, a, q) ==
  /\ r.used = (IF q < FrameEnds(s)[i + 1] THEN q ELSE FrameEnds(s)[i + 1]) - a
  /\ r.format = s.format /\ r.packet = s.frames[i + 1].packet /\ r.state = StateAt(s, i + 1)

\* The next frame is not (all) there: nothing is taken, and without a trace.
NextAwaited(r, s, i) == r.used = 0 /\ r.state = StateAt(s, i)

\* Nothing is understood: nothing is taken, now or later.
IsState(st) == st = [rates |-> st.rates, header |-> st.header, stamps |-> st.stamps]

NextStrange(r, s, i) == r.used = 0 /\ IsState(r.state) /\ r.state.header = StateAt(s, i).header

Frames(s, i, a, q) ==
  LET made == Made(s, i, a, q, StateAt(s, i))
      last == i = s.good
  IN  /\ ~last /\ q >= DueAt(s, i + 1) => NextTaken(made, s, i, a, q)
      /\ ~last /\ q < DueAt(s, i + 1) => NextAwaited(made, s, i)
      /\ last /\ s.good = Len(s.frames) => NextAwaited(made, s, i)
      /\ last /\ s.good # Len(s.frames) =>
           \A st : IsState(st) /\ st.header = StateAt(s, i).header
                     => NextStrange(Made(s, i, a, q, st), s, i)

\* The wire has the bytes of the frames.
Spelled(s) ==
  /\ Len(s.wire) = FrameEnds(s)[Len(s.frames)]
  /\ \A i \in 1..Len(s.frames) : \A k \in 1..Len(s.frames[i].bytes) :
       s.wire[FrameEnds(s)[i - 1] + k] = s.frames[i].bytes[k]

\* The wire is one frame after the other.
Laid(s) ==
  /\ s.wire \in Seq(Byte) /\ Len(s.frames) \in Nat /\ s.good \in 0..Len(s.frames)
  /\ \A i \in 1..Len(s.frames) :
       s.frames[i].bytes \in Seq(Byte) /\ s.frames[i].due \in 1..Len(s.frames[i].bytes)
  /\ Spelled(s)

\* A stream in which each frame, by itself, is what it is said to be, wherever
\* the reads cut it, and fits in the buffer.
Framed(s) ==
  /\ Laid(s)
  /\ \A i \in 1..s.good : /\ DueAt(s, i) <= DueAt(s, i - 1) + BufLenMax
                          /\ FrameEnds(s)[i] < DueAt(s, i) + BufLenMax
  /\ \A i \in 0..s.good : \A a \in DueAt(s, i)..FrameEnds(s)[i] :
       \A q \in a + 1..a + BufLenMax : q <= Len(s.wire) => Frames(s, i, a, q)

\* Each frame begins where the one before it ends.
LEMMA EndsSteps ==
  ASSUME NEW s, Len(s.frames) \in Nat
  PROVE  /\ FrameEnds(s)[0] = 0
         /\ \A i \in 1..Len(s.frames) : FrameEnds(s)[i] = FrameEnds(s)[i - 1] + Len(s.frames[i].bytes)
<1> DEFINE n == Len(s.frames)
           Is(g, m) == g = [i \in 0..m |-> IF i = 0 THEN 0 ELSE g[i - 1] + Len(s.frames[i].bytes)]
           f == CHOOSE g : Is(g, n)
<1>1. FrameEnds(s) = f
  BY DEF FrameEnds
<1> HIDE DEF n
<1>2. Is(f, n)
  <2> DEFINE P == {m \in Nat : \E g : Is(g, m)}
  <2>1. 0 \in P
    <3>1. Is([i \in 0..0 |-> 0], 0)
      OBVIOUS
    <3> QED BY <3>1
  <2>2. ASSUME NEW m \in P PROVE m + 1 \in P
    <3>1. PICK g : Is(g, m)
      OBVIOUS
    <3> DEFINE h == [i \in 0..m + 1 |-> IF i = 0 THEN 0 ELSE g[i - 1] + Len(s.frames[i].bytes)]
    <3>2. \A i \in 0..m : h[i] = g[i]
      BY <3>1
    <3>3. \A i \in 1..m + 1 : i - 1 \in 0..m /\ h[i - 1] = g[i - 1]
      <4>1. \A i \in 1..m + 1 : i - 1 \in 0..m
        OBVIOUS
      <4> HIDE DEF h
      <4> QED BY <3>2, <4>1
    <3>4. \A i \in 0..m + 1 : (IF i = 0 THEN 0 ELSE g[i - 1] + Len(s.frames[i].bytes))
                                = (IF i = 0 THEN 0 ELSE h[i - 1] + Len(s.frames[i].bytes))
      <4> HIDE DEF h
      <4> QED BY <3>3
    <3>5. Is(h, m + 1)
      BY <3>4, Zenon
    <3>6. m + 1 \in Nat
      OBVIOUS
    <3> QED BY <3>5, <3>6, Zenon
  <2>3. P \in SUBSET Nat
    OBVIOUS
  <2>4. n \in P
    <3>1. n \in Nat
      BY DEF n
    <3> HIDE DEF P
    <3> QED BY <2>1, <2>2, <2>3, <3>1, Reaches
  <2> QED BY <2>4
<1>3. n \in Nat
  BY DEF n
<1> HIDE DEF f
<1>4. f[0] = 0 /\ \A i \in 1..n : f[i] = f[i - 1] + Len(s.frames[i].bytes)
  BY <1>2, <1>3
<1> QED BY <1>1, <1>4 DEF n

\* Each frame adds its packet.
LEMMA PacketsSteps ==
  ASSUME NEW s, Len(s.frames) \in Nat
  PROVE  /\ PacketsOf(s)[0] = <<>>
         /\ \A i \in 1..Len(s.frames) : PacketsOf(s)[i] = Forward(PacketsOf(s)[i - 1], s.frames[i].packet)
<1> DEFINE n == Len(s.frames)
           Is(g, m) == g = [i \in 0..m |-> IF i = 0 THEN <<>> ELSE Forward(g[i - 1], s.frames[i].packet)]
           f == CHOOSE g : Is(g, n)
<1>1. PacketsOf(s) = f
  BY DEF PacketsOf
<1> HIDE DEF n
<1>2. Is(f, n)
  <2> DEFINE P == {m \in Nat : \E g : Is(g, m)}
  <2>1. 0 \in P
    <3>1. Is([i \in 0..0 |-> <<>>], 0)
      OBVIOUS
    <3> QED BY <3>1
  <2>2. ASSUME NEW m \in P PROVE m + 1 \in P
    <3>1. PICK g : Is(g, m)
      OBVIOUS
    <3> DEFINE h == [i \in 0..m + 1 |-> IF i = 0 THEN <<>> ELSE Forward(g[i - 1], s.frames[i].packet)]
    <3>2. \A i \in 0..m : h[i] = g[i]
      BY <3>1
    <3>3. \A i \in 1..m + 1 : i - 1 \in 0..m /\ h[i - 1] = g[i - 1]
      <4>1. \A i \in 1..m + 1 : i - 1 \in 0..m
        OBVIOUS
      <4> HIDE DEF h
      <4> QED BY <3>2, <4>1
    <3>4. \A i \in 0..m + 1 : (IF i = 0 THEN <<>> ELSE Forward(g[i - 1], s.frames[i].packet))
                                = (IF i = 0 THEN <<>> ELSE Forward(h[i - 1], s.frames[i].packet))
      <4> HIDE DEF h
      <4> QED BY <3>3
    <3>5. Is(h, m + 1)
      BY <3>4, Zenon
    <3>6. m + 1 \in Nat
      OBVIOUS
    <3> QED BY <3>5, <3>6, Zenon
  <2>3. P \in SUBSET Nat
    OBVIOUS
  <2>4. n \in P
    <3>1. n \in Nat
      BY DEF n
    <3> HIDE DEF P
    <3> QED BY <2>1, <2>2, <2>3, <3>1, Reaches
  <2> QED BY <2>4
<1>3. n \in Nat
  BY DEF n
<1> HIDE DEF f
<1>4. f[0] = <<>> /\ \A i \in 1..n : f[i] = Forward(f[i - 1], s.frames[i].packet)
  BY <1>2, <1>3
<1> QED BY <1>1, <1>4 DEF n

\* Each frame adds its timestamp.
LEMMA StampsSteps ==
  ASSUME NEW s, Len(s.frames) \in Nat
  PROVE  /\ StampsOf(s)[0] = <<>>
         /\ \A i \in 1..Len(s.frames) : StampsOf(s)[i] = TakeStamp(StampsOf(s)[i - 1], s.frames[i].packet)
<1> DEFINE n == Len(s.frames)
           Is(g, m) == g = [i \in 0..m |-> IF i = 0 THEN <<>> ELSE TakeStamp(g[i - 1], s.frames[i].packet)]
           f == CHOOSE g : Is(g, n)
<1>1. StampsOf(s) = f
  BY DEF StampsOf
<1> HIDE DEF n
<1>2. Is(f, n)
  <2> DEFINE P == {m \in Nat : \E g : Is(g, m)}
  <2>1. 0 \in P
    <3>1. Is([i \in 0..0 |-> <<>>], 0)
      OBVIOUS
    <3> QED BY <3>1
  <2>2. ASSUME NEW m \in P PROVE m + 1 \in P
    <3>1. PICK g : Is(g, m)
      OBVIOUS
    <3> DEFINE h == [i \in 0..m + 1 |-> IF i = 0 THEN <<>> ELSE TakeStamp(g[i - 1], s.frames[i].packet)]
    <3>2. \A i \in 0..m : h[i] = g[i]
      BY <3>1
    <3>3. \A i \in 1..m + 1 : i - 1 \in 0..m /\ h[i - 1] = g[i - 1]
      <4>1. \A i \in 1..m + 1 : i - 1 \in 0..m
        OBVIOUS
      <4> HIDE DEF h
      <4> QED BY <3>2, <4>1
    <3>4. \A i \in 0..m + 1 : (IF i = 0 THEN <<>> ELSE TakeStamp(g[i - 1], s.frames[i].packet))
                                = (IF i = 0 THEN <<>> ELSE TakeStamp(h[i - 1], s.frames[i].packet))
      <4> HIDE DEF h
      <4> QED BY <3>3
    <3>5. Is(h, m + 1)
      BY <3>4, Zenon
    <3>6. m + 1 \in Nat
      OBVIOUS
    <3> QED BY <3>5, <3>6, Zenon
  <2>3. P \in SUBSET Nat
    OBVIOUS
  <2>4. n \in P
    <3>1. n \in Nat
      BY DEF n
    <3> HIDE DEF P
    <3> QED BY <2>1, <2>2, <2>3, <3>1, Reaches
  <2> QED BY <2>4
<1>3. n \in Nat
  BY DEF n
<1> HIDE DEF f
<1>4. f[0] = <<>> /\ \A i \in 1..n : f[i] = TakeStamp(f[i - 1], s.frames[i].packet)
  BY <1>2, <1>3
<1> QED BY <1>1, <1>4 DEF n

\* Frames are in order and do not overlap, and each is decided before it ends.
InOrder(s) ==
  /\ \A i \in 0..Len(s.frames) :
       FrameEnds(s)[i] \in Nat /\ DueAt(s, i) \in Nat /\ DueAt(s, i) <= FrameEnds(s)[i]
  /\ \A i, j \in 0..Len(s.frames) : i < j => FrameEnds(s)[i] < DueAt(s, j)

\* So it is on every wire that is one frame after the other.
LEMMA FramesInOrder ==
  ASSUME NEW s, Laid(s)
  PROVE  InOrder(s)
<1> DEFINE n == Len(s.frames)
           E == FrameEnds(s)
           len(i) == Len(s.frames[i].bytes)
           due(i) == s.frames[i].due
           D(i) == DueAt(s, i)
<1>1. n \in Nat /\ \A i \in 1..n : len(i) \in Nat /\ due(i) \in 1..len(i)
  BY DEF Laid
<1>2. E[0] = 0 /\ \A i \in 1..n : E[i] = E[i - 1] + len(i)
  BY <1>1, EndsSteps
<1>3. D(0) = 0 /\ \A i \in 1..n : D(i) = E[i - 1] + due(i)
  BY <1>1 DEF DueAt
<1> SUFFICES /\ \A i \in 0..n : E[i] \in Nat /\ D(i) \in Nat /\ D(i) <= E[i]
             /\ \A i, j \in 0..n : i < j => E[i] < D(j)
  BY DEF InOrder
<1> HIDE DEF n, E, len, due, D
<1>4. \A i \in 0..n : E[i] \in Nat
  <2> DEFINE P == {m \in Nat : m \in 0..n => E[m] \in Nat}
  <2>1. 0 \in P
    BY <1>2
  <2>2. ASSUME NEW m \in P PROVE m + 1 \in P
    <3>1. m + 1 \in 0..n => m + 1 \in 1..n /\ m + 1 - 1 = m /\ m \in 0..n
      BY <1>1
    <3>2. m + 1 \in 0..n => E[m + 1] = E[m] + len(m + 1) /\ len(m + 1) \in Nat
      BY <1>1, <1>2, <3>1
    <3> QED BY <3>1, <3>2
  <2>3. P \in SUBSET Nat
    OBVIOUS
  <2>4. \A m \in Nat : m \in P
    <3> HIDE DEF P
    <3> QED BY <2>1, <2>2, <2>3, Reaches
  <2> QED BY <1>1, <2>4
<1>5. \A i \in 1..n : E[i - 1] < D(i) /\ D(i) <= E[i] /\ D(i) \in Nat
  <2> SUFFICES ASSUME NEW i \in 1..n PROVE E[i - 1] < D(i) /\ D(i) <= E[i] /\ D(i) \in Nat
    OBVIOUS
  <2>1. i - 1 \in 0..n /\ E[i - 1] \in Nat
    BY <1>1, <1>4
  <2>2. E[i] = E[i - 1] + len(i) /\ D(i) = E[i - 1] + due(i) /\ len(i) \in Nat /\ due(i) \in 1..len(i)
    BY <1>1, <1>2, <1>3
  <2> QED BY <2>1, <2>2
<1>6. \A i \in 0..n : D(i) \in Nat /\ D(i) <= E[i]
  BY <1>1, <1>2, <1>3, <1>5
<1>7. ASSUME NEW i \in 0..n PROVE \A j \in 0..n : i <= j => E[i] <= E[j]
  <2> DEFINE P == {m \in Nat : i + m \in 0..n => E[i] <= E[i + m]}
  <2>0. i \in Nat /\ E[i] \in Nat
    BY <1>1, <1>4
  <2>1. 0 \in P
    <3>1. i + 0 = i
      BY <2>0
    <3> QED BY <2>0, <3>1
  <2>2. ASSUME NEW m \in P PROVE m + 1 \in P
    <3> SUFFICES ASSUME i + (m + 1) \in 0..n PROVE E[i] <= E[i + (m + 1)]
      OBVIOUS
    <3> DEFINE k == i + m
               l == i + (m + 1)
    <3>1. k \in 0..n /\ l \in 1..n /\ l - 1 = k
      BY <1>1, <2>0
    <3>2. E[i] <= E[k]
      BY <3>1
    <3> HIDE DEF k, l
    <3>3. E[k] \in Nat /\ E[l] \in Nat /\ E[k] < D(l) /\ D(l) <= E[l] /\ D(l) \in Nat
      BY <1>1, <1>4, <1>5, <3>1
    <3>4. E[i] <= E[l]
      BY <2>0, <3>2, <3>3
    <3> QED BY <3>4 DEF l
  <2>3. P \in SUBSET Nat
    OBVIOUS
  <2>4. \A m \in Nat : m \in P
    <3> HIDE DEF P
    <3> QED BY <2>1, <2>2, <2>3, Reaches
  <2> SUFFICES ASSUME NEW j \in 0..n, i <= j PROVE E[i] <= E[j]
    OBVIOUS
  <2>5. j - i \in Nat /\ i + (j - i) = j
    BY <1>1, <2>0
  <2>6. j - i \in P
    BY <2>4, <2>5, Zenon
  <2> QED BY <2>5, <2>6
<1>8. ASSUME NEW i \in 0..n, NEW j \in 0..n, i < j PROVE E[i] < D(j)
  <2>1. j \in 1..n /\ j - 1 \in 0..n /\ i <= j - 1
    BY <1>1, <1>8
  <2>2. E[i] <= E[j - 1] /\ E[j - 1] < D(j) /\ E[i] \in Nat /\ E[j - 1] \in Nat /\ D(j) \in Nat
    BY <1>4, <1>5, <1>7, <2>1
  <2> QED BY <2>2
<1> QED BY <1>4, <1>6, <1>8

Shaped(s) ==
  /\ s.wire \in Seq(Byte) /\ Len(s.frames) \in Nat /\ s.good \in 0..Len(s.frames)
  /\ InOrder(s) /\ BufLenMax \in Nat \ {0}

\* So is a stream that is framed.
LEMMA FramedShape ==
  ASSUME NEW s, Framed(s)
  PROVE  Shaped(s)
<1>1. s.wire \in Seq(Byte) /\ Len(s.frames) \in Nat /\ s.good \in 0..Len(s.frames)
  BY DEF Framed, Laid
<1>2. InOrder(s)
  BY FramesInOrder DEF Framed
<1> QED BY <1>1, <1>2, ReceiveAssumption DEF Shaped

\* How many frames have come.
LEMMA CameAll ==
  ASSUME NEW s, Framed(s), NEW i \in 0..s.good, NEW q \in Nat, DueAt(s, i) <= q,
         i < s.good => q < DueAt(s, i + 1)
  PROVE  Cardinality({j \in 1..s.good : DueAt(s, j) <= q}) = i
<1> DEFINE D(j) == DueAt(s, j)
           E == FrameEnds(s)
           n == Len(s.frames)
           g == s.good
           T == {j \in 1..g : D(j) <= q}
<1>1. n \in Nat /\ g \in 0..n /\ i \in 0..g
  BY DEF Framed, Laid
<1>2. /\ \A k \in 0..n : E[k] \in Nat /\ D(k) \in Nat /\ D(k) <= E[k]
      /\ \A k, l \in 0..n : k < l => E[k] < D(l)
  BY FramesInOrder DEF InOrder, Framed
<1>3. D(i) <= q /\ (i < g => q < D(i + 1))
  OBVIOUS
<1> SUFFICES Cardinality(T) = i
  OBVIOUS
<1> HIDE DEF D, E, n, g
<1>4. ASSUME NEW j \in 1..g PROVE D(j) <= q <=> j <= i
  <2>1. j \in 0..n /\ i \in 0..n
    BY <1>1
  <2>2. CASE j <= i
    <3>1. D(j) <= D(i)
      <4>1. CASE j = i
        BY <1>2, <2>1, <4>1
      <4>2. CASE j < i
        <5>1. D(j) <= E[j] /\ E[j] < D(i) /\ D(j) \in Nat /\ E[j] \in Nat /\ D(i) \in Nat
          BY <1>2, <2>1, <4>2
        <5> QED BY <5>1
      <4> QED BY <1>1, <2>2, <4>1, <4>2
    <3>2. D(j) \in Nat /\ D(i) \in Nat
      BY <1>2, <2>1
    <3> QED BY <1>3, <2>2, <3>1, <3>2
  <2>3. CASE j > i
    <3>1. i < g /\ i + 1 \in 0..n /\ i + 1 <= j
      BY <1>1, <2>3
    <3>2. D(i + 1) <= D(j)
      <4> DEFINE k == i + 1
      <4>1. k \in 0..n /\ k <= j
        BY <3>1
      <4> HIDE DEF k
      <4>2. CASE k = j
        <5>1. D(j) \in Nat
          BY <1>2, <2>1
        <5>2. D(k) <= D(j)
          BY <4>2, <5>1
        <5> QED BY <5>2 DEF k
      <4>3. CASE k < j
        <5>1. D(k) <= E[k] /\ E[k] < D(j) /\ D(j) \in Nat /\ E[k] \in Nat /\ D(k) \in Nat
          BY <1>2, <2>1, <4>1, <4>3
        <5> QED BY <5>1 DEF k
      <4>4. k \in Int /\ j \in Int
        BY <1>1, <4>1
      <4> QED BY <4>1, <4>2, <4>3, <4>4 DEF k
    <3>3. D(i + 1) \in Nat /\ D(j) \in Nat
      BY <1>2, <2>1, <3>1
    <3> QED BY <1>3, <2>3, <3>1, <3>2, <3>3
  <2> QED BY <1>1, <2>2, <2>3
<1>5. T = 1..i
  BY <1>1, <1>4
<1>6. Cardinality(1..i) = i
  <2>1. i \in Nat
    BY <1>1
  <2>2. Cardinality(1..i) = IF 1 > i THEN 0 ELSE i - 1 + 1
    BY <2>1, FS_Interval
  <2> QED BY <2>1, <2>2
<1> HIDE DEF T
<1> QED BY <1>5, <1>6, Zenon

\* Sequences that agree everywhere.
LEMMA SameBytes ==
  ASSUME NEW x \in Seq(Byte), NEW y \in Seq(Byte), Len(x) = Len(y), \A k \in 1..Len(x) : x[k] = y[k]
  PROVE  x = y
OBVIOUS

\* What is left of a part of the wire when its first bytes are consumed.
LEMMA CutAgain ==
  ASSUME NEW w \in Seq(Byte), NEW a \in Nat, NEW q \in Nat, a <= q, q <= Len(w),
         NEW u \in 0..q - a, NEW x, x = SubSeq(w, a + 1, q)
  PROVE  /\ x \in Seq(Byte) /\ Len(x) = q - a
         /\ SubSeq(x, u + 1, Len(x)) = SubSeq(w, a + u + 1, q)
<1>1. x \in Seq(Byte) /\ Len(x) = q - a /\ \A k \in 1..q - a : x[k] = w[a + k]
  BY SMTT(30)
<1> DEFINE y == SubSeq(x, u + 1, Len(x))
           z == SubSeq(w, a + u + 1, q)
           m == q - a - u
<1>2. m \in Nat
  OBVIOUS
<1>3. y \in Seq(Byte) /\ Len(y) = m /\ \A k \in 1..m : y[k] = x[u + k]
  <2>1. u + 1 \in 1..Len(x) + 1 /\ Len(x) \in Nat /\ Len(x) = u + m
    BY <1>1
  <2> QED BY <1>1, <1>2, <2>1, SMTT(30)
<1>4. z \in Seq(Byte) /\ Len(z) = m /\ \A k \in 1..m : z[k] = w[a + u + k]
  <2>1. a + u \in Nat /\ a + u <= q /\ q - (a + u) = m
    OBVIOUS
  <2> QED BY <1>2, <2>1, SMTT(30)
<1>5. \A k \in 1..m : x[u + k] = w[a + u + k]
  <2> SUFFICES ASSUME NEW k \in 1..m PROVE x[u + k] = w[a + u + k]
    OBVIOUS
  <2>1. u + k \in 1..q - a /\ a + (u + k) = a + u + k
    OBVIOUS
  <2> QED BY <1>1, <2>1
<1> HIDE DEF y, z, m
<1>6. y = z
  <2>1. Len(y) = Len(z) /\ \A k \in 1..Len(y) : y[k] = z[k]
    BY <1>2, <1>3, <1>4, <1>5
  <2> QED BY <1>3, <1>4, <2>1, SameBytes
<1> QED BY <1>1, <1>6 DEF y, z

-----------------------------------------------------------------------------
(* The loop along a stream *)

\* The parser_state after i frames; a frame that is not understood may leave a
\* trace in it.
StateFits(st, s, i) ==
  IF i < s.good \/ s.good = Len(s.frames) THEN st = StateAt(s, i)
  ELSE IsState(st) /\ st.header = StateAt(s, i).header

\* A call has taken i frames and has the bytes from a to q in the buffer.
Along(r, s, i, a, q) ==
  /\ i \in 0..s.good /\ a \in DueAt(s, i)..FrameEnds(s)[i]
  /\ q \in a..a + BufLenMax /\ q <= Len(s.wire)
  /\ r.buf = SubSeq(s.wire, a + 1, q) /\ r.parser = Known(s, i)
  /\ r.sent = PacketsOf(s)[i] /\ StateFits(r.state, s, i)

\* No other frame is there.
Settled(s, i, q) == i < s.good => q < DueAt(s, i + 1)

\* What the parsers make of what is in the buffer.
Outcome(p, s, i, a, q) ==
  \/ i < s.good /\ q >= DueAt(s, i + 1) /\ NextTaken(p, s, i, a, q)
  \/ Settled(s, i, q) /\ p.used = 0 /\ StateFits(p.state, s, i)

\* They take the next frame if it is there, and otherwise nothing.
LEMMA ParserOutcome ==
  ASSUME NEW s, Framed(s), NEW r, NEW i, NEW a, NEW q, Along(r, s, i, a, q), q > a,
         NEW p, p = ParserWrapper(r.parser, r.buf, r.state)
  PROVE  Outcome(p, s, i, a, q)
<1>1. /\ i \in 0..s.good /\ a \in DueAt(s, i)..FrameEnds(s)[i] /\ q <= Len(s.wire)
      /\ q \in a..a + BufLenMax
  BY DEF Along
<1>2. p = Made(s, i, a, q, r.state)
  BY DEF Along, Made
<1>3. InOrder(s) /\ Len(s.frames) \in Nat /\ s.good \in 0..Len(s.frames) /\ i \in 0..Len(s.frames)
  BY <1>1, FramedShape DEF Shaped
<1>4. DueAt(s, i) \in Nat /\ FrameEnds(s)[i] \in Nat
  BY <1>3 DEF InOrder
<1>5. a \in Nat /\ q \in Nat /\ BufLenMax \in Nat
  BY <1>1, <1>4, ReceiveAssumption
<1>6. Frames(s, i, a, q)
  <2>1. q \in a + 1..a + BufLenMax
    BY <1>1, <1>5
  <2> QED BY <1>1, <2>1 DEF Framed
<1>7. CASE i < s.good /\ q >= DueAt(s, i + 1)
  <2>1. r.state = StateAt(s, i)
    BY <1>7 DEF Along, StateFits
  <2>2. NextTaken(Made(s, i, a, q, StateAt(s, i)), s, i, a, q)
    BY <1>6, <1>7, <1>1, <1>3 DEF Frames
  <2> QED BY <1>2, <1>7, <2>1, <2>2 DEF Outcome
<1>8. CASE i < s.good /\ q < DueAt(s, i + 1)
  <2>1. r.state = StateAt(s, i)
    BY <1>8 DEF Along, StateFits
  <2>2. NextAwaited(Made(s, i, a, q, StateAt(s, i)), s, i)
    BY <1>6, <1>8, <1>1, <1>3 DEF Frames
  <2>3. p.used = 0 /\ p.state = StateAt(s, i)
    BY <1>2, <2>1, <2>2 DEF NextAwaited
  <2> QED BY <1>8, <2>3 DEF Outcome, Settled, StateFits
<1>9. CASE i = s.good /\ s.good = Len(s.frames)
  <2>0. ~(i < s.good)
    BY <1>3, <1>9
  <2>1. r.state = StateAt(s, i)
    BY <1>9 DEF Along, StateFits
  <2>2. NextAwaited(Made(s, i, a, q, StateAt(s, i)), s, i)
    BY <1>6, <1>9, <2>0 DEF Frames
  <2>3. p.used = 0 /\ p.state = StateAt(s, i)
    BY <1>2, <2>1, <2>2 DEF NextAwaited
  <2> QED BY <1>9, <2>0, <2>3 DEF Outcome, Settled, StateFits
<1>10. CASE i = s.good /\ s.good # Len(s.frames)
  <2>0. ~(i < s.good)
    BY <1>3, <1>10
  <2>1. IsState(r.state) /\ r.state.header = StateAt(s, i).header
    BY <1>10, <2>0 DEF Along, StateFits
  <2>2. \A st : IsState(st) /\ st.header = StateAt(s, i).header
                  => NextStrange(Made(s, i, a, q, st), s, i)
    BY <1>6, <1>10, <2>0 DEF Frames
  <2>3. NextStrange(p, s, i)
    BY <1>2, <2>1, <2>2, Zenon
  <2> QED BY <1>10, <2>0, <2>3 DEF Outcome, Settled, StateFits, NextStrange
<1>11. i < s.good \/ i = s.good
  BY <1>1, <1>3
<1>12. i < s.good => i + 1 \in 0..Len(s.frames) /\ DueAt(s, i + 1) \in Nat
  <2> SUFFICES ASSUME i < s.good PROVE i + 1 \in 0..Len(s.frames) /\ DueAt(s, i + 1) \in Nat
    OBVIOUS
  <2>1. i + 1 \in 0..Len(s.frames)
    BY <1>1, <1>3
  <2> QED BY <1>3, <2>1 DEF InOrder
<1> QED BY <1>5, <1>7, <1>8, <1>9, <1>10, <1>11, <1>12

\* A round takes a frame or finds that there is none.
Went(x, r, s, q) ==
  \E j, c : /\ Along(x, s, j, c, q)
            /\ IF x.done THEN Settled(s, j, q) ELSE Len(x.buf) < Len(r.buf)

\* A round of the loop goes along the frames.
LEMMA RoundGoesOn ==
  ASSUME NEW s, Framed(s), NEW r, Local(r), NEW i, NEW a, NEW q, Along(r, s, i, a, q),
         r.done = FALSE, r.buf # <<>>
  PROVE  Went(Round(r), r, s, q)
<1> DEFINE p == ParserWrapper(r.parser, r.buf, r.state)
           D(k) == DueAt(s, k)
           E == FrameEnds(s)
           w == s.wire
<1>0. PICK S, O : r \in Locals(S, O)
  BY DEF Local
<1>1. /\ i \in 0..s.good /\ a \in D(i)..E[i] /\ q <= Len(w) /\ q \in a..a + BufLenMax
      /\ r.buf = SubSeq(w, a + 1, q) /\ r.parser = Known(s, i) /\ r.sent = PacketsOf(s)[i]
  BY DEF Along
<1>2. /\ w \in Seq(Byte) /\ Len(s.frames) \in Nat /\ s.good \in 0..Len(s.frames)
      /\ i \in 0..Len(s.frames) /\ InOrder(s) /\ BufLenMax \in Nat
  BY <1>1, FramedShape DEF Shaped
<1>3. D(i) \in Nat /\ E[i] \in Nat /\ a \in Nat /\ q \in Nat /\ a <= q /\ a <= E[i]
  <2>1. D(i) \in Nat /\ E[i] \in Nat
    BY <1>2 DEF InOrder
  <2> HIDE DEF D, E
  <2> QED BY <1>1, <1>2, <2>1
<1>4. r.buf \in Seq(Byte) /\ Len(r.buf) = q - a
  <2>1. 0 \in 0..q - a
    BY <1>3
  <2> QED BY <1>1, <1>2, <1>3, <2>1, CutAgain
<1>5. q > a
  <2>1. Len(r.buf) # 0
    BY <1>4, EmptySeq
  <2> QED BY <1>3, <1>4, <2>1
<1>6. Outcome(p, s, i, a, q)
  <2> HIDE DEF D, E, w
  <2> QED BY <1>5, ParserOutcome
<1>7. Round(r) = Advance(r, p)
  <2>1. ~(r.done \/ r.buf = <<>>)
    OBVIOUS
  <2> QED BY <2>1, Zenon DEF Round
<1> HIDE DEF p
<1>8. CASE i < s.good /\ q >= D(i + 1) /\ NextTaken(p, s, i, a, q)
  <2> DEFINE j == i + 1
             c == IF q < E[j] THEN q ELSE E[j]
             u == c - a
             x == Round(r)
  <2>1. /\ p.used = u /\ p.format = s.format /\ p.packet = s.frames[j].packet
        /\ p.state = StateAt(s, j) /\ q >= D(j)
    BY <1>8 DEF NextTaken
  <2>2. j \in 1..Len(s.frames) /\ j \in 0..s.good /\ j # 0 /\ j - 1 = i /\ i < j
    BY <1>1, <1>2, <1>8
  <2> HIDE DEF j
  <2>3. E[j] \in Nat /\ D(j) \in Nat /\ D(j) <= E[j] /\ E[i] < D(j)
    BY <1>2, <2>2 DEF InOrder
  <2> HIDE DEF D, E
  <2>4. c \in D(j)..E[j] /\ c > a /\ c <= q /\ c \in Nat /\ u \in 0..q - a /\ u # 0 /\ a + u = c
    BY <1>3, <1>5, <2>1, <2>3
  <2> HIDE DEF c, u
  <2> DEFINE rest == SubSeq(r.buf, u + 1, Len(r.buf))
             front == IF u = Len(r.buf) THEN 0 ELSE r.start + u
             co == Consume(r, u)
             fwd == Forward(co.sent, p.packet)
  <2>5. x = [co EXCEPT !.parser = p.format, !.state = p.state, !.sent = fwd]
    BY <1>7, <2>1, <2>4, Zenon DEF Advance
  <2>6. co = [r EXCEPT !.buf = rest, !.start = front]
    BY DEF Consume
  <2>7. rest = SubSeq(w, c + 1, q)
    <3> HIDE DEF w
    <3>1. w \in Seq(Byte) /\ a \in Nat /\ q \in Nat /\ a <= q /\ q <= Len(w) /\ u \in 0..q - a
      BY <1>1, <1>2, <1>3, <2>4
    <3>2. r.buf = SubSeq(w, a + 1, q)
      BY <1>1
    <3>3. SubSeq(r.buf, u + 1, Len(r.buf)) = SubSeq(w, a + u + 1, q)
      BY <3>1, <3>2, CutAgain
    <3> QED BY <2>4, <3>3
  <2>8. Len(rest) = q - c /\ rest \in Seq(Byte)
    <3>1. 0 \in 0..q - c /\ q <= Len(w)
      BY <1>1, <1>3, <2>4
    <3> HIDE DEF rest, w
    <3> QED BY <1>2, <1>3, <2>4, <2>7, <3>1, CutAgain
  <2>9. front \in Nat
    <3>1. r.start \in Nat
      BY <1>0 DEF Locals
    <3> QED BY <1>4, <2>4, <3>1
  <2> HIDE DEF rest, front, co
  <2>10. co \in Locals(S, O) /\ co.buf = rest /\ co.sent = r.sent /\ co.done = FALSE
    BY <1>0, <2>6, <2>8, <2>9 DEF Locals
  <2> HIDE DEF fwd
  <2>11. /\ x.buf = rest /\ x.parser = p.format /\ x.state = p.state /\ x.sent = fwd
         /\ x.done = FALSE
    BY <2>5, <2>10 DEF Locals
  <2>12. fwd = PacketsOf(s)[j]
    <3>1. fwd = Forward(PacketsOf(s)[i], s.frames[j].packet)
      BY <1>1, <2>1, <2>10 DEF fwd
    <3>2. PacketsOf(s)[j] = Forward(PacketsOf(s)[j - 1], s.frames[j].packet)
      BY <1>2, <2>2, PacketsSteps
    <3> QED BY <2>2, <3>1, <3>2
  <2> HIDE DEF x
  <2>13. StateFits(x.state, s, j)
    <3>1. IsState(StateAt(s, j))
      BY DEF StateAt, IsState
    <3> QED BY <2>1, <2>11, <3>1 DEF StateFits
  <2>14. x.parser = Known(s, j)
    BY <2>1, <2>2, <2>11 DEF Known
  <2>15. q \in c..c + BufLenMax
    BY <1>1, <1>2, <1>3, <2>4
  <2>16. Along(x, s, j, c, q)
    BY <1>1, <2>2, <2>4, <2>7, <2>11, <2>12, <2>13, <2>14, <2>15 DEF Along, D, E, w
  <2>17. Len(x.buf) < Len(r.buf)
    BY <1>3, <1>4, <2>4, <2>8, <2>11
  <2> QED BY <2>11, <2>16, <2>17 DEF Went, x
<1>9. CASE Settled(s, i, q) /\ p.used = 0 /\ StateFits(p.state, s, i)
  <2> DEFINE x == Round(r)
  <2>1. x = [r EXCEPT !.state = p.state, !.done = TRUE]
    BY <1>7, <1>9 DEF Advance
  <2>2. /\ x.buf = r.buf /\ x.parser = r.parser /\ x.state = p.state /\ x.sent = r.sent
        /\ x.done = TRUE
    BY <1>0, <2>1 DEF Locals
  <2> HIDE DEF x
  <2>3. Along(x, s, i, a, q)
    BY <1>9, <2>2 DEF Along
  <2>4. \E j, c : Along(x, s, j, c, q) /\ Settled(s, j, q)
    BY <1>9, <2>3, Zenon
  <2>5. Went(x, r, s, q)
    BY <2>2, <2>4, Zenon DEF Went
  <2> QED BY <2>5 DEF x
<1> QED BY <1>6, <1>8, <1>9 DEF Outcome

\* The state of the loop when it has `left' rounds to go.
Stage(x, s, q, left) ==
  /\ Local(x)
  /\ \E j, c : Along(x, s, j, c, q) /\ IF x.done THEN Settled(s, j, q) ELSE Len(x.buf) <= left

\* Each round has one fewer to go.
LEMMA StageRound ==
  ASSUME NEW s, Framed(s), NEW x, NEW q, NEW left \in Nat, Stage(x, s, q, left + 1)
  PROVE  Stage(Round(x), s, q, left)
<1>1. PICK j, c : Along(x, s, j, c, q) /\ IF x.done THEN Settled(s, j, q) ELSE Len(x.buf) <= left + 1
  BY DEF Stage
<1>2. Local(x) /\ Local(Round(x))
  BY RoundLocal DEF Stage
<1>3. x.done \in BOOLEAN /\ Len(x.buf) \in Nat /\ Round(x).done \in BOOLEAN /\ Len(Round(x).buf) \in Nat
  BY <1>2 DEF Local, Locals
<1>4. CASE x.done
  <2>1. Round(x) = x
    BY <1>4 DEF Round
  <2> QED BY <1>1, <1>2, <1>4, <2>1 DEF Stage
<1>5. CASE ~x.done /\ x.buf = <<>>
  <2>1. Round(x) = x
    BY <1>5 DEF Round
  <2>2. Len(x.buf) <= left
    BY <1>5
  <2> QED BY <1>1, <1>2, <1>5, <2>1, <2>2 DEF Stage
<1>6. CASE ~x.done /\ x.buf # <<>>
  <2>1. x.done = FALSE
    BY <1>3, <1>6
  <2>2. Went(Round(x), x, s, q)
    BY <1>1, <1>2, <1>6, <2>1, RoundGoesOn
  <2>3. PICK k, d : /\ Along(Round(x), s, k, d, q)
                    /\ IF Round(x).done THEN Settled(s, k, q) ELSE Len(Round(x).buf) < Len(x.buf)
    BY <2>2 DEF Went
  <2>4. Len(x.buf) <= left + 1
    BY <1>1, <1>6
  <2>5. Len(Round(x).buf) < Len(x.buf) => Len(Round(x).buf) <= left
    BY <1>3, <2>4
  <2> QED BY <1>2, <2>3, <2>5 DEF Stage
<1> QED BY <1>4, <1>5, <1>6

\* The loop takes every frame that is there.
Arrived(x, s, q) == \E j, c : Along(x, s, j, c, q) /\ Settled(s, j, q)

\* So it does in as many rounds as the buffer has bytes.
LEMMA LoopAlong ==
  ASSUME NEW s, Framed(s), NEW r, Local(r), r.done = FALSE, NEW i, NEW a, NEW q, Along(r, s, i, a, q)
  PROVE  Arrived(ParseAll(r), s, q)
<1> DEFINE n == Len(r.buf)
<1>1. PICK f : Rounds(f, r)
  BY LoopSteps
<1>2. n \in Nat
  BY DEF Local, Locals
<1>3. f[0] = r /\ (\A k \in 1..n : f[k] = Round(f[k - 1])) /\ ParseAll(r) = f[n]
  BY <1>1 DEF Rounds
<1>4. Stage(r, s, q, n)
  <2>1. n <= n
    BY <1>2
  <2> QED BY <2>1 DEF Stage
<1> HIDE DEF n
<1>5. Stage(f[n], s, q, 0)
  <2> DEFINE P == {m \in Nat : m \in 0..n => Stage(f[m], s, q, n - m)}
  <2>1. 0 \in P
    <3>1. n - 0 = n
      BY <1>2
    <3> QED BY <1>3, <1>4, <3>1
  <2>2. ASSUME NEW m \in P PROVE m + 1 \in P
    <3> SUFFICES ASSUME m + 1 \in 0..n PROVE Stage(f[m + 1], s, q, n - (m + 1))
      OBVIOUS
    <3> DEFINE left == n - (m + 1)
    <3>1. left \in Nat /\ n - m = left + 1 /\ m \in 0..n /\ m + 1 \in 1..n /\ m + 1 - 1 = m
      BY <1>2
    <3>2. f[m + 1] = Round(f[m]) /\ Stage(f[m], s, q, left + 1)
      BY <1>3, <3>1
    <3> HIDE DEF left
    <3>3. Stage(Round(f[m]), s, q, left)
      BY <3>1, <3>2, StageRound
    <3> QED BY <3>2, <3>3 DEF left
  <2>3. P \in SUBSET Nat
    OBVIOUS
  <2>4. n \in P
    <3> HIDE DEF P
    <3> QED BY <1>2, <2>1, <2>2, <2>3, Reaches
  <2>5. n - n = 0 /\ n \in 0..n
    BY <1>2
  <2> QED BY <2>4, <2>5
<1> DEFINE x == f[n]
<1> HIDE DEF x
<1>6. Stage(x, s, q, 0)
  BY <1>5 DEF x
<1>7. PICK j, c : Along(x, s, j, c, q) /\ IF x.done THEN Settled(s, j, q) ELSE Len(x.buf) <= 0
  BY <1>6 DEF Stage
<1>8. Settled(s, j, q)
  <2>1. CASE x.done
    BY <1>7, <2>1
  <2>2. CASE ~x.done
    <3> SUFFICES ASSUME j < s.good PROVE q < DueAt(s, j + 1)
      BY DEF Settled
    <3>1. /\ j \in 0..s.good /\ c \in DueAt(s, j)..FrameEnds(s)[j] /\ q <= Len(s.wire)
          /\ q \in c..c + BufLenMax /\ x.buf = SubSeq(s.wire, c + 1, q)
      BY <1>7 DEF Along
    <3>2. /\ s.wire \in Seq(Byte) /\ Len(s.frames) \in Nat /\ s.good \in 0..Len(s.frames)
          /\ InOrder(s) /\ BufLenMax \in Nat
      BY FramedShape DEF Shaped
    <3> DEFINE k == j + 1
               E == FrameEnds(s)[j]
               D == DueAt(s, k)
    <3>3. j \in 0..Len(s.frames) /\ k \in 0..Len(s.frames) /\ j < k
      BY <3>1, <3>2
    <3> HIDE DEF k
    <3>4. E \in Nat /\ DueAt(s, j) \in Nat /\ D \in Nat /\ E < D
      BY <3>2, <3>3 DEF InOrder
    <3> HIDE DEF E, D
    <3>5. c \in Nat /\ q \in Nat /\ c <= q /\ c <= E
      BY <3>1, <3>2, <3>4 DEF E
    <3>6. Len(x.buf) = q - c
      <4>1. 0 \in 0..q - c
        BY <3>5
      <4> QED BY <3>1, <3>2, <3>5, <4>1, CutAgain
    <3>7. Len(x.buf) <= 0
      BY <1>7, <2>2
    <3>8. q < D
      BY <3>4, <3>5, <3>6, <3>7
    <3> QED BY <3>8 DEF D, k
  <2> QED BY <2>1, <2>2
<1>9. Arrived(x, s, q)
  BY <1>7, <1>8 DEF Arrived
<1> QED BY <1>3, <1>9 DEF x

\* What is read is put after what is there.
LEMMA CutsJoin ==
  ASSUME NEW w \in Seq(Byte), NEW a \in Nat, NEW q \in Nat, NEW e \in Nat, a <= q, q <= e, e <= Len(w)
  PROVE  SubSeq(w, a + 1, q) \o SubSeq(w, q + 1, e) = SubSeq(w, a + 1, e)
<1> DEFINE x == SubSeq(w, a + 1, q)
           y == SubSeq(w, q + 1, e)
           z == SubSeq(w, a + 1, e)
           v == x \o y
<1>1. x \in Seq(Byte) /\ Len(x) = q - a /\ \A k \in 1..q - a : x[k] = w[a + k]
  BY SMTT(30)
<1>2. y \in Seq(Byte) /\ Len(y) = e - q /\ \A k \in 1..e - q : y[k] = w[q + k]
  BY SMTT(30)
<1>3. z \in Seq(Byte) /\ Len(z) = e - a /\ \A k \in 1..e - a : z[k] = w[a + k]
  BY SMTT(30)
<1> HIDE DEF x, y, z
<1>4. Joined(x, y, v)
  <2> HIDE DEF v
  <2>1. v = x \o y
    BY DEF v
  <2> QED BY <1>1, <1>2, <2>1, JoinAt
<1>5. /\ v \in Seq(Byte) /\ Len(v) = e - a /\ (\A k \in 1..q - a : v[k] = w[a + k])
      /\ \A k \in 1..e - q : v[q - a + k] = w[q + k]
  <2>1. /\ v \in Seq(Byte) /\ Len(v) = Len(x) + Len(y) /\ (\A k \in 1..Len(x) : v[k] = x[k])
        /\ \A k \in 1..Len(y) : v[Len(x) + k] = y[k]
    BY <1>4 DEF Joined
  <2> HIDE DEF v
  <2>2. Len(v) = e - a /\ (\A k \in 1..q - a : v[k] = w[a + k])
    BY <1>1, <1>2, <2>1
  <2>3. \A k \in 1..e - q : v[q - a + k] = w[q + k]
    BY <1>1, <1>2, <2>1
  <2> QED BY <2>1, <2>2, <2>3
<1> HIDE DEF v
<1>6. ASSUME NEW k \in 1..e - a PROVE v[k] = w[a + k]
  <2>1. CASE k <= q - a
    BY <1>5, <2>1
  <2>2. CASE k > q - a
    <3> DEFINE l == k - (q - a)
    <3>1. l \in 1..e - q /\ q - a + l = k /\ q + l = a + k
      BY <2>2
    <3> HIDE DEF l
    <3>2. v[q - a + l] = w[q + l]
      BY <1>5, <3>1
    <3> QED BY <3>1, <3>2
  <2> QED BY <2>1, <2>2
<1>7. v = z
  <2>1. Len(v) = Len(z) /\ \A k \in 1..Len(v) : v[k] = z[k]
    BY <1>3, <1>5, <1>6
  <2> QED BY <1>3, <1>5, <2>1, SameBytes
<1> QED BY <1>7 DEF v, x, y, z

-----------------------------------------------------------------------------
(* A connection along a stream of frames *)

Current == [buf |-> buf, parser |-> parser, state |-> state, sent |-> sent]

\* The frames that have come are taken, and what is in the buffer is the part of
\* the wire after them.
StreamInv ==
  /\ BufferInv
  /\ Arrived(Current, stream, pos)
  /\ status = "overrun" => ~Understood

\* What Along says of a buffer.
Measured(b, s, i, a, q) ==
  /\ s.wire \in Seq(Byte) /\ Len(s.frames) \in Nat /\ s.good \in 0..Len(s.frames)
  /\ i \in 0..s.good /\ i \in 0..Len(s.frames)
  /\ a \in Nat /\ q \in Nat /\ a <= q /\ q <= Len(s.wire) /\ Len(b) = q - a
  /\ DueAt(s, i) \in Nat /\ FrameEnds(s)[i] \in Nat /\ DueAt(s, i) <= a /\ a <= FrameEnds(s)[i]
  /\ b = SubSeq(s.wire, a + 1, q)

\* So it is along the frames of a framed stream.
LEMMA AlongMeasured ==
  ASSUME NEW s, Framed(s), NEW x, NEW i, NEW a, NEW q, Along(x, s, i, a, q)
  PROVE  Measured(x.buf, s, i, a, q)
<1>1. /\ i \in 0..s.good /\ a \in DueAt(s, i)..FrameEnds(s)[i] /\ q <= Len(s.wire)
      /\ q \in a..a + BufLenMax /\ x.buf = SubSeq(s.wire, a + 1, q)
  BY DEF Along
<1>2. /\ s.wire \in Seq(Byte) /\ Len(s.frames) \in Nat /\ s.good \in 0..Len(s.frames)
      /\ InOrder(s) /\ BufLenMax \in Nat
  BY FramedShape DEF Shaped
<1> DEFINE E == FrameEnds(s)[i]
           D == DueAt(s, i)
<1>3. i \in 0..Len(s.frames)
  BY <1>1, <1>2
<1>4. E \in Nat /\ D \in Nat
  BY <1>2, <1>3 DEF InOrder
<1> HIDE DEF E, D
<1>5. a \in Nat /\ q \in Nat /\ a <= q /\ D <= a /\ a <= E
  BY <1>1, <1>2, <1>4 DEF D, E
<1>6. Len(x.buf) = q - a
  <2>1. 0 \in 0..q - a
    BY <1>5
  <2> QED BY <1>1, <1>2, <1>5, <2>1, CutAgain
<1> QED BY <1>1, <1>2, <1>3, <1>4, <1>5, <1>6 DEF Measured, D, E

\* The next frame comes after the end of the last.
LEMMA NextAfter ==
  ASSUME NEW s, Framed(s), NEW i, i \in 0..s.good, i < s.good, NEW j, j = i + 1
  PROVE  /\ j \in 1..s.good /\ j \in 1..Len(s.frames) /\ j - 1 = i
         /\ DueAt(s, j) \in Nat /\ FrameEnds(s)[j] \in Nat /\ DueAt(s, j) <= FrameEnds(s)[j]
         /\ FrameEnds(s)[i] < DueAt(s, j) /\ DueAt(s, j) <= DueAt(s, i) + BufLenMax
<1>1. /\ Len(s.frames) \in Nat /\ s.good \in 0..Len(s.frames) /\ InOrder(s)
  BY FramedShape DEF Shaped
<1>2. j \in 1..s.good /\ j \in 1..Len(s.frames) /\ j \in 0..Len(s.frames) /\ i \in 0..Len(s.frames) /\ i < j /\ j - 1 = i
  BY <1>1
<1>3. DueAt(s, j) <= DueAt(s, j - 1) + BufLenMax
  BY <1>2 DEF Framed
<1> QED BY <1>1, <1>2, <1>3 DEF InOrder

\* A buffer that is full holds what is not understood.
LEMMA FullIsStrange ==
  ASSUME NEW s, Framed(s), NEW x, NEW i, NEW a, NEW q, Along(x, s, i, a, q), Settled(s, i, q),
         Len(x.buf) = BufLenMax
  PROVE  s.good # Len(s.frames)
<1> SUFFICES ASSUME s.good = Len(s.frames) PROVE FALSE
  OBVIOUS
<1>1. Measured(x.buf, s, i, a, q) /\ BufLenMax \in Nat \ {0}
  BY AlongMeasured, ReceiveAssumption
<1>2. /\ Len(s.frames) \in Nat /\ s.good \in 0..Len(s.frames)
      /\ i \in 0..s.good /\ i \in 0..Len(s.frames)
      /\ a \in Nat /\ q \in Nat /\ a <= q /\ q <= Len(s.wire) /\ BufLenMax = q - a
      /\ DueAt(s, i) \in Nat /\ FrameEnds(s)[i] \in Nat /\ DueAt(s, i) <= a /\ a <= FrameEnds(s)[i]
  BY <1>1 DEF Measured
<1>3. CASE i < s.good
  <2> DEFINE j == i + 1
             D == DueAt(s, j)
  <2>1. q < D
    BY <1>3 DEF Settled
  <2> HIDE DEF j
  <2>2. D \in Nat /\ D <= DueAt(s, i) + BufLenMax
    BY <1>2, <1>3, NextAfter DEF j
  <2> HIDE DEF D
  <2> QED BY <1>1, <1>2, <2>1, <2>2
<1>4. CASE i = s.good
  <2>1. Len(s.wire) = FrameEnds(s)[i]
    BY <1>4 DEF Framed, Laid, Spelled
  <2>2. CASE i = 0
    <3>1. FrameEnds(s)[i] = 0
      BY <1>2, <2>2, EndsSteps
    <3> QED BY <1>1, <1>2, <2>1, <3>1
  <2>3. CASE i # 0
    <3>1. i \in 1..s.good
      BY <1>2, <2>3
    <3>2. FrameEnds(s)[i] < DueAt(s, i) + BufLenMax
      BY <3>1 DEF Framed
    <3> QED BY <1>1, <1>2, <2>1, <3>2
  <2> QED BY <2>2, <2>3
<1> QED BY <1>2, <1>3, <1>4

\* receive_read() takes the frames that have come.
LEMMA ReadAlong ==
  ASSUME \A s \in Streams : Framed(s), StreamInv, NEW size \in ReadSizes, Read(size)
  PROVE  StreamInv'
<1>1. BufferInv /\ BufferInv'
  BY ReadInv DEF StreamInv
<1>2. PICK n, r : ReadOf(n, r)
  BY <1>1, ReadDoes
<1>3. Framed(stream)
  BY <1>1 DEF BufferInv
<1>4. PICK i, a : Along(Current, stream, i, a, pos)
  BY DEF StreamInv, Arrived
<1> DEFINE q == pos + n
           x == ParseAll(r)
<1>5. /\ n \in Nat \ {0} /\ q <= Len(stream.wire) /\ Len(buf) + n <= BufLenMax
      /\ r = [buf |-> buf \o SubSeq(stream.wire, pos + 1, q), start |-> FillStart,
              parser |-> parser, state |-> state, sent |-> sent, done |-> FALSE]
      /\ Local(r) /\ pos' = q /\ stream' = stream
      /\ buf' = x.buf /\ parser' = x.parser /\ state' = x.state /\ sent' = x.sent
      /\ status' = IF Overrun(x) THEN "overrun" ELSE "open"
  BY <1>2 DEF ReadOf
<1>6. Measured(buf, stream, i, a, pos)
  <2>1. Measured(Current.buf, stream, i, a, pos)
    BY <1>3, <1>4, AlongMeasured
  <2> QED BY <2>1 DEF Current
<1>7. Along(r, stream, i, a, q)
  <2>1. /\ i \in 0..stream.good /\ a \in DueAt(stream, i)..FrameEnds(stream)[i]
        /\ parser = Known(stream, i) /\ sent = PacketsOf(stream)[i] /\ StateFits(state, stream, i)
    BY <1>4 DEF Along, Current
  <2>2. /\ stream.wire \in Seq(Byte) /\ a \in Nat /\ pos \in Nat /\ a <= pos /\ pos <= Len(stream.wire)
        /\ Len(buf) = pos - a /\ buf = SubSeq(stream.wire, a + 1, pos)
    BY <1>6 DEF Measured
  <2>3. q \in Nat /\ pos <= q /\ q \in a..a + BufLenMax
    BY <1>5, <2>2, ReceiveAssumption
  <2>4. r.parser = parser /\ r.sent = sent /\ r.state = state
        /\ r.buf = buf \o SubSeq(stream.wire, pos + 1, q)
    BY <1>5
  <2> HIDE DEF q
  <2>5. r.buf = SubSeq(stream.wire, a + 1, q)
    <3>1. SubSeq(stream.wire, a + 1, pos) \o SubSeq(stream.wire, pos + 1, q) = SubSeq(stream.wire, a + 1, q)
      BY <1>5, <2>2, <2>3, CutsJoin
    <3> QED BY <2>2, <2>4, <3>1
  <2> QED BY <1>5, <2>1, <2>3, <2>4, <2>5 DEF Along
<1>8. Arrived(x, stream, q)
  <2>1. Local(r) /\ r.done = FALSE
    BY <1>5
  <2> HIDE DEF q
  <2> QED BY <1>3, <1>7, <2>1, LoopAlong
<1> HIDE DEF q, x
<1>9. PICK j, c : Along(x, stream, j, c, q) /\ Settled(stream, j, q)
  BY <1>8 DEF Arrived
<1>10. Arrived(Current, stream, pos)'
  <2> DEFINE y == [buf |-> buf', parser |-> parser', state |-> state', sent |-> sent']
  <2>1. y.buf = x.buf /\ y.parser = x.parser /\ y.state = x.state /\ y.sent = x.sent
    BY <1>5
  <2> HIDE DEF y
  <2>2. Along(y, stream, j, c, q)
    BY <1>9, <2>1 DEF Along
  <2>3. Arrived(y, stream, q)
    BY <1>9, <2>2 DEF Arrived
  <2>4. Arrived(y, stream', pos')
    BY <1>5, <2>3
  <2>5. Current' = y
    BY DEF Current, y
  <2> QED BY <2>4, <2>5
<1>11. status' = "overrun" => ~Understood'
  <2>1. status' = "overrun" => Len(x.buf) = BufLenMax
    BY <1>5 DEF Overrun
  <2>2. Len(x.buf) = BufLenMax => stream.good # Len(stream.frames)
    BY <1>3, <1>9, FullIsStrange
  <2> QED BY <1>5, <2>1, <2>2 DEF Understood
<1> QED BY <1>1, <1>10, <1>11 DEF StreamInv

\* A new connection.
LEMMA StreamInit ==
  ASSUME \A s \in Streams : Framed(s), Init
  PROVE  StreamInv
<1>1. BufferInv
  BY ReceiveAssumption DEF Init, BufferInv
<1>2. Framed(stream) /\ stream \in Streams
  BY DEF Init
<1>3. Shaped(stream)
  BY <1>2, FramedShape
<1>4. /\ Len(stream.frames) \in Nat /\ stream.good \in 0..Len(stream.frames)
      /\ BufLenMax \in Nat \ {0} /\ stream.wire \in Seq(Byte)
  BY <1>3 DEF Shaped
<1>5. DueAt(stream, 0) = 0 /\ FrameEnds(stream)[0] = 0 /\ PacketsOf(stream)[0] = <<>>
      /\ StampsOf(stream)[0] = <<>>
  BY <1>4, EndsSteps, PacketsSteps, StampsSteps DEF DueAt
<1>6. StateAt(stream, 0) = [rates |-> FALSE, header |-> FALSE, stamps |-> <<>>]
  <2>1. ~\E j \in 1..0 : stream.frames[j].packet = NoPacket
    OBVIOUS
  <2> QED BY <1>5, <2>1 DEF StateAt
<1>7. state = StateAt(stream, 0)
  BY <1>6 DEF Init, FreshState
<1>8. StateFits(state, stream, 0)
  <2>1. IsState(StateAt(stream, 0))
    BY DEF StateAt, IsState
  <2> QED BY <1>7, <2>1 DEF StateFits
<1>9. Along(Current, stream, 0, 0, 0)
  <2>1. SubSeq(stream.wire, 0 + 1, 0) = <<>>
    BY <1>4
  <2>2. /\ Current.buf = <<>> /\ Current.parser = "auto" /\ Current.sent = <<>> /\ Current.state = state
    BY DEF Init, Current
  <2>3. /\ 0 \in 0..stream.good /\ 0 \in DueAt(stream, 0)..FrameEnds(stream)[0]
        /\ 0 \in 0..0 + BufLenMax /\ 0 <= Len(stream.wire)
    BY <1>4, <1>5
  <2> QED BY <1>5, <1>8, <2>1, <2>2, <2>3 DEF Along, Known
<1>10. Settled(stream, 0, 0)
  <2> SUFFICES ASSUME 0 < stream.good PROVE 0 < DueAt(stream, 0 + 1)
    BY DEF Settled
  <2> DEFINE j == 0 + 1
  <2>1. 0 \in 0..stream.good
    BY <1>4
  <2> HIDE DEF j
  <2>2. DueAt(stream, j) \in Nat /\ FrameEnds(stream)[0] < DueAt(stream, j)
    BY <1>2, <2>1, NextAfter DEF j
  <2>3. 0 < DueAt(stream, j)
    BY <1>5, <2>2
  <2> QED BY <2>3 DEF j
<1>11. pos = 0 /\ status = "open"
  BY DEF Init
<1>12. Arrived(Current, stream, pos)
  BY <1>9, <1>10, <1>11 DEF Arrived
<1> QED BY <1>1, <1>11, <1>12 DEF StreamInv

\* Whatever is done with a connection.
LEMMA StreamNext ==
  ASSUME \A s \in Streams : Framed(s), StreamInv, [Next]_vars
  PROVE  StreamInv'
<1>1. ASSUME NEW size \in ReadSizes, Read(size) PROVE StreamInv'
  BY <1>1, ReadAlong
<1>2. CASE ReadEof
  <2>1. /\ stream' = stream /\ pos' = pos /\ buf' = buf /\ start' = start /\ parser' = parser
        /\ state' = state /\ sent' = sent /\ status' = "closed"
    BY <1>2 DEF ReadEof
  <2>2. BufferInv'
    BY <2>1 DEF StreamInv, BufferInv
  <2>3. Current' = Current
    BY <2>1 DEF Current
  <2>4. Arrived(Current, stream, pos)'
    BY <2>1, <2>3 DEF StreamInv
  <2> QED BY <2>1, <2>2, <2>4 DEF StreamInv
<1>3. CASE UNCHANGED vars
  <2>1. /\ stream' = stream /\ pos' = pos /\ buf' = buf /\ start' = start /\ parser' = parser
        /\ state' = state /\ sent' = sent /\ status' = status
    BY <1>3 DEF vars
  <2>2. BufferInv'
    BY <2>1 DEF StreamInv, BufferInv
  <2>3. Current' = Current
    BY <2>1 DEF Current
  <2>4. Arrived(Current, stream, pos)'
    BY <2>1, <2>3 DEF StreamInv
  <2> QED BY <2>1, <2>2, <2>4 DEF StreamInv, Understood
<1> QED BY <1>1, <1>2, <1>3 DEF Next, Deleted

\* What the invariant says of the frames that have come.
LEMMA AllCame ==
  ASSUME \A s \in Streams : Framed(s), StreamInv
  PROVE  \E i, a : Along(Current, stream, i, a, pos) /\ Settled(stream, i, pos) /\ Come = i
<1>1. Framed(stream) /\ pos \in Nat
  BY DEF StreamInv, BufferInv
<1>2. PICK i, a : Along(Current, stream, i, a, pos) /\ Settled(stream, i, pos)
  BY DEF StreamInv, Arrived
<1>3. Measured(Current.buf, stream, i, a, pos)
  BY <1>1, <1>2, AlongMeasured
<1>4. i \in 0..stream.good /\ DueAt(stream, i) <= pos
  BY <1>3 DEF Measured
<1>5. i < stream.good => pos < DueAt(stream, i + 1)
  BY <1>2 DEF Settled
<1>6. Come = i
  BY <1>1, <1>4, <1>5, CameAll DEF Come
<1> QED BY <1>2, <1>6

\* What has been taken is what has come: the packets have been sent on,
LEMMA InvPackets ==
  ASSUME \A s \in Streams : Framed(s), StreamInv
  PROVE  PacketsIntact
<1>1. PICK i, a : Along(Current, stream, i, a, pos) /\ Come = i
  BY AllCame
<1>2. sent = PacketsOf(stream)[i]
  BY <1>1 DEF Along, Current
<1> QED BY <1>1, <1>2 DEF PacketsIntact

\* the parser_state is that of the frames taken and the format is theirs,
LEMMA InvState ==
  ASSUME \A s \in Streams : Framed(s), StreamInv
  PROVE  StateClean
<1> SUFFICES ASSUME Understood
             PROVE  /\ parser \in {"auto", stream.format}
                    /\ state.stamps = StampsOf(stream)[Come]
                    /\ state.rates = state.header
  BY DEF StateClean
<1>1. PICK i, a : Along(Current, stream, i, a, pos) /\ Come = i
  BY AllCame
<1>2. parser = Known(stream, i) /\ StateFits(state, stream, i)
  BY <1>1 DEF Along, Current
<1>3. state = StateAt(stream, i)
  BY <1>2 DEF StateFits, Understood
<1> QED BY <1>1, <1>2, <1>3 DEF Known, StateAt

\* and the buffer of an understood stream never fills up.
LEMMA InvOverrun ==
  ASSUME \A s \in Streams : Framed(s), StreamInv
  PROVE  OnlyStrangersOverrun
<1>1. status = "overrun" => ~Understood
  BY DEF StreamInv
<1>2. ASSUME status = "open", ~Understood
      PROVE  pos < FrameEnds(stream)[stream.good] + BufLenMax
  <2>1. Framed(stream) /\ Len(buf) < BufLenMax
    BY <1>2 DEF StreamInv, BufferInv
  <2>2. PICK i, a : Along(Current, stream, i, a, pos) /\ Settled(stream, i, pos)
    BY AllCame
  <2>3. Measured(buf, stream, i, a, pos)
    <3>1. Measured(Current.buf, stream, i, a, pos)
      BY <2>1, <2>2, AlongMeasured
    <3> QED BY <3>1 DEF Current
  <2>4. /\ Len(stream.frames) \in Nat /\ stream.good \in 0..Len(stream.frames) /\ i \in 0..stream.good
        /\ a \in Nat /\ pos \in Nat /\ Len(buf) = pos - a
        /\ FrameEnds(stream)[i] \in Nat /\ a <= FrameEnds(stream)[i]
    BY <2>3 DEF Measured
  <2>5. BufLenMax \in Nat /\ InOrder(stream)
    BY <2>1, FramedShape DEF Shaped
  <2>6. CASE i = stream.good
    BY <2>1, <2>4, <2>5, <2>6
  <2>7. CASE i < stream.good
    <3> DEFINE j == i + 1
               g == stream.good
               D == DueAt(stream, j)
               E == FrameEnds(stream)
    <3>1. pos < D
      BY <2>2, <2>7 DEF Settled
    <3>2. j \in 0..Len(stream.frames) /\ g \in 0..Len(stream.frames) /\ j <= g
      BY <2>4, <2>7
    <3> HIDE DEF j, g
    <3>3. D \in Nat /\ E[j] \in Nat /\ E[g] \in Nat /\ D <= E[j] /\ DueAt(stream, g) \in Nat
          /\ DueAt(stream, g) <= E[g] /\ (j < g => E[j] < DueAt(stream, g))
      BY <2>5, <3>2 DEF InOrder
    <3> HIDE DEF D, E
    <3>4. D <= E[g]
      <4>1. CASE j = g
        BY <3>3, <4>1
      <4>2. CASE j < g
        BY <3>3, <4>2
      <4>3. j \in Int /\ g \in Int
        BY <2>4, <3>2
      <4> QED BY <3>2, <4>1, <4>2, <4>3
    <3>5. pos < E[g] + BufLenMax
      BY <2>4, <2>5, <3>1, <3>3, <3>4
    <3> QED BY <3>5 DEF E, g
  <2> QED BY <2>4, <2>6, <2>7
<1> QED BY <1>1, <1>2 DEF OnlyStrangersOverrun

\* A connection takes a stream of frames frame by frame: however it is cut into
\* reads, the frames that have come have been taken, and the buffer holds the
\* part of the wire after them (receive.c:116-147).
THEOREM FrameByFrame ==
  ASSUME \A s \in Streams : Framed(s)
  PROVE  Spec => []StreamInv
<1>1. Init => StreamInv
  BY StreamInit
<1>2. StreamInv /\ [Next]_vars => StreamInv'
  BY StreamNext
<1> QED BY <1>1, <1>2, PTL DEF Spec

\* Once the bytes of a packet have come it has been sent on, whole, once and in
\* order (receive.c:124-139).
THEOREM FramesIntact ==
  ASSUME \A s \in Streams : Framed(s)
  PROVE  Spec => []PacketsIntact
<1>1. StreamInv => PacketsIntact
  BY InvPackets
<1>2. Spec => []StreamInv
  BY FrameByFrame
<1> QED BY <1>1, <1>2, PTL

\* A stream is never taken for another format, and the parsers that were tried
\* on it leave nothing in the parser_state that they share (receive.c:93).
THEOREM FramesLeaveNoTrace ==
  ASSUME \A s \in Streams : Framed(s)
  PROVE  Spec => []StateClean
<1>1. StreamInv => StateClean
  BY InvState
<1>2. Spec => []StreamInv
  BY FrameByFrame
<1> QED BY <1>1, <1>2, PTL

\* A connection is closed for an overrun exactly if it has sent as much as fits
\* in the buffer and nothing in it can be understood (receive.c:141).
THEOREM FramesOverrun ==
  ASSUME \A s \in Streams : Framed(s)
  PROVE  Spec => []OnlyStrangersOverrun
<1>1. StreamInv => OnlyStrangersOverrun
  BY InvOverrun
<1>2. Spec => []StreamInv
  BY FrameByFrame
<1> QED BY <1>1, <1>2, PTL

-----------------------------------------------------------------------------
(* Frames on the wire *)

\* A frame x on the wire, from a to e.
Placed(s, a, e, x) ==
  /\ s.wire \in Seq(Byte) /\ a \in Nat /\ e \in Nat /\ e = a + Len(x) /\ e <= Len(s.wire)
  /\ x \in Seq(Byte) /\ Len(x) >= 1 /\ \A k \in 1..Len(x) : s.wire[a + k] = x[k]

\* So is every frame of a stream.
LEMMA FramePlaced ==
  ASSUME NEW s, Laid(s), NEW j \in 1..Len(s.frames), NEW i, i = j - 1
  PROVE  Placed(s, FrameEnds(s)[i], FrameEnds(s)[j], s.frames[j].bytes)
<1> DEFINE n == Len(s.frames)
           E == FrameEnds(s)
           x == s.frames[j].bytes
<1>1. n \in Nat /\ s.wire \in Seq(Byte) /\ x \in Seq(Byte) /\ s.frames[j].due \in 1..Len(x)
  BY DEF Laid
<1>2. Len(s.wire) = E[n] /\ \A k \in 1..Len(x) : s.wire[E[i] + k] = x[k]
  BY DEF Laid, Spelled
<1>3. E[j] = E[i] + Len(x)
  BY <1>1, EndsSteps
<1>4. InOrder(s)
  BY FramesInOrder
<1>5. i \in 0..n /\ j \in 0..n /\ n \in 0..n /\ (j < n \/ j = n)
  BY <1>1
<1>6. E[i] \in Nat /\ E[j] \in Nat /\ E[n] \in Nat /\ E[j] <= E[n]
  <2>1. E[i] \in Nat /\ E[j] \in Nat /\ E[n] \in Nat /\ DueAt(s, n) \in Nat /\ DueAt(s, n) <= E[n]
        /\ (j < n => E[j] < DueAt(s, n))
    BY <1>4, <1>5 DEF InOrder
  <2> HIDE DEF E, n
  <2>2. CASE j < n
    BY <2>1, <2>2
  <2>3. CASE j = n
    BY <2>1, <2>3
  <2> QED BY <1>5, <2>1, <2>2, <2>3
<1>7. Len(x) >= 1
  BY <1>1
<1> HIDE DEF E, n, x
<1> QED BY <1>1, <1>2, <1>3, <1>6, <1>7 DEF Placed, E, n, x

\* A frame of which only a part has come.
Short(b, x) == b \in Seq(Byte) /\ Len(b) \in 1..Len(x) - 1 /\ \A k \in 1..Len(b) : b[k] = x[k]

\* A read that ends within a frame leaves a part of it.
LEMMA CutShort ==
  ASSUME NEW s, NEW a, NEW e, NEW x, Placed(s, a, e, x), NEW q \in Nat, a < q, q < e
  PROVE  Short(SubSeq(s.wire, a + 1, q), x)
<1> DEFINE w == s.wire
           b == SubSeq(w, a + 1, q)
<1>1. w \in Seq(Byte) /\ a \in Nat /\ e \in Nat /\ e = a + Len(x) /\ e <= Len(w)
      /\ x \in Seq(Byte) /\ \A k \in 1..Len(x) : w[a + k] = x[k]
  BY DEF Placed
<1> HIDE DEF w
<1>2. b \in Seq(Byte) /\ Len(b) = q - a /\ \A k \in 1..q - a : b[k] = w[a + k]
  BY <1>1, SMTT(30)
<1> HIDE DEF b
<1>3. Short(b, x)
  BY <1>1, <1>2 DEF Short
<1> QED BY <1>3 DEF b, w

\* A read that ends later leaves the frame, and what follows it.
LEMMA CutWhole ==
  ASSUME NEW s, NEW a, NEW e, NEW x, Placed(s, a, e, x), NEW q \in Nat, e <= q, q <= Len(s.wire)
  PROVE  /\ SubSeq(s.wire, a + 1, q) = x \o SubSeq(s.wire, e + 1, q)
         /\ SubSeq(s.wire, e + 1, q) \in Seq(Byte)
<1> DEFINE w == s.wire
           b == SubSeq(w, a + 1, e)
<1>1. w \in Seq(Byte) /\ a \in Nat /\ e \in Nat /\ e = a + Len(x) /\ e <= Len(w)
      /\ x \in Seq(Byte) /\ \A k \in 1..Len(x) : w[a + k] = x[k]
  BY DEF Placed
<1>2. q <= Len(w)
  OBVIOUS
<1> HIDE DEF w
<1>3. b \in Seq(Byte) /\ Len(b) = e - a /\ \A k \in 1..e - a : b[k] = w[a + k]
  BY <1>1, SMTT(30)
<1> HIDE DEF b
<1>4. b = x
  <2>1. e - a = Len(x)
    <3>1. \A u, v \in Nat : (u + v) - u = v
      OBVIOUS
    <3>2. a \in Nat /\ Len(x) \in Nat /\ e = a + Len(x)
      BY <1>1
    <3> QED BY <3>1, <3>2, Zenon
  <2>2. Len(b) = Len(x) /\ \A k \in 1..Len(b) : b[k] = x[k]
    BY <1>1, <1>3, <2>1, Zenon
  <2> QED BY <1>1, <1>3, <2>2, SameBytes
<1>5. SubSeq(w, a + 1, e) \o SubSeq(w, e + 1, q) = SubSeq(w, a + 1, q)
  <2>1. a <= e
    BY <1>1
  <2>2. w \in Seq(Byte) /\ a \in Nat /\ e \in Nat /\ q \in Nat /\ e <= q /\ q <= Len(w)
    BY <1>1, <1>2, Zenon
  <2> QED BY <2>1, <2>2, CutsJoin, Zenon
<1>6. SubSeq(w, e + 1, q) \in Seq(Byte)
  BY <1>1, <1>2
<1> QED BY <1>4, <1>5, <1>6 DEF b, w

\* What the parsers have to do with the frames of a stream, whole or in part.
WaitsFor(s, i, j) ==
  \A b : Short(b, s.frames[j].bytes)
           => NextAwaited(ParserWrapper(Known(s, i), b, StateAt(s, i)), s, i)

WholeTaken(r, s, j) ==
  /\ r.used = Len(s.frames[j].bytes) /\ r.format = s.format
  /\ r.packet = s.frames[j].packet /\ r.state = StateAt(s, j)

TakesWhole(s, i, j) ==
  \A q \in FrameEnds(s)[j]..Len(s.wire) :
    LET rest == SubSeq(s.wire, FrameEnds(s)[j] + 1, q)
    IN  rest \in Seq(Byte)
          => WholeTaken(ParserWrapper(Known(s, i), s.frames[j].bytes \o rest, StateAt(s, i)), s, j)

\* Then the stream is framed, if what decides a frame is all of it.
LEMMA WholeFrames ==
  ASSUME NEW s, Laid(s), s.good = Len(s.frames),
         \A j \in 1..Len(s.frames) : /\ s.frames[j].due = Len(s.frames[j].bytes)
                                     /\ Len(s.frames[j].bytes) <= BufLenMax
                                     /\ WaitsFor(s, j - 1, j) /\ TakesWhole(s, j - 1, j)
  PROVE  Framed(s)
<1> DEFINE n == Len(s.frames)
           E == FrameEnds(s)
           D(i) == DueAt(s, i)
           w == s.wire
<1>1. n \in Nat /\ s.wire \in Seq(Byte) /\ BufLenMax \in Nat \ {0}
  BY ReceiveAssumption DEF Laid
<1>2. D(0) = 0 /\ E[0] = 0 /\ Len(w) = E[n]
  BY <1>1, EndsSteps DEF DueAt, Laid, Spelled
<1>3. ASSUME NEW j \in 1..n PROVE D(j) = E[j]
  <2>1. j # 0 /\ s.frames[j].due = Len(s.frames[j].bytes)
    OBVIOUS
  <2>2. D(j) = E[j - 1] + s.frames[j].due
    BY <2>1 DEF DueAt
  <2>3. E[j] = E[j - 1] + Len(s.frames[j].bytes)
    BY <1>1, EndsSteps
  <2> QED BY <2>1, <2>2, <2>3
<1>4. ASSUME NEW i \in 0..n PROVE D(i) = E[i] /\ E[i] \in Nat
  <2>1. D(i) = E[i]
    <3> HIDE DEF D, E
    <3>1. i = 0 \/ i \in 1..n
      BY <1>1
    <3> QED BY <1>2, <1>3, <3>1
  <2>2. E[i] \in Nat
    BY FramesInOrder DEF InOrder
  <2> QED BY <2>1, <2>2
<1>5. ASSUME NEW j \in 1..n
      PROVE  /\ j - 1 \in 0..n /\ j \in 0..n
             /\ Placed(s, E[j - 1], E[j], s.frames[j].bytes)
             /\ E[j] = E[j - 1] + Len(s.frames[j].bytes) /\ Len(s.frames[j].bytes) \in 1..BufLenMax
  <2>1. j - 1 \in 0..n /\ j \in 0..n
    BY <1>1
  <2>2. Placed(s, E[j - 1], E[j], s.frames[j].bytes)
    BY FramePlaced
  <2>3. /\ E[j] = E[j - 1] + Len(s.frames[j].bytes) /\ Len(s.frames[j].bytes) >= 1
        /\ s.frames[j].bytes \in Seq(Byte)
    BY <2>2 DEF Placed
  <2>4. Len(s.frames[j].bytes) <= BufLenMax
    OBVIOUS
  <2> QED BY <1>1, <2>1, <2>2, <2>3, <2>4
<1>6. ASSUME NEW j \in 1..s.good
      PROVE  D(j) <= D(j - 1) + BufLenMax /\ E[j] < D(j) + BufLenMax
  <2>1. /\ D(j) = E[j] /\ D(j - 1) = E[j - 1] /\ E[j] \in Nat /\ E[j - 1] \in Nat
        /\ E[j] = E[j - 1] + Len(s.frames[j].bytes) /\ Len(s.frames[j].bytes) \in 1..BufLenMax
    BY <1>4, <1>5
  <2> HIDE DEF D, E
  <2> QED BY <1>1, <2>1
<1>7. ASSUME NEW i \in 0..s.good, NEW a \in D(i)..E[i], NEW q \in a + 1..a + BufLenMax, q <= Len(w)
      PROVE  Frames(s, i, a, q)
  <2>1. a = E[i] /\ a \in Nat /\ q \in Nat /\ a < q
    <3>1. i \in 0..n /\ a \in D(i)..E[i] /\ q \in a + 1..a + BufLenMax
      OBVIOUS
    <3>2. D(i) = E[i] /\ E[i] \in Nat
      BY <1>4, <3>1
    <3> HIDE DEF D, E
    <3> QED BY <1>1, <3>1, <3>2
  <2>2. i # n
    <3>1. i = n => q <= a
      BY <1>2, <1>7, <2>1
    <3> QED BY <2>1, <3>1
  <2> DEFINE j == i + 1
             x == s.frames[j].bytes
             made == Made(s, i, a, q, StateAt(s, i))
  <2>3. j \in 1..n /\ j - 1 = i
    BY <1>1, <2>2
  <2> HIDE DEF j
  <2>4. /\ Placed(s, a, E[j], x) /\ D(j) = E[j] /\ E[j] \in Nat
        /\ E[j] = a + Len(x) /\ Len(x) \in 1..BufLenMax
    BY <1>4, <1>5, <2>1, <2>3
  <2>5. WaitsFor(s, i, j) /\ TakesWhole(s, i, j)
    BY <2>3
  <2>6. made = ParserWrapper(Known(s, i), SubSeq(w, a + 1, q), StateAt(s, i))
    BY DEF Made
  <2>7. q < E[j] => NextAwaited(made, s, i)
    <3> HIDE DEF E
    <3> SUFFICES ASSUME q < E[j] PROVE NextAwaited(made, s, i)
      OBVIOUS
    <3>1. Short(SubSeq(w, a + 1, q), x)
      BY <2>1, <2>4, CutShort
    <3> QED BY <2>5, <2>6, <3>1 DEF WaitsFor
  <2>8. q >= E[j] => NextTaken(made, s, i, a, q)
    <3> SUFFICES ASSUME q >= E[j] PROVE NextTaken(made, s, i, a, q)
      OBVIOUS
    <3> DEFINE rest == SubSeq(w, E[j] + 1, q)
    <3>0. E[j] <= q
      BY <2>1, <2>4
    <3>1. SubSeq(w, a + 1, q) = x \o rest /\ rest \in Seq(Byte)
      <4> DEFINE e == E[j]
      <4>1. Placed(s, a, e, x) /\ e <= q /\ q <= Len(s.wire) /\ q \in Nat
        BY <1>7, <2>1, <2>4, <3>0
      <4> HIDE DEF e, x, E
      <4>2. SubSeq(s.wire, a + 1, q) = x \o SubSeq(s.wire, e + 1, q) /\ SubSeq(s.wire, e + 1, q) \in Seq(Byte)
        BY <4>1, CutWhole
      <4> QED BY <4>2 DEF e
    <3>2. q \in E[j]..Len(w)
      BY <1>1, <1>7, <2>1, <2>4, <3>0
    <3>3. WholeTaken(ParserWrapper(Known(s, i), x \o rest, StateAt(s, i)), s, j)
      BY <2>5, <3>1, <3>2 DEF TakesWhole
    <3>4. WholeTaken(made, s, j)
      BY <2>6, <3>1, <3>3
    <3>5. (IF q < E[j] THEN q ELSE E[j]) - a = Len(x)
      <4>1. ~(q < E[j])
        BY <2>1, <2>4, <3>0
      <4>2. E[j] - a = Len(x)
        <5>1. \A u, v \in Nat : (u + v) - u = v
          OBVIOUS
        <5>2. a \in Nat /\ Len(x) \in Nat /\ E[j] = a + Len(x)
          BY <2>1, <2>4
        <5> QED BY <5>1, <5>2, Zenon
      <4> QED BY <4>1, <4>2
    <3>6. j = i + 1
      BY DEF j
    <3> QED BY <3>4, <3>5, <3>6 DEF WholeTaken, NextTaken
  <2>9. (~(i = s.good) /\ q >= D(i + 1) => NextTaken(made, s, i, a, q))
        /\ (~(i = s.good) /\ q < D(i + 1) => NextAwaited(made, s, i))
    <3>1. D(j) = E[j]
      BY <2>4
    <3> HIDE DEF D, E, made
    <3> QED BY <2>7, <2>8, <3>1 DEF j
  <2> QED BY <2>2, <2>9 DEF Frames
<1>8. s.good \in 0..n
  BY <1>1
<1> QED BY <1>6, <1>7 DEF Framed

-----------------------------------------------------------------------------
(* The parser_state after a frame; parsers that refuse *)

\* A packet is not the absence of one.
LEMMA NotNone == ASSUME NEW p, p.type \in 1..3 PROVE p # NoPacket
<1>1. NoPacket.type = 0
  BY DEF NoPacket
<1> QED BY <1>1

\* How they do that.
StateOf(u, x) == [rates |-> u, header |-> u, stamps |-> x]

StampGives(u, x, y, xy) == Stamp(StateOf(u, x), y) = StateOf(u, xy)

\* A timestamp is added to those there are,
LEMMA StampOf ==
  ASSUME NEW u, NEW x, NEW y
  PROVE  Stamp(StateOf(u, x), y) = StateOf(u, Append(x, y))
BY DEF Stamp, StateOf

\* and a header changes the rest.
LEMMA StateOfSteps ==
  ASSUME NEW u, NEW x, NEW y, NEW xy, xy = Append(x, y)
  PROVE  /\ StampGives(u, x, y, xy)
         /\ Introduced(StateOf(u, x)) = StateOf(TRUE, x)
<1>0. Stamp(StateOf(u, x), y) = StateOf(u, Append(x, y))
  BY StampOf, Zenon
<1>1. StampGives(u, x, y, xy)
  BY <1>0, Zenon DEF StampGives
<1> DEFINE r == StateOf(u, x)
           z == [r EXCEPT !.rates = TRUE, !.header = TRUE]
<1>2. r \in [rates : {u}, header : {u}, stamps : {x}]
  BY DEF StateOf
<1> HIDE DEF r
<1>3. z = [rates |-> TRUE, header |-> TRUE, stamps |-> x]
  <2>1. z \in [rates : {TRUE}, header : {TRUE}, stamps : {x}]
    BY <1>2
  <2> HIDE DEF z
  <2>2. z = [rates |-> z.rates, header |-> z.header, stamps |-> z.stamps]
    BY <2>1
  <2>3. z.rates = TRUE /\ z.header = TRUE /\ z.stamps = x
    BY <2>1
  <2> QED BY <2>2, <2>3, Zenon
<1>4. Introduced(r) = StateOf(TRUE, x)
  BY <1>3 DEF Introduced, StateOf
<1> QED BY <1>1, <1>4 DEF r

\* A packet leaves its timestamp, a header that it has come.
LEMMA StateSteps ==
  ASSUME NEW s, Laid(s), NEW j \in 1..Len(s.frames), NEW i, i = j - 1, NEW p, p = s.frames[j].packet
  PROVE  /\ p # NoPacket /\ p.stamp # <<>> => StateAt(s, j) = Stamp(StateAt(s, i), p.stamp)
         /\ p # NoPacket /\ p.stamp = <<>> => StateAt(s, j) = StateAt(s, i)
         /\ p = NoPacket => StateAt(s, j) = Introduced(StateAt(s, i))
<1> DEFINE intro(k) == \E l \in 1..k : s.frames[l].packet = NoPacket
           x == StampsOf(s)[i]
           y == StampsOf(s)[j]
<1>1. Len(s.frames) \in Nat
  BY DEF Laid
<1>2. y = TakeStamp(x, p)
  BY <1>1, StampsSteps
<1>3. intro(j) <=> intro(i) \/ p = NoPacket
  <2>1. \A l : l \in 1..j <=> l \in 1..i \/ l = j
    BY <1>1
  <2> QED BY <2>1, Zenon
<1>4. intro(i) \in BOOLEAN /\ intro(j) \in BOOLEAN
  OBVIOUS
<1>5. StateAt(s, i) = StateOf(intro(i), x)
  BY DEF StateAt, StateOf
<1>6. StateAt(s, j) = StateOf(intro(j), y)
  BY DEF StateAt, StateOf
<1> HIDE DEF intro, x, y
<1>7. CASE p = NoPacket
  <2>1. intro(j) = TRUE /\ y = x
    BY <1>2, <1>3, <1>4, <1>7 DEF TakeStamp
  <2>2. StateAt(s, j) = StateOf(TRUE, x)
    BY <1>6, <2>1, Zenon
  <2>3. Introduced(StateOf(intro(i), x)) = StateOf(TRUE, x)
    BY StateOfSteps
  <2> QED BY <1>5, <1>7, <2>2, <2>3, Zenon
<1>8. CASE p # NoPacket
  <2>1. intro(j) = intro(i)
    BY <1>3, <1>4, <1>8, Zenon
  <2>2. StateAt(s, j) = StateOf(intro(i), y)
    BY <1>6, <2>1, Zenon
  <2>3. p.stamp = <<>> => y = x
    BY <1>2 DEF TakeStamp
  <2>4. p.stamp # <<>> => y = Append(x, p.stamp)
    BY <1>2, <1>8, Zenon DEF TakeStamp
  <2>5. PICK u : u = intro(i)
    OBVIOUS
  <2>8. p.stamp # <<>> => StampGives(u, x, p.stamp, y)
    BY <2>4, StateOfSteps, Zenon
  <2>6. p.stamp = <<>> => StateAt(s, j) = StateAt(s, i)
    BY <1>5, <2>2, <2>3, Zenon
  <2>7. p.stamp # <<>> => StateAt(s, j) = Stamp(StateAt(s, i), p.stamp)
    BY <1>5, <2>2, <2>5, <2>8, Zenon DEF StampGives
  <2> QED BY <1>8, <2>6, <2>7, Zenon
<1> QED BY <1>7, <1>8, Zenon

\* How many line ends a buffer begins with, when something else is in it.
LEMMA BlankTo ==
  ASSUME NEW b \in Seq(Byte), NEW k \in Nat, NEW l \in Nat, k <= l, l < Len(b),
         \A i \in k + 1..l : b[i] \in {CR, LF}, b[l + 1] \notin {CR, LF}
  PROVE  Blank(b, k) = l - k
<1> DEFINE T == {i \in k + 1..Len(b) : b[i] \notin {CR, LF}}
<1>1. l + 1 \in T /\ T \in SUBSET Nat
  OBVIOUS
<1>2. \A i \in T : l + 1 <= i
  <2> SUFFICES ASSUME NEW i \in T, i <= l PROVE FALSE
    OBVIOUS
  <2>1. i \in k + 1..l
    OBVIOUS
  <2> QED BY <2>1
<1>3. Blank(b, k) = (IF T = {} THEN Len(b) + 1 ELSE Min(T)) - (k + 1)
  BY DEF Blank
<1> HIDE DEF T
<1>4. Min(T) = l + 1
  <2> DEFINE m == l + 1
  <2>1. m \in T /\ \A i \in T : m <= i
    BY <1>1, <1>2
  <2> HIDE DEF m
  <2>2. Min(T) = m
    BY <1>1, <2>1, MinIs
  <2> QED BY <2>2 DEF m
<1>5. T # {}
  BY <1>1
<1> QED BY <1>3, <1>4, <1>5

\* The same, when nothing else is in it.
LEMMA BlankAll ==
  ASSUME NEW b \in Seq(Byte), NEW k \in Nat, k <= Len(b), \A i \in k + 1..Len(b) : b[i] \in {CR, LF}
  PROVE  Blank(b, k) = Len(b) - k
<1> DEFINE T == {i \in k + 1..Len(b) : b[i] \notin {CR, LF}}
<1>1. T = {}
  OBVIOUS
<1>2. Blank(b, k) = (IF T = {} THEN Len(b) + 1 ELSE Min(T)) - (k + 1)
  BY DEF Blank
<1> HIDE DEF T
<1>3. Blank(b, k) = Len(b) + 1 - (k + 1)
  BY <1>1, <1>2
<1> QED BY <1>3

\* json_parse() refuses whatever does not begin with an object.
LEMMA NoBrace ==
  ASSUME NEW b \in Seq(Byte), Len(b) > 0, b[1] \notin {CR, LF, OpenBrace}, NEW s
  PROVE  Untouched(Parse("json", b, s), s)
<1>1. Blank(b, 0) = 0
  <2>1. b[0 + 1] \notin {CR, LF} /\ \A i \in 0 + 1..0 : b[i] \in {CR, LF}
    OBVIOUS
  <2>2. Blank(b, 0) = 0 - 0
    BY <2>1, BlankTo
  <2> QED BY <2>2
<1>2. b[0 + 1] # OpenBrace
  OBVIOUS
<1>3. JsonEnd(b) = 0
  BY <1>1, <1>2, Zenon DEF JsonEnd
<1>4. JsonParse(b, s) = Failed(s)
  BY <1>3 DEF JsonParse
<1>5. Parse("json", b, s) = [JsonParse(b, s) EXCEPT !.format = "json"]
  BY ParseNames
<1> QED BY <1>4, <1>5, TaggedUntouched

\* proto_parse() refuses whatever does not begin with the tag of a message.
LEMMA NoTag ==
  ASSUME NEW b, b[1] # FieldOne, NEW s
  PROVE  Untouched(Parse("proto", b, s), s)
<1>1. ProtoUnwrap(b) = [used |-> 0, body |-> <<>>]
  BY Zenon DEF ProtoUnwrap
<1>2. ProtoUnwrap(b).body = <<>>
  BY <1>1
<1>3. ProtoParse(b, s) = Failed(s)
  BY <1>2 DEF ProtoParse
<1> QED BY <1>3, ParseNames, TaggedUntouched

\* raw_parse() leaves no trace when each of its attempts fails.
LEMMA RawAllFail ==
  ASSUME NEW b, NEW s, \A u \in 1..3 : RawTry(b, u, s) = Failed(s)
  PROVE  Untouched(Parse("raw", b, s), s)
<1> DEFINE orTry(q, u) == IF q.used > 0 THEN q ELSE RawTry(b, u, q.state)
<1>1. RawParse(b, s) = orTry(orTry(RawTry(b, 1, s), 2), 3)
  BY DEF RawParse, OrElse
<1>2. Failed(s).used = 0 /\ Failed(s).state = s
  BY DEF Failed
<1>3. \A u \in 1..3 : orTry(Failed(s), u) = Failed(s)
  BY <1>2
<1> HIDE DEF orTry
<1>4. orTry(RawTry(b, 1, s), 2) = Failed(s)
  BY <1>3
<1>5. RawParse(b, s) = Failed(s)
  BY <1>1, <1>3, <1>4
<1> QED BY <1>5, ParseNames, TaggedUntouched

\* So it is with airspy_adsb_parse().
LEMMA AirspyAllFail ==
  ASSUME NEW b, NEW s, \A u \in 1..3 : AirspyTry(b, u, s) = Failed(s)
  PROVE  Untouched(Parse("airspy_adsb", b, s), s)
<1> DEFINE orTry(q, u) == IF q.used > 0 THEN q ELSE AirspyTry(b, u, q.state)
<1>1. AirspyParse(b, s) = orTry(orTry(AirspyTry(b, 1, s), 2), 3)
  BY DEF AirspyParse, OrElse
<1>2. Failed(s).used = 0 /\ Failed(s).state = s
  BY DEF Failed
<1>3. \A u \in 1..3 : orTry(Failed(s), u) = Failed(s)
  BY <1>2
<1> HIDE DEF orTry
<1>4. orTry(AirspyTry(b, 1, s), 2) = Failed(s)
  BY <1>3
<1>5. AirspyParse(b, s) = Failed(s)
  BY <1>1, <1>3, <1>4
<1> QED BY <1>5, ParseNames, TaggedUntouched

\* raw_parse() refuses whatever does not begin with an asterisk.
LEMMA NoRawStar ==
  ASSUME NEW b, b[1] # Star, NEW s
  PROVE  Untouched(Parse("raw", b, s), s)
<1>1. \A u \in 1..3 : RawTry(b, u, s) = Failed(s)
  BY Zenon DEF RawTry
<1> QED BY <1>1, RawAllFail

\* raw is tried last, and with what the others leave.
LEMMA FifthTried ==
  ASSUME NEW b, NEW s, Untouched(Parse("airspy_adsb", b, s), s), Untouched(Parse("beast", b, s), s),
         Untouched(Parse("json", b, s), s), Untouched(Parse("proto", b, s), s)
  PROVE  ParserWrapper("auto", b, s) = Parse("raw", b, s)
<1>1. /\ Parsers[1] = "airspy_adsb" /\ Parsers[2] = "beast" /\ Parsers[3] = "json"
      /\ Parsers[4] = "proto" /\ Parsers[5] = "raw"
  BY DEF Parsers
<1>2. Untouched(Failed(s), s)
  BY DEF Failed, Untouched
<1> DEFINE r1 == After(Failed(s), 1, b)
           r2 == After(r1, 2, b)
           r3 == After(r2, 3, b)
           r4 == After(r3, 4, b)
<1>3. Untouched(r1, s)
  BY <1>1, <1>2, AfterUntouched
<1>4. AutodetectParse(b, s) = After(r4, 5, b)
  BY AutodetectSteps
<1> HIDE DEF r1
<1>5. Untouched(r2, s)
  BY <1>1, <1>3, AfterUntouched
<1> HIDE DEF r2
<1>6. Untouched(r3, s)
  BY <1>1, <1>5, AfterUntouched
<1> HIDE DEF r3
<1>7. Untouched(r4, s)
  BY <1>1, <1>6, AfterUntouched
<1> HIDE DEF r4
<1>8. AutodetectParse(b, s) = Parse("raw", b, s)
  BY <1>1, <1>4, <1>7, AfterUntouched
<1> QED BY <1>8 DEF ParserWrapper

-----------------------------------------------------------------------------
(* What no parser understands *)

\* A stream whose first byte begins no frame of any format.
Strange(s) ==
  /\ Laid(s) /\ s.good = 0 /\ Len(s.frames) > 0
  /\ s.wire[1] \notin {Star, ESC, CR, LF, OpenBrace}

\* Every parser refuses it, and leaves no trace (receive.c:85-105).
THEOREM StrangeFramed ==
  ASSUME NEW s, Strange(s)
  PROVE  Framed(s)
<1>1. Laid(s) /\ s.good = 0 /\ Len(s.frames) \in Nat \ {0} /\ s.wire \in Seq(Byte)
      /\ s.wire[1] \notin {Star, ESC, CR, LF, OpenBrace}
  BY DEF Strange, Laid
<1>2. FrameEnds(s)[0] = 0 /\ DueAt(s, 0) = 0 /\ BufLenMax \in Nat
  BY <1>1, EndsSteps, ReceiveAssumption DEF DueAt
<1>3. ASSUME NEW q \in 1..BufLenMax, q <= Len(s.wire) PROVE Frames(s, 0, 0, q)
  <2> DEFINE b == SubSeq(s.wire, 0 + 1, q)
  <2>1. b \in Seq(Byte) /\ Len(b) > 0 /\ b[1] = s.wire[1]
    BY <1>1, <1>2, <1>3
  <2> HIDE DEF b
  <2>2. /\ b[1] # Star /\ b[1] # ESC /\ b[1] \notin {CR, LF, OpenBrace} /\ b[1] # FieldOne
    BY <1>1, <2>1 DEF FieldOne, LF
  <2>3. ASSUME NEW st, IsState(st), st.header = StateAt(s, 0).header
        PROVE  NextStrange(Made(s, 0, 0, q, st), s, 0)
    <3>1. /\ Untouched(Parse("airspy_adsb", b, st), st) /\ Untouched(Parse("beast", b, st), st)
          /\ Untouched(Parse("json", b, st), st) /\ Untouched(Parse("proto", b, st), st)
          /\ Untouched(Parse("raw", b, st), st)
      BY <2>1, <2>2, NoStar, NoEscape, NoBrace, NoTag, NoRawStar
    <3>2. ParserWrapper("auto", b, st) = Parse("raw", b, st)
      BY <3>1, FifthTried
    <3>3. Made(s, 0, 0, q, st) = ParserWrapper("auto", b, st)
      BY DEF Made, Known, b
    <3>4. Made(s, 0, 0, q, st).used = 0 /\ Made(s, 0, 0, q, st).state = st
      BY <3>1, <3>2, <3>3 DEF Untouched
    <3> QED BY <2>3, <3>4 DEF NextStrange
  <2>4. 0 = s.good /\ s.good # Len(s.frames)
    BY <1>1
  <2> QED BY <2>3, <2>4 DEF Frames
<1>4. ASSUME NEW i \in 0..s.good, NEW a \in DueAt(s, i)..FrameEnds(s)[i],
             NEW q \in a + 1..a + BufLenMax, q <= Len(s.wire)
      PROVE  Frames(s, i, a, q)
  <2>1. i = 0
    BY <1>1
  <2>2. a = 0
    BY <1>2, <2>1
  <2>3. q \in 1..BufLenMax
    BY <1>2, <2>2
  <2> QED BY <1>3, <1>4, <2>1, <2>2, <2>3
<1>5. 1..s.good = {}
  BY <1>1
<1> QED BY <1>1, <1>4, <1>5 DEF Framed

-----------------------------------------------------------------------------
(* Streams of beast *)

\* Where what has been written ends in a part of it.
Reach(b, y) == IF Len(y) <= Len(b) THEN Len(y) ELSE -1

Reaching(b, y, z) == TakeOne(b, Reach(b, y)) = Reach(b, z)

\* A byte that is not all there is not taken.
LEMMA TakeCut ==
  ASSUME NEW x \in Seq(Byte), NEW k \in 1..Len(x), NEW j \in 2..Len(x), j = k + 1,
         NEW y, Kept(y, x, k), NEW z, z = y \o Written(x, j),
         NEW frame, Begins(z, frame), NEW b, Short(b, frame)
  PROVE  Reaching(b, y, z)
<1> DEFINE w == Written(x, j)
           i == Len(y)
<1>1. /\ w \in Seq(Byte) /\ Len(w) \in 1..2 /\ w[1] = x[j]
      /\ Len(w) = IF x[j] = ESC THEN 2 ELSE 1
  <2>1. j \in 1..Len(x) /\ j > 1
    OBVIOUS
  <2>2. /\ w \in Seq(Byte) /\ Len(w) \in 1..2 /\ w[1] = x[j]
        /\ Len(w) = IF j > 1 /\ x[j] = ESC THEN 2 ELSE 1
    BY <2>1, WrittenBytes
  <2> QED BY <2>1, <2>2, Zenon
<1>2. z = y \o w
  OBVIOUS
<1> HIDE DEF w
<1>3. y \in Seq(Byte) /\ i \in Nat /\ i >= 1
  BY DEF Kept
<1>4. z \in Seq(Byte) /\ Len(z) = i + Len(w) /\ \A q \in 1..Len(w) : z[i + q] = w[q]
  <2>1. w \in Seq(Byte) /\ y \in Seq(Byte)
    BY <1>1, <1>3
  <2>2. Joined(y, w, z)
    BY <1>2, <2>1, JoinAt
  <2> QED BY <2>2, Zenon DEF Joined
<1>5. Len(z) <= Len(frame) /\ \A q \in 1..Len(z) : frame[q] = z[q]
  BY DEF Begins
<1>6. b \in Seq(Byte) /\ Len(b) \in Nat /\ Len(b) >= 1 /\ \A q \in 1..Len(b) : b[q] = frame[q]
  BY DEF Short
<1>7. CASE Len(z) <= Len(b)
  <2>1. Begins(z, b)
    BY <1>4, <1>5, <1>6, <1>7 DEF Begins
  <2>2. Takes(b, y, z)
    BY <2>1, TakeWritten
  <2>3. Reach(b, y) = Len(y)
    BY <1>1, <1>3, <1>4, <1>6, <1>7 DEF Reach
  <2> QED BY <1>7, <2>2, <2>3 DEF Takes, Reach, Reaching
<1> HIDE DEF i
<1>8. CASE i > Len(b)
  <2>1. ~(Len(y) <= Len(b)) /\ ~(Len(z) <= Len(b))
    BY <1>1, <1>3, <1>4, <1>6, <1>8 DEF i
  <2>2. TakeOne(b, -1) = -1
    BY DEF TakeOne
  <2>3. Reach(b, y) = -1 /\ Reach(b, z) = -1
    BY <2>1 DEF Reach
  <2> QED BY <2>2, <2>3 DEF Reaching
<1>9. CASE i <= Len(b) /\ ~(Len(z) <= Len(b))
  <2>1. Reach(b, y) = i /\ Reach(b, z) = -1
    BY <1>9 DEF Reach, i
  <2>2. CASE i >= Len(b)
    <3>1. TakeOne(b, i) = -1
      BY <2>2 DEF TakeOne
    <3> QED BY <2>1, <3>1 DEF Reaching
  <2>3. CASE i < Len(b)
    <3>1. Len(w) = 2 /\ i = Len(b) - 1
      BY <1>1, <1>3, <1>4, <1>6, <1>9, <2>3
    <3>2. x[j] = ESC
      <4>1. x[j] # ESC => Len(w) = 1
        BY <1>1, Zenon
      <4> QED BY <3>1, <4>1
    <3>3. i + 1 \in 1..Len(b) /\ i + 1 \in 1..Len(z) /\ 1 \in 1..Len(w) /\ i \in 1..Len(b) - 1
      BY <1>1, <1>3, <1>4, <1>6, <3>1
    <3>4. b[i + 1] = ESC
      <4>1. b[i + 1] = frame[i + 1] /\ frame[i + 1] = z[i + 1] /\ z[i + 1] = w[1]
        BY <1>4, <1>5, <1>6, <3>3
      <4> QED BY <1>1, <3>2, <4>1
    <3>5. ~(i = -1 \/ i >= Len(b))
      BY <1>3, <1>6, <2>3
    <3>6. TakeOne(b, i) = -1
      BY <3>1, <3>3, <3>4, <3>5 DEF TakeOne
    <3> QED BY <2>1, <3>6 DEF Reaching
  <2> QED BY <1>3, <1>6, <2>2, <2>3
<1> QED BY <1>1, <1>3, <1>4, <1>6, <1>7, <1>8, <1>9 DEF i

\* A part of a packet is not taken for a packet.
CutOff(b, x) ==
  /\ Taken(b, Len(x))[Len(x)] = -1
  /\ b[1] = x[1] /\ (x[2] # ESC /\ Len(b) >= 2 => b[2] = x[2])

\* So it is with what beast_escape() writes, cut anywhere.
LEMMA CutTaken ==
  ASSUME NEW x \in Seq(Byte), Len(x) > 1, NEW frame, frame = BeastEscape(x), NEW b, Short(b, frame)
  PROVE  CutOff(b, x)
<1> DEFINE n == Len(x)
           taken == Taken(b, n)
<1>0. n \in Nat /\ n > 1 /\ 1 \in 1..n /\ 2 \in 1..n /\ n \in 1..n
  OBVIOUS
<1>1. PICK f : Writes(f, x) /\ frame = f[n]
  BY EscapeSteps
<1>2. \A k \in 1..n : Kept(f[k], x, k)
  BY <1>1, WritesBytes
<1>3. frame \in Seq(Byte) /\ Len(frame) \in Nat /\ Len(frame) >= n
  BY <1>0, <1>1, <1>2 DEF Kept
<1>4. b \in Seq(Byte) /\ Len(b) \in 1..Len(frame) - 1 /\ \A i \in 1..Len(b) : b[i] = frame[i]
  BY DEF Short
<1>5. Begins(f[n], frame)
  BY <1>1, <1>3 DEF Begins
<1>6. \A k \in 1..n : Begins(f[k], frame)
  <2>1. Begins(f[Len(x)], frame) /\ Len(x) > 0
    BY <1>0, <1>5
  <2> QED BY <1>1, <2>1, WritesBegin
<1>7. taken = [k \in 0..n |-> IF k = 0 THEN 0 ELSE TakeOne(b, taken[k - 1])]
  BY <1>0, TakenSteps
<1> HIDE DEF taken
<1>8. f[1] = <<x[1]>> /\ Len(f[1]) = 1
  BY <1>1 DEF Writes
<1>9. \A k \in 1..n : taken[k] = Reach(b, f[k])
  <2> DEFINE P == {m \in Nat : m + 1 \in 1..n => taken[m + 1] = Reach(b, f[m + 1])}
  <2>1. 0 \in P
    <3>1. taken[0] = 0 /\ taken[1] = TakeOne(b, taken[1 - 1]) /\ 1 - 1 = 0 /\ 0 + 1 = 1
      BY <1>0, <1>7
    <3>2. TakeOne(b, 0) = 1
      <4>1. ~(0 = -1 \/ 0 >= Len(b)) /\ 0 \notin 1..Len(b) - 1
        BY <1>4
      <4> QED BY <4>1 DEF TakeOne
    <3>3. Reach(b, f[1]) = 1
      BY <1>4, <1>8 DEF Reach
    <3> QED BY <3>1, <3>2, <3>3
  <2>2. ASSUME NEW m \in P PROVE m + 1 \in P
    <3> DEFINE k == m + 1
               j == k + 1
               y == f[k]
               z == f[j]
    <3>0. m \in Nat /\ k = m + 1
      OBVIOUS
    <3> SUFFICES ASSUME j \in 1..n PROVE taken[j] = Reach(b, z)
      OBVIOUS
    <3>1. k \in 1..n /\ j \in 2..n /\ j - 1 = k /\ j \in 0..n /\ j # 0 /\ j = k + 1
      BY <1>0, <3>0
    <3>2. taken[k] = Reach(b, y)
      BY <3>1
    <3> HIDE DEF k, j
    <3>3. z = y \o Written(x, j)
      <4>1. Follows(f, x, j, k)
        BY <1>1, <3>1, WritesNext
      <4> QED BY <4>1, Zenon DEF Follows
    <3>4. Kept(y, x, k) /\ Begins(z, frame)
      BY <1>2, <1>6, <3>1
    <3> HIDE DEF y, z
    <3>5. Reaching(b, y, z)
      BY <3>1, <3>3, <3>4, TakeCut
    <3>6. taken[j] = TakeOne(b, taken[k])
      BY <1>7, <3>1
    <3> QED BY <3>2, <3>5, <3>6 DEF Reaching
  <2>3. P \in SUBSET Nat
    OBVIOUS
  <2>4. \A m \in Nat : m \in P
    <3> HIDE DEF P
    <3> QED BY <2>1, <2>2, <2>3, Reaches
  <2> SUFFICES ASSUME NEW k \in 1..n PROVE taken[k] = Reach(b, f[k])
    OBVIOUS
  <2>5. k - 1 \in Nat /\ k - 1 + 1 = k
    BY <1>0
  <2>6. k - 1 \in P
    BY <2>4, <2>5, Zenon
  <2> QED BY <2>5, <2>6
<1>10. taken[n] = -1
  <2>1. ~(Len(frame) <= Len(b))
    BY <1>3, <1>4
  <2>2. taken[n] = Reach(b, frame)
    BY <1>0, <1>1, <1>9
  <2> QED BY <2>1, <2>2 DEF Reach
<1>11. b[1] = x[1]
  <2>1. frame[1] = f[1][1]
    <3>1. Begins(f[1], frame)
      BY <1>0, <1>6
    <3> QED BY <1>8, <3>1 DEF Begins
  <2> QED BY <1>4, <1>8, <2>1
<1>12. x[2] # ESC /\ Len(b) >= 2 => b[2] = x[2]
  <2> SUFFICES ASSUME x[2] # ESC, Len(b) >= 2 PROVE b[2] = x[2]
    OBVIOUS
  <2>1. f[2] = f[1] \o Written(x, 2)
    <3>1. f[2] = f[2 - 1] \o Written(x, 2) /\ 2 - 1 = 1
      BY <1>0, <1>1 DEF Writes
    <3> QED BY <3>1
  <2>2. Written(x, 2) = <<x[2]>>
    BY DEF Written
  <2>3. x[1] \in Byte /\ x[2] \in Byte
    BY <1>0
  <2> DEFINE u == <<x[1]>>
             v == <<x[2]>>
             z == f[2]
  <2>4. u \in Seq(Byte) /\ Len(u) = 1 /\ v \in Seq(Byte) /\ Len(v) = 1 /\ v[1] = x[2]
    BY <2>3
  <2>5. z = u \o v
    BY <1>8, <2>1, <2>2, Zenon
  <2>6. Begins(z, frame)
    BY <1>0, <1>6
  <2> HIDE DEF u, v, z
  <2>7. Joined(u, v, z)
    BY <2>4, <2>5, JoinAt
  <2>8. Len(z) = 2 /\ z[2] = x[2]
    <3>1. Len(z) = Len(u) + Len(v) /\ z[Len(u) + 1] = v[1]
      BY <2>4, <2>7 DEF Joined
    <3> QED BY <2>4, <3>1
  <2>9. frame[2] = x[2]
    BY <2>6, <2>8 DEF Begins
  <2> QED BY <1>4, <2>9
<1> QED BY <1>10, <1>11, <1>12 DEF CutOff, taken, n

\* A packet is at most twice as long as it is before it is escaped.
LEMMA EscapeLength ==
  ASSUME NEW x \in Seq(Byte), Len(x) > 0
  PROVE  BeastEscape(x) \in Seq(Byte) /\ Len(BeastEscape(x)) <= 2 * Len(x)
<1> DEFINE n == Len(x)
<1>0. n \in Nat /\ 1 \in 1..n /\ n \in 1..n
  OBVIOUS
<1>1. PICK f : Writes(f, x) /\ BeastEscape(x) = f[n]
  BY EscapeSteps
<1>2. \A k \in 1..n : Kept(f[k], x, k)
  BY <1>1, WritesBytes
<1>3. f[1] = <<x[1]>> /\ Len(f[1]) = 1
  BY <1>1 DEF Writes
<1> DEFINE P == {m \in Nat : m + 1 \in 1..n => Len(f[m + 1]) <= 2 * (m + 1)}
<1>4. 0 \in P
  <2>1. 0 + 1 = 1
    OBVIOUS
  <2>2. Len(f[1]) = 1
    BY <1>3
  <2>3. Len(f[0 + 1]) = 1
    BY <2>1, <2>2, Zenon
  <2>4. 1 <= 2 * (0 + 1) /\ 0 \in Nat
    OBVIOUS
  <2> QED BY <2>3, <2>4, Zenon
<1>5. ASSUME NEW m \in P PROVE m + 1 \in P
  <2> DEFINE k == m + 1
             j == k + 1
             y == f[k]
             z == f[j]
             v == Written(x, j)
  <2>0. m \in Nat /\ k = m + 1
    OBVIOUS
  <2> SUFFICES ASSUME j \in 1..n PROVE Len(z) <= 2 * j
    OBVIOUS
  <2>1. k \in 1..n /\ j \in 2..n /\ j - 1 = k /\ j = k + 1
    BY <1>0, <2>0
  <2>2. Len(y) <= 2 * k
    BY <2>1
  <2> HIDE DEF k, j
  <2>3. z = y \o v
    <3>1. Follows(f, x, j, k)
      BY <1>1, <2>1, WritesNext
    <3> QED BY <3>1, Zenon DEF Follows
  <2>4. y \in Seq(Byte) /\ Len(y) \in Nat
    BY <1>2, <2>1 DEF Kept
  <2>5. v \in Seq(Byte) /\ Len(v) \in 1..2
    BY <2>1, WrittenBytes
  <2> HIDE DEF y, z, v
  <2>6. Len(z) = Len(y) + Len(v)
    BY <2>3, <2>4, <2>5, JoinLen
  <2> DEFINE ly == Len(y)
             lv == Len(v)
             lz == Len(z)
  <2>7. k \in Nat /\ j \in Nat /\ j = k + 1
    BY <1>0, <2>1
  <2>8. ly \in Nat /\ lv \in 1..2 /\ lz = ly + lv /\ ly <= 2 * k
    BY <2>2, <2>4, <2>5, <2>6
  <2> HIDE DEF ly, lv, lz
  <2>9. lz <= 2 * j
    BY <2>7, <2>8
  <2> QED BY <2>9 DEF lz
<1>6. P \in SUBSET Nat
  OBVIOUS
<1>7. \A m \in Nat : m \in P
  <2> HIDE DEF P
  <2> QED BY <1>4, <1>5, <1>6, Reaches
<1>8. n - 1 \in Nat /\ n - 1 + 1 = n
  BY <1>0
<1>9. n - 1 \in P
  BY <1>7, <1>8, Zenon
<1>10. Len(f[n]) <= 2 * n
  BY <1>0, <1>8, <1>9
<1>11. f[n] \in Seq(Byte)
  BY <1>0, <1>2 DEF Kept
<1> QED BY <1>1, <1>10, <1>11

\* beast_parse() waits for the rest of a packet.
LEMMA BeastWaits ==
  ASSUME NEW p, Whole(p), p.stamp \in Seq(Byte), Len(p.stamp) = 7, NEW b, Short(b, BeastSerialize(p)), NEW st
  PROVE  Untouched(Parse("beast", b, st), st) /\ b[1] = ESC
<1> DEFINE x == Plain(p)
           t == p.type
           frame == BeastSerialize(p)
           n == 9 + PayloadLen[t]
<1>1. t \in 1..3 /\ p.payload \in Seq(Byte) /\ Len(p.payload) = PayloadLen[t]
  BY DEF Whole
<1>2. x = <<ESC, 48 + t>> \o p.stamp \o p.payload /\ frame = BeastEscape(x) /\ Short(b, frame)
  BY DEF Plain, BeastSerialize
<1> HIDE DEF x, t, frame
<1>3. PlainParts(x, t, p.stamp, p.payload)
  BY <1>1, <1>2, PlainAt
<1>4. x \in Seq(Byte) /\ Len(x) = n /\ Len(x) > 1 /\ x[1] = ESC /\ x[2] = 48 + t
  <2>1. x \in Seq(Byte) /\ Len(x) = 9 + Len(p.payload) /\ x[1] = ESC /\ x[2] = 48 + t
    BY <1>3 DEF PlainParts
  <2> QED BY <1>1, <2>1
<1>5. CutOff(b, x)
  BY <1>2, <1>4, CutTaken
<1>6. /\ Taken(b, n)[n] = -1 /\ b[1] = ESC /\ (x[2] # ESC /\ Len(b) >= 2 => b[2] = 48 + t)
  BY <1>4, <1>5 DEF CutOff
<1>7. BeastParse(b, st) = Failed(st)
  <2>1. CASE Len(b) < 9
    BY <2>1 DEF BeastParse
  <2>2. CASE ~(Len(b) < 9)
    <3>1. Len(b) \in Nat
      BY <1>2 DEF Short
    <3>2. x[2] # ESC
      BY <1>1, <1>4 DEF ESC
    <3>3. b[2] = 48 + t
      BY <1>6, <2>2, <3>1, <3>2
    <3>4. b[2] - 48 = t
      BY <1>1, <3>3
    <3>5. BeastPacket(b, t, st) = Failed(st)
      BY <1>6, Zenon DEF BeastPacket
    <3>6. BeastParse(b, st) = Failed(st) \/ BeastParse(b, st) = BeastPacket(b, b[2] - 48, st)
      BY Zenon DEF BeastParse
    <3> QED BY <3>4, <3>5, <3>6
  <2> QED BY <2>1, <2>2
<1>8. Parse("beast", b, st) = [BeastParse(b, st) EXCEPT !.format = "beast"]
  BY ParseNames
<1> QED BY <1>6, <1>7, <1>8, TaggedUntouched

\* So do all parsers.
LEMMA BeastWaited ==
  ASSUME NEW p, Whole(p), p.stamp \in Seq(Byte), Len(p.stamp) = 7, NEW b, Short(b, BeastSerialize(p)),
         NEW known \in {"auto", "beast"}, NEW st
  PROVE  Untouched(ParserWrapper(known, b, st), st)
<1>1. Untouched(Parse("beast", b, st), st) /\ b[1] = ESC
  BY BeastWaits
<1>2. CASE known = "beast"
  BY <1>1, <1>2 DEF ParserWrapper
<1>3. CASE known = "auto"
  <2>1. b[1] # Star /\ b[1] \notin {CR, LF, OpenBrace} /\ b[1] # FieldOne
    BY <1>1 DEF ESC, Star, CR, LF, OpenBrace, FieldOne
  <2>2. b \in Seq(Byte) /\ Len(b) > 0
    BY DEF Short
  <2>3. /\ Untouched(Parse("airspy_adsb", b, st), st) /\ Untouched(Parse("json", b, st), st)
        /\ Untouched(Parse("proto", b, st), st) /\ Untouched(Parse("raw", b, st), st)
    BY <2>1, <2>2, NoStar, NoBrace, NoTag, NoRawStar
  <2>4. ParserWrapper("auto", b, st) = Parse("raw", b, st)
    BY <1>1, <2>3, FifthTried
  <2> QED BY <1>3, <2>3, <2>4
<1> QED BY <1>2, <1>3

\* Streams that are understood to their end.
Strung(s) ==
  /\ s.wire \in Seq(Byte) /\ Len(s.frames) \in Nat /\ s.good = Len(s.frames) /\ Spelled(s)

\* What the peer's beast_serialize() has written for a packet.
BeastFrameOf(f) ==
  \E p : /\ Whole(p) /\ p.stamp \in Seq(Byte) /\ Len(p.stamp) = 7
         /\ f.bytes = BeastSerialize(p) /\ f.due = Len(f.bytes)
         /\ f.packet = Packet(p.type, 0, p.stamp, p.payload)

BeastStream(s) ==
  Strung(s) /\ s.format = "beast" /\ \A j \in 1..Len(s.frames) : BeastFrameOf(s.frames[j])

\* The length of a packet.
LEMMA BeastLength ==
  ASSUME NEW p, Whole(p), p.stamp \in Seq(Byte), Len(p.stamp) = 7
  PROVE  BeastSerialize(p) \in Seq(Byte) /\ Len(BeastSerialize(p)) \in 1..BufLenMax
<1> DEFINE x == Plain(p)
           t == p.type
<1>1. t \in 1..3 /\ p.payload \in Seq(Byte) /\ Len(p.payload) = PayloadLen[t]
  BY DEF Whole
<1>2. x = <<ESC, 48 + t>> \o p.stamp \o p.payload /\ BeastSerialize(p) = BeastEscape(x)
  BY DEF Plain, BeastSerialize
<1> HIDE DEF x, t
<1>3. PlainParts(x, t, p.stamp, p.payload)
  BY <1>1, <1>2, PlainAt
<1>4. x \in Seq(Byte) /\ Len(x) = 9 + PayloadLen[t]
  BY <1>1, <1>3 DEF PlainParts
<1>5. PayloadLen[t] \in Nat /\ PayloadLen[t] <= 14
  BY <1>1, Lengths
<1>6. BeastEscape(x) \in Seq(Byte) /\ Len(BeastEscape(x)) <= 2 * Len(x)
  BY <1>4, <1>5, EscapeLength
<1>7. Len(BeastSerialize(p)) >= 9
  <2>1. <<>> \in Seq(Byte)
    OBVIOUS
  <2> QED BY <2>1, BeastFrame
<1>8. (9 + 14) * 2 <= BufLenMax /\ BufLenMax \in Nat
  BY ReceiveAssumption
<1> DEFINE n == PayloadLen[t]
           m == Len(BeastEscape(x))
           l == Len(x)
<1>9. n \in Nat /\ n <= 14 /\ l = 9 + n
  BY <1>4, <1>5
<1>10. m \in Nat /\ m <= 2 * l
  BY <1>6
<1>11. m >= 9
  BY <1>2, <1>7, Zenon
<1> HIDE DEF n, m, l
<1>12. m \in 1..BufLenMax
  BY <1>8, <1>9, <1>10, <1>11
<1> QED BY <1>2, <1>6, <1>12 DEF m

\* beast: a stream of any number of packets, whatever is in them, is taken packet
\* by packet, wherever the reads cut it (beast.c:42-154).
THEOREM BeastFramed ==
  ASSUME NEW s, BeastStream(s)
  PROVE  Framed(s)
<1>1. Strung(s) /\ s.format = "beast" /\ \A j \in 1..Len(s.frames) : BeastFrameOf(s.frames[j])
  BY DEF BeastStream
<1>2. ASSUME NEW j \in 1..Len(s.frames)
      PROVE  /\ s.frames[j].bytes \in Seq(Byte) /\ Len(s.frames[j].bytes) \in 1..BufLenMax
             /\ s.frames[j].due = Len(s.frames[j].bytes)
  <2>1. PICK p : /\ Whole(p) /\ p.stamp \in Seq(Byte) /\ Len(p.stamp) = 7
                 /\ s.frames[j].bytes = BeastSerialize(p) /\ s.frames[j].due = Len(s.frames[j].bytes)
    BY <1>1 DEF BeastFrameOf
  <2> QED BY <2>1, BeastLength
<1>3. Laid(s)
  <2>1. \A j \in 1..Len(s.frames) :
          s.frames[j].bytes \in Seq(Byte) /\ s.frames[j].due \in 1..Len(s.frames[j].bytes)
    BY <1>2
  <2>2. s.good \in 0..Len(s.frames)
    BY <1>1 DEF Strung
  <2> QED BY <1>1, <2>1, <2>2 DEF Laid, Strung
<1>4. ASSUME NEW j \in 1..Len(s.frames)
      PROVE  WaitsFor(s, j - 1, j) /\ TakesWhole(s, j - 1, j)
  <2> DEFINE i == j - 1
             st == StateAt(s, i)
             f == s.frames[j]
  <2>1. PICK p : /\ Whole(p) /\ p.stamp \in Seq(Byte) /\ Len(p.stamp) = 7
                 /\ f.bytes = BeastSerialize(p)
                 /\ f.packet = Packet(p.type, 0, p.stamp, p.payload)
    BY <1>1 DEF BeastFrameOf
  <2> HIDE DEF i
  <2>2. Known(s, i) \in {"auto", "beast"}
    BY <1>1 DEF Known
  <2>3. StateAt(s, j) = Stamp(st, p.stamp)
    <3>1. f.packet.type \in 1..3 /\ f.packet.stamp = p.stamp
      BY <2>1 DEF Packet, Whole
    <3>2. f.packet # NoPacket
      BY <3>1, NotNone
    <3>3. p.stamp # <<>>
      <4>1. p.stamp = <<>> => Len(p.stamp) = 0
        BY Zenon, Len(<<>>) = 0
      <4> QED BY <2>1, <4>1
    <3>4. i = j - 1
      BY DEF i
    <3>5. StateAt(s, j) = Stamp(StateAt(s, i), f.packet.stamp)
      BY <1>3, <3>1, <3>2, <3>3, <3>4, StateSteps
    <3> QED BY <3>1, <3>5
  <2> HIDE DEF st
  <2>4. WaitsFor(s, i, j)
    <3> SUFFICES ASSUME NEW b, Short(b, f.bytes)
                 PROVE  NextAwaited(ParserWrapper(Known(s, i), b, StateAt(s, i)), s, i)
      BY DEF WaitsFor
    <3>1. Untouched(ParserWrapper(Known(s, i), b, st), st)
      BY <2>1, <2>2, BeastWaited
    <3> QED BY <3>1 DEF Untouched, NextAwaited, st
  <2>5. TakesWhole(s, i, j)
    <3> SUFFICES ASSUME NEW rest \in Seq(Byte)
                 PROVE  WholeTaken(ParserWrapper(Known(s, i), f.bytes \o rest, StateAt(s, i)), s, j)
      BY DEF TakesWhole
    <3> DEFINE r == ParserWrapper(Known(s, i), f.bytes \o rest, st)
    <3>1. FoundAt(r, "beast", Len(f.bytes), f.packet, Stamp(st, p.stamp))
      <4>1. CASE Known(s, i) = "auto"
        BY <2>1, <4>1, BeastDetected
      <4>2. CASE Known(s, i) = "beast"
        <5>1. r = Parse("beast", f.bytes \o rest, st)
          BY <4>2 DEF ParserWrapper
        <5> HIDE DEF r
        <5> QED BY <2>1, <5>1, BeastRoundTrip
      <4> QED BY <2>2, <4>1, <4>2
    <3> HIDE DEF r
    <3>2. WholeTaken(r, s, j)
      BY <1>1, <2>3, <3>1 DEF FoundAt, Found, WholeTaken
    <3> QED BY <3>2 DEF r, st
  <2> QED BY <2>4, <2>5 DEF i
<1>5. s.good = Len(s.frames)
  BY <1>1 DEF Strung
<1>6. \A j \in 1..Len(s.frames) : Len(s.frames[j].bytes) <= BufLenMax
  BY <1>2, ReceiveAssumption
<1> QED BY <1>2, <1>3, <1>4, <1>5, <1>6, WholeFrames

-----------------------------------------------------------------------------
(* Streams of proto *)

\* Where the parts of a message are.
LEMMA ProtoBytes ==
  ASSUME NEW kind \in Byte, NEW load \in Seq(Byte), Len(load) < 127, NEW x, x = ProtoMessage(kind, load)
  PROVE  Wrapped(x, load) /\ Len(x) = 3 + Len(load)
<1>1. x \in Seq(Byte)
  <2> DEFINE n == 1 + Len(load)
             one == <<FieldOne>>
             len == <<n>>
             head == one \o len
             k == <<kind>>
             hk == head \o k
  <2>1. n < 128 /\ n \in Byte
    <3>1. \A v \in Nat : v < 127 => 1 + v < 128 /\ 1 + v \in 0..255
      OBVIOUS
    <3>2. Len(load) \in Nat
      OBVIOUS
    <3> QED BY <3>1, <3>2, Zenon DEF Byte
  <2>2. x = hk \o load
    BY <2>1 DEF ProtoMessage
  <2>3. one \in Seq(Byte) /\ k \in Seq(Byte)
    BY DEF FieldOne, Byte
  <2>4. len \in Seq(Byte)
    <3> HIDE DEF n
    <3> QED BY <2>1
  <2> HIDE DEF one, len, k
  <2>5. head \in Seq(Byte)
    BY <2>3, <2>4
  <2> HIDE DEF head
  <2>6. hk \in Seq(Byte)
    BY <2>3, <2>5
  <2> HIDE DEF hk
  <2> QED BY <2>2, <2>6
<1>2. <<>> \in Seq(Byte)
  OBVIOUS
<1>3. x \o <<>> = x
  BY <1>1, ConcatEmptySeq
<1>4. Wrapped(x \o <<>>, load) /\ Len(x) = 3 + Len(load)
  BY <1>2, ProtoUnwrapMessage
<1> QED BY <1>3, <1>4

\* proto_unwrap() waits for the rest of a message.
LEMMA ProtoWaits ==
  ASSUME NEW load \in Seq(Byte), Len(load) < 127, NEW x, Wrapped(x, load), Len(x) = 3 + Len(load),
         NEW b, Short(b, x), NEW st
  PROVE  /\ Untouched(Parse("proto", b, st), st)
         /\ b \in Seq(Byte) /\ Len(b) > 0 /\ b[1] = FieldOne /\ (Len(b) > 1 => b[2] = 1 + Len(load))
<1> DEFINE n == 1 + Len(load)
<1>1. x[1] = FieldOne /\ x[2] = n
  BY DEF Wrapped
<1>2. b \in Seq(Byte) /\ Len(b) \in Nat /\ Len(b) >= 1 /\ Len(b) < 2 + n /\ \A k \in 1..Len(b) : b[k] = x[k]
  BY DEF Short
<1>3. b[1] = FieldOne /\ (Len(b) > 1 => b[2] = n)
  BY <1>1, <1>2
<1>4. n \in 1..127 /\ n % 128 = n
  <2>1. \A v \in Nat : v < 127 => 1 + v \in 1..127 /\ (1 + v) % 128 = 1 + v
    OBVIOUS
  <2>2. Len(load) \in Nat
    OBVIOUS
  <2> QED BY <2>1, <2>2, Zenon
<1> HIDE DEF n
<1> DEFINE last == {i \in 0..3 : Len(b) > i + 1 /\ b[i + 2] < 128}
<1>5. MoreBytes(b) = IF last = {} THEN {} ELSE {Min(last)}
  BY DEF MoreBytes
<1>6. ProtoUnwrap(b) = [used |-> 0, body |-> <<>>]
  <2>1. CASE Len(b) = 1
    <3>1. last = {}
      BY <2>1
    <3>2. MoreBytes(b) = {}
      BY <1>5, <3>1
    <3> QED BY <3>2, Zenon DEF ProtoUnwrap
  <2>2. CASE Len(b) > 1
    <3>1. b[0 + 2] = n
      <4>1. 0 + 2 = 2
        OBVIOUS
      <4> QED BY <1>3, <2>2, <4>1
    <3>2. 0 \in last /\ last \in SUBSET Nat /\ \A i \in last : 0 <= i
      BY <1>2, <1>4, <2>2, <3>1
    <3> HIDE DEF last
    <3>3. Min(last) = 0
      BY <3>2, MinIs
    <3>4. MoreBytes(b) = {0}
      BY <1>5, <3>2, <3>3
    <3>5. (CHOOSE i \in MoreBytes(b) : TRUE) = 0
      BY <3>4
    <3>6. Varint(b, 0) = n
      BY <1>4, <3>1 DEF Varint
    <3>7. 0 + 2 + n > Len(b)
      BY <1>2, <1>4
    <3> QED BY <3>5, <3>6, <3>7, Zenon DEF ProtoUnwrap
  <2>3. Len(b) = 1 \/ Len(b) > 1
    <3>1. \A v \in Nat : v >= 1 => v = 1 \/ v > 1
      OBVIOUS
    <3> QED BY <1>2, <3>1, Zenon
  <2> QED BY <2>1, <2>2, <2>3, Zenon
<1>7. ProtoUnwrap(b).body = <<>>
  BY <1>6
<1>8. ProtoParse(b, st) = Failed(st)
  BY <1>7 DEF ProtoParse
<1>9. Untouched(Parse("proto", b, st), st)
  <2>1. Parse("proto", b, st) = [ProtoParse(b, st) EXCEPT !.format = "proto"]
    BY ParseNames
  <2> QED BY <1>8, <2>1, TaggedUntouched
<1>10. Len(b) > 0
  BY <1>2
<1> QED BY <1>2, <1>3, <1>9, <1>10 DEF n

\* All parsers wait for the rest of the header.
LEMMA ProtoHelloWaits ==
  ASSUME NEW b, Short(b, ProtoHello), NEW st
  PROVE  Untouched(ParserWrapper("auto", b, st), st)
<1> DEFINE load == <<1, 2, 3>>
           x == ProtoHello
<1>1. load \in Seq(Byte) /\ Len(load) = 3 /\ Len(load) < 127 /\ x = ProtoMessage(Header, load)
  BY DEF ProtoHello, Byte
<1>2. Header \in Byte
  BY DEF Header, Byte
<1> HIDE DEF load, x
<1>3. Wrapped(x, load) /\ Len(x) = 3 + Len(load) /\ Short(b, x)
  <2>1. Short(b, x)
    BY DEF x
  <2> QED BY <1>1, <1>2, <2>1, ProtoBytes
<1>4. /\ Untouched(Parse("proto", b, st), st) /\ b \in Seq(Byte) /\ Len(b) > 0 /\ b[1] = FieldOne
      /\ (Len(b) > 1 => b[2] = 1 + Len(load))
  BY <1>1, <1>3, ProtoWaits
<1>5. b[1] \notin {Star, ESC} /\ b[1] \in {CR, LF} /\ (Len(b) > 1 => b[2] = 4)
  BY <1>1, <1>4 DEF FieldOne, Star, ESC, LF
<1>6. JsonEnd(b) = 0
  <2>1. CASE Len(b) = 1
    <3>1. \A i \in 0 + 1..Len(b) : b[i] \in {CR, LF}
      BY <1>5, <2>1
    <3>2. Blank(b, 0) = Len(b) - 0
      BY <1>4, <3>1, BlankAll
    <3>3. Len(b) <= Blank(b, 0)
      BY <1>4, <3>2
    <3> QED BY <3>3, Zenon DEF JsonEnd
  <2>2. CASE Len(b) # 1
    <3>1. Len(b) \in Nat /\ 1 < Len(b)
      <4>1. \A v \in Nat : v > 0 /\ v # 1 => 1 < v
        OBVIOUS
      <4>2. Len(b) \in Nat
        BY <1>4
      <4> QED BY <1>4, <2>2, <4>1, <4>2, Zenon
    <3>2. b[1 + 1] \notin {CR, LF} /\ b[1 + 1] # OpenBrace
      <4>1. b[2] = 4
        BY <1>5, <3>1
      <4> QED BY <4>1 DEF CR, LF, OpenBrace
    <3>3. \A i \in 0 + 1..1 : b[i] \in {CR, LF}
      BY <1>5
    <3>4. Blank(b, 0) = 1 - 0
      BY <1>4, <3>1, <3>2, <3>3, BlankTo
    <3>5. Blank(b, 0) = 1
      BY <3>4
    <3> QED BY <3>2, <3>5, Zenon DEF JsonEnd
  <2> QED BY <2>1, <2>2
<1>7. JsonParse(b, st) = Failed(st)
  BY <1>6 DEF JsonParse
<1>8. Untouched(Parse("json", b, st), st)
  BY <1>7, ParseNames, TaggedUntouched
<1>9. /\ Untouched(Parse("airspy_adsb", b, st), st) /\ Untouched(Parse("beast", b, st), st)
      /\ Untouched(Parse("raw", b, st), st)
  BY <1>5, NoStar, NoEscape, NoRawStar
<1>10. ParserWrapper("auto", b, st) = Parse("raw", b, st)
  BY <1>4, <1>8, <1>9, FifthTried
<1> QED BY <1>9, <1>10

\* What the peer's proto_serialize() has written for a packet.
ProtoFrameOf(f) ==
  \E p : /\ Sendable(p) /\ f.bytes = ProtoSerialize(p) /\ f.due = Len(f.bytes)
         /\ f.packet = Packet(p.type, p.hops, p.stamp, p.payload)

\* What its proto_hello() has written.
ProtoHelloOf(f) == f.bytes = ProtoHello /\ f.due = Len(f.bytes) /\ f.packet = NoPacket

ProtoStream(s) ==
  /\ Strung(s) /\ s.format = "proto"
  /\ \A j \in 1..Len(s.frames) : IF j = 1 THEN ProtoHelloOf(s.frames[j]) ELSE ProtoFrameOf(s.frames[j])

\* Both are messages of a length that is one byte, and of at most 20 bytes.
IsMessage(x) ==
  \E kind \in Byte : \E load \in Seq(Byte) :
    Len(load) <= 17 /\ x = ProtoMessage(kind, load)

\* So are the header and each packet.
LEMMA ProtoMessages ==
  ASSUME NEW f, ProtoHelloOf(f) \/ ProtoFrameOf(f)
  PROVE  IsMessage(f.bytes)
<1>1. CASE ProtoHelloOf(f)
  <2> DEFINE load == <<1, 2, 3>>
  <2>1. load \in Seq(Byte) /\ Len(load) <= 17 /\ f.bytes = ProtoMessage(Header, load)
    BY <1>1 DEF ProtoHelloOf, ProtoHello, Byte
  <2>2. Header \in Byte
    BY DEF Header, Byte
  <2> HIDE DEF load
  <2> QED BY <2>1, <2>2 DEF IsMessage
<1>2. CASE ProtoFrameOf(f)
  <2>1. PICK p : Sendable(p) /\ f.bytes = ProtoSerialize(p)
    BY <1>2 DEF ProtoFrameOf
  <2> DEFINE load == <<p.hops>> \o p.stamp \o p.payload
  <2>2. /\ p.type \in 1..3 /\ p.payload \in Seq(Byte) /\ Len(p.payload) = PayloadLen[p.type]
        /\ p.hops \in Byte /\ p.stamp \in Seq(Byte) /\ Len(p.stamp) = 2
    BY <2>1 DEF Sendable, Whole
  <2>3. f.bytes = ProtoMessage(p.type, load)
    BY <2>1 DEF ProtoSerialize
  <2> HIDE DEF load
  <2>4. Carries(load, p.hops, p.stamp, p.payload)
    BY <2>2, CarriedParts DEF load
  <2>5. load \in Seq(Byte) /\ Len(load) = 3 + Len(p.payload)
    BY <2>4, Zenon DEF Carries
  <2>6. p.type \in Byte
    BY <2>2 DEF Byte
  <2>7. Len(load) <= 17
    <3>1. PayloadLen[p.type] \in Nat /\ PayloadLen[p.type] <= 14
      BY <2>2, Lengths
    <3> QED BY <2>2, <2>5, <3>1
  <2> QED BY <2>3, <2>5, <2>6, <2>7 DEF IsMessage
<1> QED BY <1>1, <1>2

\* What they look like.
LEMMA MessageBytes ==
  ASSUME NEW x, IsMessage(x)
  PROVE  /\ x \in Seq(Byte) /\ Len(x) \in 1..BufLenMax
         /\ \A b, st : Short(b, x) => Untouched(Parse("proto", b, st), st)
<1>1. PICK kind \in Byte, load \in Seq(Byte) : Len(load) <= 17 /\ x = ProtoMessage(kind, load)
  BY DEF IsMessage
<1>2. Len(load) < 127 /\ Len(load) \in Nat
  BY <1>1
<1>3. Wrapped(x, load) /\ Len(x) = 3 + Len(load)
  BY <1>1, <1>2, ProtoBytes
<1>4. x \in Seq(Byte)
  BY <1>3 DEF Wrapped
<1>5. Len(x) \in 1..BufLenMax
  <2>1. 20 <= BufLenMax /\ BufLenMax \in Nat
    BY ReceiveAssumption
  <2>2. \A v \in Nat : v <= 17 => 3 + v \in 1..20
    OBVIOUS
  <2>3. Len(x) \in 1..20
    BY <1>1, <1>2, <1>3, <2>2, Zenon
  <2>4. \A v \in 1..20 : v \in 1..BufLenMax
    BY <2>1
  <2> QED BY <2>3, <2>4, Zenon
<1>6. ASSUME NEW b, NEW st, Short(b, x) PROVE Untouched(Parse("proto", b, st), st)
  BY <1>2, <1>3, <1>6, ProtoWaits
<1> QED BY <1>4, <1>5, <1>6

\* proto: a stream of a header and any number of packets, whatever is in them, is
\* taken message by message, wherever the reads cut it (proto.c:30-277).
THEOREM ProtoFramed ==
  ASSUME NEW s, ProtoStream(s)
  PROVE  Framed(s)
<1>1. /\ Strung(s) /\ s.format = "proto"
      /\ \A j \in 1..Len(s.frames) : IF j = 1 THEN ProtoHelloOf(s.frames[j]) ELSE ProtoFrameOf(s.frames[j])
  BY DEF ProtoStream
<1>2. ASSUME NEW j \in 1..Len(s.frames)
      PROVE  IsMessage(s.frames[j].bytes) /\ s.frames[j].due = Len(s.frames[j].bytes)
  <2>1. ProtoHelloOf(s.frames[j]) \/ ProtoFrameOf(s.frames[j])
    BY <1>1
  <2>2. s.frames[j].due = Len(s.frames[j].bytes)
    BY <2>1 DEF ProtoHelloOf, ProtoFrameOf
  <2> QED BY <2>1, <2>2, ProtoMessages
<1>3. Laid(s)
  <2>1. \A j \in 1..Len(s.frames) :
          s.frames[j].bytes \in Seq(Byte) /\ s.frames[j].due \in 1..Len(s.frames[j].bytes)
    <3> SUFFICES ASSUME NEW j \in 1..Len(s.frames)
                 PROVE  s.frames[j].bytes \in Seq(Byte) /\ s.frames[j].due \in 1..Len(s.frames[j].bytes)
      OBVIOUS
    <3>1. s.frames[j].bytes \in Seq(Byte) /\ Len(s.frames[j].bytes) \in 1..BufLenMax
      BY <1>2, MessageBytes
    <3> QED BY <1>2, <3>1
  <2>2. s.good \in 0..Len(s.frames)
    BY <1>1 DEF Strung
  <2> QED BY <1>1, <2>1, <2>2 DEF Laid, Strung
<1>4. ASSUME NEW j \in 1..Len(s.frames), j = 1
      PROVE  WaitsFor(s, 0, 1) /\ TakesWhole(s, 0, 1)
  <2> DEFINE st == StateAt(s, 0)
             f == s.frames[1]
  <2>1. Known(s, 0) = "auto" /\ f.bytes = ProtoHello /\ f.packet = NoPacket /\ 1 \in 1..Len(s.frames)
    BY <1>1, <1>4 DEF Known, ProtoHelloOf
  <2>2. StateAt(s, 1) = Introduced(st)
    <3>1. 0 = 1 - 1
      OBVIOUS
    <3> QED BY <1>3, <2>1, <3>1, StateSteps
  <2> HIDE DEF st
  <2>3. WaitsFor(s, 0, 1)
    <3> SUFFICES ASSUME NEW b, Short(b, f.bytes)
                 PROVE  NextAwaited(ParserWrapper(Known(s, 0), b, StateAt(s, 0)), s, 0)
      BY DEF WaitsFor
    <3>1. Untouched(ParserWrapper("auto", b, st), st)
      BY <2>1, ProtoHelloWaits
    <3> QED BY <2>1, <3>1 DEF Untouched, NextAwaited, st
  <2>4. TakesWhole(s, 0, 1)
    <3> SUFFICES ASSUME NEW rest \in Seq(Byte)
                 PROVE  WholeTaken(ParserWrapper(Known(s, 0), f.bytes \o rest, StateAt(s, 0)), s, 1)
      BY DEF TakesWhole
    <3> DEFINE r == ParserWrapper("auto", ProtoHello \o rest, st)
    <3>1. FoundAt(r, "proto", Len(ProtoHello), NoPacket, Introduced(st))
      BY ProtoHelloDetected
    <3> HIDE DEF r
    <3>2. WholeTaken(r, s, 1)
      BY <1>1, <2>1, <2>2, <3>1 DEF FoundAt, Found, WholeTaken
    <3> QED BY <2>1, <3>2 DEF r, st
  <2> QED BY <2>3, <2>4
<1>5. ASSUME NEW j \in 1..Len(s.frames), j # 1, NEW i, i = j - 1
      PROVE  WaitsFor(s, i, j) /\ TakesWhole(s, i, j)
  <2> DEFINE st == StateAt(s, i)
             f == s.frames[j]
  <2>1. PICK p : /\ Sendable(p) /\ f.bytes = ProtoSerialize(p)
                 /\ f.packet = Packet(p.type, p.hops, p.stamp, p.payload)
    BY <1>1, <1>5 DEF ProtoFrameOf
  <2>2. i # 0 /\ i \in Nat /\ 1 \in 1..i /\ 1 \in 1..Len(s.frames)
    <3>1. Len(s.frames) \in Nat
      BY <1>1 DEF Strung
    <3> QED BY <1>5, <3>1
  <2>3. Known(s, i) = "proto"
    BY <1>1, <2>2 DEF Known
  <2>4. st.header
    <3>1. s.frames[1].packet = NoPacket
      BY <1>1, <2>2 DEF ProtoHelloOf
    <3> QED BY <2>2, <3>1 DEF StateAt
  <2>5. StateAt(s, j) = Stamp(st, p.stamp)
    <3>1. f.packet.type \in 1..3 /\ f.packet.stamp = p.stamp
      BY <2>1 DEF Packet, Sendable, Whole
    <3>2. f.packet # NoPacket
      BY <3>1, NotNone
    <3>3. p.stamp # <<>>
      <4>1. p.stamp = <<>> => Len(p.stamp) = 0
        BY Zenon, Len(<<>>) = 0
      <4> QED BY <2>1, <4>1 DEF Sendable
    <3>4. StateAt(s, j) = Stamp(StateAt(s, i), f.packet.stamp)
      BY <1>3, <1>5, <3>1, <3>2, <3>3, StateSteps
    <3> QED BY <3>1, <3>4
  <2> HIDE DEF st
  <2>6. WaitsFor(s, i, j)
    <3> SUFFICES ASSUME NEW b, Short(b, f.bytes)
                 PROVE  NextAwaited(ParserWrapper(Known(s, i), b, StateAt(s, i)), s, i)
      BY DEF WaitsFor
    <3>1. Untouched(Parse("proto", b, st), st)
      BY <1>2, MessageBytes
    <3>2. ParserWrapper("proto", b, st) = Parse("proto", b, st)
      BY DEF ParserWrapper
    <3> QED BY <2>3, <3>1, <3>2 DEF Untouched, NextAwaited, st
  <2>7. TakesWhole(s, i, j)
    <3> SUFFICES ASSUME NEW rest \in Seq(Byte)
                 PROVE  WholeTaken(ParserWrapper(Known(s, i), f.bytes \o rest, StateAt(s, i)), s, j)
      BY DEF TakesWhole
    <3> DEFINE r == Parse("proto", f.bytes \o rest, st)
    <3>1. FoundAt(r, "proto", Len(f.bytes), f.packet, Stamp(st, p.stamp))
      BY <2>1, <2>4, ProtoRoundTrip
    <3>2. ParserWrapper("proto", f.bytes \o rest, st) = r
      BY DEF ParserWrapper
    <3> HIDE DEF r
    <3>3. WholeTaken(r, s, j)
      BY <1>1, <2>5, <3>1 DEF FoundAt, Found, WholeTaken
    <3> QED BY <2>3, <3>2, <3>3 DEF st
  <2> QED BY <2>6, <2>7
<1>6. ASSUME NEW j \in 1..Len(s.frames)
      PROVE  WaitsFor(s, j - 1, j) /\ TakesWhole(s, j - 1, j)
  <2>1. CASE j = 1
    <3>1. 1 - 1 = 0
      OBVIOUS
    <3> QED BY <1>4, <2>1, <3>1
  <2>2. CASE j # 1
    <3> DEFINE i == j - 1
    <3>1. i = j - 1
      OBVIOUS
    <3> HIDE DEF i
    <3>2. WaitsFor(s, i, j) /\ TakesWhole(s, i, j)
      BY <1>5, <2>2, <3>1
    <3> QED BY <3>2 DEF i
  <2> QED BY <2>1, <2>2
<1>7. s.good = Len(s.frames)
  BY <1>1 DEF Strung
<1>8. ASSUME NEW j \in 1..Len(s.frames) PROVE Len(s.frames[j].bytes) <= BufLenMax
  BY <1>2, MessageBytes, ReceiveAssumption
<1> QED BY <1>2, <1>3, <1>6, <1>7, <1>8, WholeFrames

-----------------------------------------------------------------------------
(* Lines of which only a part has come *)

\* A line of raw or airspy_adsb: a payload of type t, and a line end at(k).
IsLine(x, t, n, k, eol) ==
  /\ t \in 1..3 /\ n = 1 + 2 * PayloadLen[t] /\ x \in Seq(Byte) /\ eol \in LineEnds
  /\ k \in Nat /\ k > n /\ Len(x) = k + Len(eol)
  /\ x[1] = Star /\ (\A i \in 2..n : x[i] \in HexDigits) /\ x[n + 1] = Semicolon
  /\ \A i \in 1..Len(eol) : x[k + i] = eol[i]

\* The lengths of the three types, as numbers.
LEMMA LineLengths ==
  ASSUME NEW t \in 1..3, NEW n, n = 1 + 2 * PayloadLen[t]
  PROVE  (t = 1 /\ n = 5) \/ (t = 2 /\ n = 15) \/ (t = 3 /\ n = 29)
BY Lengths

\* The end of a line is not found in a part of it.
LEMMA LineWaits ==
  ASSUME NEW x, NEW t, NEW n, NEW k, NEW eol, IsLine(x, t, n, k, eol), NEW b, Short(b, x)
  PROVE  LineEnd(b, k) = 0
<1>1. /\ k \in Nat /\ Len(x) = k + Len(eol) /\ eol \in LineEnds
      /\ \A i \in 1..Len(eol) : x[k + i] = eol[i]
  BY DEF IsLine
<1>2. b \in Seq(Byte) /\ Len(b) \in Nat /\ Len(b) < Len(x) /\ \A i \in 1..Len(b) : b[i] = x[i]
  BY DEF Short
<1>3. CASE eol = <<LF>>
  <2>1. Len(eol) = 1
    BY <1>3
  <2>2. ~(Len(b) > k)
    BY <1>1, <1>2, <2>1
  <2> QED BY <1>1, <1>2, <2>2, NoLineEnd
<1>4. CASE eol = <<CR, LF>>
  <2>1. Len(eol) = 2 /\ eol[1] = CR
    BY <1>4
  <2>2. Len(b) > k => Len(b) = k + 1 /\ b[k + 1] = CR
    BY <1>1, <1>2, <2>1
  <2>3. ~(Len(b) > k + 1)
    BY <1>1, <1>2, <2>1
  <2>4. ~(Len(b) > k /\ b[k + 1] = LF)
    BY <2>2 DEF CR, LF
  <2> QED BY <2>3, <2>4, Zenon DEF LineEnd
<1> QED BY <1>1, <1>3, <1>4 DEF LineEnds

\* An attempt at another type finds no line end, a digit in the place of the first
\* semicolon, or a semicolon among the digits.
LEMMA LineMistyped ==
  ASSUME NEW x, NEW t, NEW n, NEW k, NEW eol, IsLine(x, t, n, k, eol), NEW b, Short(b, x),
         NEW u \in 1..3, u # t, NEW m, m = 1 + 2 * PayloadLen[u]
  PROVE  Len(b) <= m + 1 \/ b[m + 1] # Semicolon \/ ~IsHex(Bytes(b, 1, m - 1))
<1>1. /\ t \in 1..3 /\ n = 1 + 2 * PayloadLen[t] /\ k \in Nat /\ k > n
      /\ (\A i \in 2..n : x[i] \in HexDigits) /\ x[n + 1] = Semicolon
  BY DEF IsLine
<1>2. b \in Seq(Byte) /\ Len(b) \in Nat /\ \A i \in 1..Len(b) : b[i] = x[i]
  BY DEF Short
<1>3. (t = 1 /\ n = 5) \/ (t = 2 /\ n = 15) \/ (t = 3 /\ n = 29)
  BY <1>1, LineLengths
<1>4. (u = 1 /\ m = 5) \/ (u = 2 /\ m = 15) \/ (u = 3 /\ m = 29)
  BY LineLengths
<1>5. Semicolon \notin HexDigits
  BY DEF Semicolon, HexDigits
<1> SUFFICES ASSUME ~(Len(b) <= m + 1) PROVE b[m + 1] # Semicolon \/ ~IsHex(Bytes(b, 1, m - 1))
  OBVIOUS
<1>6. CASE u < t
  <2>1. m + 1 \in 2..n /\ m + 1 \in 1..Len(b)
    BY <1>2, <1>3, <1>4, <1>6
  <2>2. b[m + 1] \in HexDigits
    BY <1>1, <1>2, <2>1
  <2> QED BY <1>5, <2>2
<1>7. CASE u > t
  <2>1. n \in 1..m - 1 /\ n + 1 \in 1..Len(b) /\ m \in Nat /\ m <= Len(b)
    BY <1>2, <1>3, <1>4, <1>7
  <2>2. b[n + 1] = Semicolon
    BY <1>1, <1>2, <2>1
  <2> DEFINE y == SubSeq(b, 2, m)
  <2>3. y = Bytes(b, 1, m - 1)
    <3>1. 1 + 1 = 2 /\ 1 + (m - 1) = m
      BY <2>1
    <3> QED BY <3>1, Zenon DEF Bytes
  <2>4. n \in DOMAIN y /\ y[n] = b[n + 1]
    BY <1>2, <1>3, <2>1
  <2> HIDE DEF y
  <2> QED BY <1>5, <2>2, <2>3, <2>4 DEF IsHex
<1> QED BY <1>1, <1>6, <1>7

\* A line begins with an asterisk.
LEMMA LineStar ==
  ASSUME NEW x, NEW t, NEW n, NEW k, NEW eol, IsLine(x, t, n, k, eol), NEW b, Short(b, x)
  PROVE  b \in Seq(Byte) /\ Len(b) > 0 /\ b[1] = Star
BY DEF IsLine, Short

\* Only airspy_adsb_parse() and raw_parse() look any further.
LEMMA StarUntouched ==
  ASSUME NEW b \in Seq(Byte), Len(b) > 0, b[1] = Star, NEW st
  PROVE  /\ Untouched(Parse("beast", b, st), st) /\ Untouched(Parse("json", b, st), st)
         /\ Untouched(Parse("proto", b, st), st)
<1>1. b[1] # ESC /\ b[1] \notin {CR, LF, OpenBrace} /\ b[1] # FieldOne
  BY DEF Star, ESC, CR, LF, OpenBrace, FieldOne
<1> QED BY <1>1, NoEscape, NoBrace, NoTag

\* A buffer that is too short for a line of a type.
LEMMA TooShort ==
  ASSUME NEW b \in Seq(Byte), NEW k \in Nat, Len(b) <= k
  PROVE  LineEnd(b, k) = 0
<1>1. ~(Len(b) > k)
  OBVIOUS
<1> QED BY <1>1, NoLineEnd

\* Where the parts of what raw_serialize() writes are.
LEMMA RawIsLine ==
  ASSUME NEW p, Whole(p), NEW eol \in LineEnds, NEW n, n = 1 + 2 * PayloadLen[p.type],
         NEW x, x = RawSerialize(p, eol)
  PROVE  IsLine(x, p.type, n, n + 1, eol)
<1> DEFINE payload == p.payload
           t == p.type
<1>1. /\ t \in 1..3 /\ payload \in Seq(Byte) /\ Len(payload) = PayloadLen[t]
  BY DEF Whole
<1>2. eol \in Seq(Byte)
  BY EolAt, <<>> \in Seq(Byte)
<1>3. x = Opening(payload) \o eol
  BY DEF RawSerialize, Opening
<1> HIDE DEF payload, t
<1>4. n = 1 + 2 * Len(payload) /\ n \in Nat
  BY <1>1, LineLengths DEF t
<1>5. Opened(x, n, payload, eol)
  BY <1>1, <1>2, <1>3, <1>4, OpeningAt
<1>6. /\ x \in Seq(Byte) /\ Len(x) = n + 1 + Len(eol) /\ x[1] = Star
      /\ (\A i \in 2..n : x[i] \in HexDigits) /\ x[n + 1] = Semicolon
      /\ \A i \in 1..Len(eol) : x[n + 1 + i] = eol[i]
  BY <1>5 DEF Opened
<1>7. n + 1 \in Nat /\ n + 1 > n
  BY <1>4
<1> QED BY <1>1, <1>6, <1>7 DEF IsLine, t

\* raw_parse() waits for the rest of a line.
LEMMA RawWaits ==
  ASSUME NEW p, Whole(p), NEW eol \in LineEnds, NEW b, Short(b, RawSerialize(p, eol)), NEW st
  PROVE  Untouched(Parse("raw", b, st), st)
<1> DEFINE t == p.type
           x == RawSerialize(p, eol)
           n == 1 + 2 * PayloadLen[t]
           k == n + 1
<1>1. t \in 1..3 /\ IsLine(x, t, n, k, eol) /\ Short(b, x)
  BY RawIsLine DEF Whole
<1> HIDE DEF t, x, n
<1>2. b \in Seq(Byte)
  BY <1>1 DEF Short
<1>3. ASSUME NEW u \in 1..3 PROVE RawTry(b, u, st) = Failed(st)
  <2> DEFINE m == 1 + 2 * PayloadLen[u]
  <2>1. LineEnd(b, m + 1) = 0 \/ b[m + 1] # Semicolon \/ ~IsHex(Bytes(b, 1, m - 1))
    <3>1. CASE u = t
      <4> HIDE DEF k
      <4>1. LineEnd(b, k) = 0
        BY <1>1, LineWaits
      <4>2. k = m + 1
        BY <3>1 DEF k, n
      <4> QED BY <4>1, <4>2
    <3>2. CASE u # t
      <4>1. m = 1 + 2 * PayloadLen[u] /\ m + 1 \in Nat
        BY Lengths
      <4> HIDE DEF m, k
      <4>2. Len(b) <= m + 1 \/ b[m + 1] # Semicolon \/ ~IsHex(Bytes(b, 1, m - 1))
        BY <1>1, <3>2, <4>1, LineMistyped
      <4>3. Len(b) <= m + 1 => LineEnd(b, m + 1) = 0
        BY <1>2, <4>1, TooShort
      <4> QED BY <4>2, <4>3, Zenon
    <3> QED BY <3>1, <3>2
  <2>2. LineEnd(b, m + 1) = 0 => ~(LineEnd(b, m + 1) > 0)
    OBVIOUS
  <2> QED BY <2>1, <2>2, Zenon DEF RawTry
<1> QED BY <1>3, RawAllFail

-----------------------------------------------------------------------------
(* Streams of raw *)

\* After no semicolon there is a timestamp.
NoFields(b) ==
  \A k \in 1..Len(b) - 1 : b[k] = Semicolon => b[k + 1] \notin HexDigits

\* airspy_adsb_parse() finds nothing there, and leaves no trace.
LEMMA NoFieldsUntouched ==
  ASSUME NEW b \in Seq(Byte), NoFields(b), NEW st
  PROVE  Untouched(Parse("airspy_adsb", b, st), st)
<1>1. ASSUME NEW u \in 1..3 PROVE AirspyTry(b, u, st) = Failed(st)
  <2> DEFINE n == 1 + 2 * PayloadLen[u]
  <2>1. n \in Nat /\ n + 18 \in Nat
    BY Lengths
  <2> HIDE DEF n
  <2>2. CASE Len(b) <= n + 18
    <3>1. LineEnd(b, n + 18) = 0
      BY <2>1, <2>2, TooShort
    <3> QED BY <3>1, Zenon DEF AirspyTry, n
  <2>3. CASE b[n + 1] # Semicolon
    <3>1. \E k \in {n, n + 9, n + 12, n + 17} : b[k + 1] # Semicolon
      BY <2>3, Zenon
    <3> QED BY <3>1, Zenon DEF AirspyTry, n
  <2>4. CASE ~(Len(b) <= n + 18) /\ b[n + 1] = Semicolon
    <3>1. n + 1 \in 1..Len(b) - 1 /\ n + 1 + 1 = n + 2 /\ n + 1 + 8 = n + 9
      BY <2>1, <2>4
    <3>2. b[n + 2] \notin HexDigits
      <4>1. b[n + 1 + 1] \notin HexDigits
        BY <2>4, <3>1 DEF NoFields
      <4> QED BY <3>1, <4>1
    <3> DEFINE y == SubSeq(b, n + 2, n + 9)
    <3>3. y = Bytes(b, n + 1, 8)
      BY <3>1, Zenon DEF Bytes
    <3>4. 1 \in DOMAIN y /\ y[1] = b[n + 2]
      BY <2>1, <2>4
    <3> HIDE DEF y
    <3>5. ~IsHex(Bytes(b, n + 1, 8))
      BY <3>2, <3>3, <3>4 DEF IsHex
    <3> QED BY <3>5, Zenon DEF AirspyTry, n
  <2> QED BY <2>2, <2>3, <2>4
<1> QED BY <1>1, AirspyAllFail

\* What the peer's raw_serialize() has written for a packet.
RawFrameOf(f) ==
  \E p, eol : /\ Whole(p) /\ eol \in LineEnds /\ f.bytes = RawSerialize(p, eol)
              /\ f.due = Len(f.bytes) /\ f.packet = Packet(p.type, 0, <<>>, p.payload)

RawStream(s) ==
  Strung(s) /\ s.format = "raw" /\ \A j \in 1..Len(s.frames) : RawFrameOf(s.frames[j])

\* A line has a semicolon before its line end, and nowhere else.
LEMMA RawFields ==
  ASSUME NEW f, RawFrameOf(f)
  PROVE  /\ f.bytes \in Seq(Byte) /\ Len(f.bytes) \in 1..BufLenMax /\ f.due = Len(f.bytes)
         /\ \A r \in 1..Len(f.bytes) :
              f.bytes[r] = Semicolon => r + 1 \in 1..Len(f.bytes) /\ f.bytes[r + 1] \notin HexDigits
<1>1. PICK p, eol : Whole(p) /\ eol \in LineEnds /\ f.bytes = RawSerialize(p, eol) /\ f.due = Len(f.bytes)
  BY DEF RawFrameOf
<1> DEFINE t == p.type
           x == f.bytes
           n == 1 + 2 * PayloadLen[t]
           k == n + 1
<1>2. t \in 1..3 /\ IsLine(x, t, n, k, eol)
  BY <1>1, RawIsLine DEF Whole
<1>3. (t = 1 /\ n = 5) \/ (t = 2 /\ n = 15) \/ (t = 3 /\ n = 29)
  BY <1>2, LineLengths
<1> HIDE DEF t, x, n
<1>4. /\ x \in Seq(Byte) /\ Len(x) = k + Len(eol) /\ x[1] = Star
      /\ (\A i \in 2..n : x[i] \in HexDigits) /\ \A i \in 1..Len(eol) : x[k + i] = eol[i]
  BY <1>2 DEF IsLine
<1>5. Len(eol) \in 1..2 /\ \A i \in 1..Len(eol) : eol[i] \in {CR, LF}
  <2>1. CASE eol = <<LF>>
    BY <2>1
  <2>2. CASE eol = <<CR, LF>>
    BY <2>2
  <2> QED BY <1>1, <2>1, <2>2 DEF LineEnds
<1> DEFINE l == Len(x)
           m == Len(eol)
<1>9. m \in 1..2 /\ l = n + 1 + m /\ n \in Nat /\ n >= 5 /\ n <= 29
  BY <1>3, <1>4, <1>5
<1> HIDE DEF l, m
<1>10. l \in 1..32
  BY <1>9
<1>6. Semicolon \notin HexDigits \cup {Star, CR, LF} /\ CR \notin HexDigits /\ LF \notin HexDigits
  BY DEF Semicolon, HexDigits, Star, CR, LF
<1>7. Len(x) \in 1..BufLenMax
  <2>1. 1 + 14 + 20 < BufLenMax /\ BufLenMax \in Nat
    BY ReceiveAssumption
  <2>2. Len(x) \in 1..32
    BY <1>10 DEF l
  <2>3. \A v \in 1..32 : v \in 1..BufLenMax
    BY <2>1
  <2> QED BY <2>2, <2>3, Zenon
<1>8. ASSUME NEW r \in 1..Len(x), x[r] = Semicolon
      PROVE  r + 1 \in 1..Len(x) /\ x[r + 1] \notin HexDigits
  <2>1. r # 1
    BY <1>4, <1>6, <1>8
  <2>2. r \notin 2..n
    BY <1>4, <1>6, <1>8
  <2>3. ASSUME NEW i \in 1..Len(eol), r = k + i PROVE FALSE
    <3>1. x[r] \in {CR, LF}
      BY <1>4, <1>5, <2>3
    <3> QED BY <1>6, <1>8, <3>1
  <2>4. r = k
    <3>0. r \in 1..l
      BY DEF l
    <3>1. r > k => r - k \in 1..m /\ r = k + (r - k)
      BY <1>9, <3>0
    <3>2. ~(r > k)
      BY <2>3, <3>1 DEF m
    <3> QED BY <1>9, <2>1, <2>2, <3>0, <3>2
  <2>5. r + 1 \in 1..Len(x) /\ 1 \in 1..Len(eol)
    <3>1. r + 1 \in 1..l /\ 1 \in 1..m
      BY <1>9, <2>4
    <3> QED BY <3>1 DEF l, m
  <2>6. x[k + 1] \in {CR, LF}
    BY <1>4, <1>5, <2>5
  <2> QED BY <1>6, <2>4, <2>5, <2>6
<1> QED BY <1>1, <1>4, <1>7, <1>8 DEF x

\* Each byte of the wire is in a frame.
LEMMA WireInFrames ==
  ASSUME NEW s, Laid(s), NEW k \in 1..Len(s.wire)
  PROVE  \E j \in 1..Len(s.frames) : \E r \in 1..Len(s.frames[j].bytes) : k = FrameEnds(s)[j - 1] + r
<1> DEFINE n == Len(s.frames)
           E == FrameEnds(s)
           len(j) == Len(s.frames[j].bytes)
           P == {m \in Nat : m <= n /\ k <= E[m]
                               => \E j \in 1..n : \E r \in 1..len(j) : k = E[j - 1] + r}
<1>1. n \in Nat /\ Len(s.wire) \in Nat /\ Len(s.wire) = E[n] /\ \A j \in 1..n : len(j) \in Nat
  <2>1. n \in Nat /\ s.wire \in Seq(Byte) /\ Len(s.wire) = E[n]
    BY DEF Laid, Spelled
  <2>2. \A j \in 1..n : s.frames[j].bytes \in Seq(Byte)
    BY Zenon DEF Laid
  <2> QED BY <2>1, <2>2
<1>2. E[0] = 0 /\ \A j \in 1..n : E[j] = E[j - 1] + len(j)
  BY <1>1, EndsSteps
<1>3. \A j \in 0..n : E[j] \in Nat
  BY FramesInOrder DEF InOrder
<1>4. k \in Nat /\ k >= 1 /\ k <= E[n]
  BY <1>1
<1> SUFFICES \E j \in 1..n : \E r \in 1..len(j) : k = E[j - 1] + r
  OBVIOUS
<1> HIDE DEF n, E, len
<1>5. 0 \in P
  BY <1>2, <1>4
<1>6. ASSUME NEW m \in P PROVE m + 1 \in P
  <2> DEFINE j == m + 1
  <2> SUFFICES ASSUME j <= n, k <= E[j] PROVE \E l \in 1..n : \E r \in 1..len(l) : k = E[l - 1] + r
    OBVIOUS
  <2>1. m \in Nat /\ j \in 1..n /\ j - 1 = m /\ m \in 0..n /\ m <= n
    BY <1>1
  <2>2. E[j] = E[m] + len(j) /\ E[m] \in Nat /\ len(j) \in Nat
    BY <1>1, <1>2, <1>3, <2>1
  <2>3. CASE k <= E[m]
    BY <2>1, <2>3
  <2> HIDE DEF j
  <2>4. CASE k > E[m]
    <3> DEFINE r == k - E[m]
    <3>1. r \in 1..len(j) /\ k = E[m] + r
      BY <1>4, <2>2, <2>4
    <3> HIDE DEF r
    <3>2. k = E[j - 1] + r
      BY <2>1, <3>1
    <3> QED BY <2>1, <3>1, <3>2
  <2> QED BY <1>4, <2>2, <2>3, <2>4
<1>7. P \in SUBSET Nat
  OBVIOUS
<1>8. n \in P
  <2> HIDE DEF P
  <2> QED BY <1>1, <1>5, <1>6, <1>7, Reaches
<1> QED BY <1>1, <1>4, <1>8

\* In a stream of raw there is no timestamp, whatever its lines are.
LEMMA RawNoFields ==
  ASSUME NEW s, Laid(s), \A j \in 1..Len(s.frames) : RawFrameOf(s.frames[j]), NEW q \in 1..Len(s.wire)
  PROVE  NoFields(SubSeq(s.wire, 1, q))
<1> DEFINE w == s.wire
           b == SubSeq(w, 1, q)
<1>1. w \in Seq(Byte)
  BY DEF Laid
<1>2. Len(b) = q /\ \A i \in 1..q : b[i] = w[i]
  <2>1. q \in 1..Len(w)
    OBVIOUS
  <2> HIDE DEF w
  <2> QED BY <1>1, <2>1
<1> SUFFICES ASSUME NEW k \in 1..Len(b) - 1, b[k] = Semicolon PROVE b[k + 1] \notin HexDigits
  BY DEF NoFields
<1> HIDE DEF b
<1>3. /\ Len(w) \in Nat /\ k \in 1..q /\ k + 1 \in 1..q /\ k \in 1..Len(w)
  BY <1>1, <1>2
<1>4. b[k] = w[k] /\ b[k + 1] = w[k + 1]
  BY <1>2, <1>3
<1>j. PICK j \in 1..Len(s.frames) : \E r \in 1..Len(s.frames[j].bytes) : k = FrameEnds(s)[j - 1] + r
  BY <1>3, WireInFrames
<1>5. PICK r \in 1..Len(s.frames[j].bytes) : k = FrameEnds(s)[j - 1] + r
  BY <1>j
<1> DEFINE x == s.frames[j].bytes
           e == FrameEnds(s)[j - 1]
<1>6. \A i \in 1..Len(x) : w[e + i] = x[i]
  BY DEF Laid, Spelled
<1>7. w[k] = x[r]
  BY <1>5, <1>6
<1>8. r + 1 \in 1..Len(x) /\ x[r + 1] \notin HexDigits
  <2>1. RawFrameOf(s.frames[j])
    OBVIOUS
  <2>2. x[r] = Semicolon
    BY <1>4, <1>7
  <2> QED BY <2>1, <2>2, RawFields
<1>9. e \in Nat /\ r \in Nat
  <2>1. j - 1 \in 0..Len(s.frames)
    BY DEF Laid
  <2>2. e \in Nat
    BY <2>1, FramesInOrder DEF InOrder
  <2>3. x \in Seq(Byte)
    BY DEF Laid
  <2> QED BY <2>2, <2>3
<1>10. w[k + 1] = x[r + 1]
  <2>1. k + 1 = e + (r + 1)
    <3> HIDE DEF e
    <3>1. k = e + r
      BY <1>5 DEF e
    <3> QED BY <1>9, <3>1
  <2> HIDE DEF w, e, x
  <2> QED BY <1>6, <1>8, <2>1
<1> QED BY <1>4, <1>8, <1>10

\* airspy_adsb is tried first, and leaves such a buffer to raw.
LEMMA RawTried ==
  ASSUME NEW b \in Seq(Byte), Len(b) > 0, b[1] = Star, NoFields(b), NEW st
  PROVE  ParserWrapper("auto", b, st) = Parse("raw", b, st)
<1>1. Untouched(Parse("airspy_adsb", b, st), st)
  BY NoFieldsUntouched
<1>2. /\ Untouched(Parse("beast", b, st), st) /\ Untouched(Parse("json", b, st), st)
      /\ Untouched(Parse("proto", b, st), st)
  BY StarUntouched
<1> QED BY <1>1, <1>2, FifthTried

\* All parsers wait for the rest of a line of raw.
LEMMA RawWaited ==
  ASSUME NEW f, RawFrameOf(f), NEW b, Short(b, f.bytes), NEW known \in {"auto", "raw"}, NEW st
  PROVE  Untouched(ParserWrapper(known, b, st), st)
<1>1. PICK p, eol : Whole(p) /\ eol \in LineEnds /\ f.bytes = RawSerialize(p, eol)
  BY DEF RawFrameOf
<1>2. Untouched(Parse("raw", b, st), st)
  BY <1>1, RawWaits
<1>3. CASE known = "raw"
  <2>1. ParserWrapper("raw", b, st) = Parse("raw", b, st)
    BY DEF ParserWrapper
  <2> QED BY <1>2, <1>3, <2>1
<1>4. CASE known = "auto"
  <2> DEFINE n == 1 + 2 * PayloadLen[p.type]
             x == f.bytes
  <2>1. b \in Seq(Byte) /\ Len(b) > 0 /\ b[1] = Star
    <3> DEFINE t == p.type
               k == n + 1
    <3>1. IsLine(x, t, n, k, eol) /\ Short(b, x)
      BY <1>1, RawIsLine
    <3> HIDE DEF t, k, n, x
    <3> QED BY <3>1, LineStar
  <2>2. NoFields(b)
    <3> SUFFICES ASSUME NEW k \in 1..Len(b) - 1, b[k] = Semicolon PROVE b[k + 1] \notin HexDigits
      BY DEF NoFields
    <3>1. Len(b) \in Nat /\ Len(x) \in Nat /\ Len(b) < Len(x) /\ \A i \in 1..Len(b) : b[i] = x[i]
      <4>1. x \in Seq(Byte)
        BY RawFields
      <4> QED BY <4>1 DEF Short
    <3>2. k \in 1..Len(b) /\ k + 1 \in 1..Len(b) /\ k \in 1..Len(x)
      BY <3>1
    <3>3. x[k] = Semicolon
      BY <3>1, <3>2
    <3>4. x[k + 1] \notin HexDigits
      BY <3>2, <3>3, RawFields
    <3> QED BY <3>1, <3>2, <3>4
  <2>3. ParserWrapper("auto", b, st) = Parse("raw", b, st)
    BY <2>1, <2>2, RawTried
  <2> QED BY <1>2, <1>4, <2>3
<1> QED BY <1>3, <1>4

\* raw: a stream of any number of packets, whatever is in them and whichever line
\* ends the peer writes, is taken packet by packet, wherever the reads cut it, and
\* without a trace of airspy_adsb_parse(), which is tried before (raw.c:15-56,
\* airspy_adsb.c:28-73).
THEOREM RawFramed ==
  ASSUME NEW s, RawStream(s)
  PROVE  Framed(s)
<1>1. Strung(s) /\ s.format = "raw" /\ \A j \in 1..Len(s.frames) : RawFrameOf(s.frames[j])
  BY DEF RawStream
<1>2. ASSUME NEW j \in 1..Len(s.frames)
      PROVE  /\ s.frames[j].bytes \in Seq(Byte) /\ Len(s.frames[j].bytes) \in 1..BufLenMax
             /\ s.frames[j].due = Len(s.frames[j].bytes)
  <2>1. RawFrameOf(s.frames[j])
    BY <1>1
  <2> QED BY <2>1, RawFields
<1>3. Laid(s)
  <2>1. \A j \in 1..Len(s.frames) :
          s.frames[j].bytes \in Seq(Byte) /\ s.frames[j].due \in 1..Len(s.frames[j].bytes)
    BY <1>2
  <2>2. s.good \in 0..Len(s.frames)
    BY <1>1 DEF Strung
  <2> QED BY <1>1, <2>1, <2>2 DEF Laid, Strung
<1>4. ASSUME NEW j \in 1..Len(s.frames), NEW i, i = j - 1
      PROVE  WaitsFor(s, i, j) /\ TakesWhole(s, i, j)
  <2> DEFINE st == StateAt(s, i)
             f == s.frames[j]
             x == f.bytes
             w == s.wire
             e == FrameEnds(s)[j]
             a == FrameEnds(s)[i]
  <2>1. RawFrameOf(f)
    BY <1>1
  <2>2. PICK p, eol : /\ Whole(p) /\ eol \in LineEnds /\ x = RawSerialize(p, eol)
                      /\ f.packet = Packet(p.type, 0, <<>>, p.payload)
    BY <2>1 DEF RawFrameOf
  <2>3. Known(s, i) \in {"auto", "raw"} /\ (Known(s, i) = "auto" => i = 0)
    BY <1>1 DEF Known
  <2>4. StateAt(s, j) = st
    <3>1. f.packet.type \in 1..3 /\ f.packet.stamp = <<>>
      BY <2>2 DEF Packet, Whole
    <3>2. f.packet # NoPacket
      BY <3>1, NotNone
    <3> QED BY <1>3, <1>4, <3>1, <3>2, StateSteps
  <2>5. Placed(s, a, e, x)
    BY <1>3, <1>4, FramePlaced
  <2> HIDE DEF st
  <2>6. WaitsFor(s, i, j)
    <3> SUFFICES ASSUME NEW b, Short(b, x)
                 PROVE  NextAwaited(ParserWrapper(Known(s, i), b, StateAt(s, i)), s, i)
      BY DEF WaitsFor
    <3>1. Untouched(ParserWrapper(Known(s, i), b, st), st)
      BY <2>1, <2>3, RawWaited
    <3> QED BY <3>1 DEF Untouched, NextAwaited, st
  <2>7. TakesWhole(s, i, j)
    <3> SUFFICES ASSUME NEW q \in e..Len(w), NEW rest, rest = SubSeq(w, e + 1, q), rest \in Seq(Byte)
                 PROVE  WholeTaken(ParserWrapper(Known(s, i), x \o rest, StateAt(s, i)), s, j)
      BY DEF TakesWhole
    <3> DEFINE b == x \o rest
               r == Parse("raw", b, st)
    <3>1. FoundAt(r, "raw", Len(x), f.packet, st)
      BY <2>2, RawRoundTrip
    <3>2. ParserWrapper(Known(s, i), b, st) = r
      <4>1. CASE Known(s, i) = "raw"
        BY <4>1 DEF ParserWrapper
      <4>2. CASE Known(s, i) = "auto"
        <5>1. a = 0
          <6>1. Len(s.frames) \in Nat /\ i = 0
            BY <1>3, <2>3, <4>2 DEF Laid
          <6> QED BY <6>1, EndsSteps
        <5>2. /\ w \in Seq(Byte) /\ e \in Nat /\ e = a + Len(x) /\ e <= Len(w) /\ Len(x) >= 1
              /\ \A k \in 1..Len(x) : w[a + k] = x[k]
          BY <2>5 DEF Placed
        <5>3. q \in Nat /\ e <= q /\ q <= Len(w) /\ q \in 1..Len(w)
          <6> HIDE DEF e, w
          <6>1. Len(w) \in Nat /\ e >= 1
            <7> HIDE DEF x, a
            <7> QED BY <5>1, <5>2
          <6> QED BY <5>2, <6>1
        <5>4. b = SubSeq(w, 0 + 1, q)
          <6>0. Placed(s, a, e, x) /\ e <= q /\ q <= Len(s.wire) /\ q \in Nat
            BY <2>5, <5>3
          <6> HIDE DEF x, a, e, w
          <6>2. SubSeq(s.wire, a + 1, q) = x \o SubSeq(s.wire, e + 1, q) /\ SubSeq(s.wire, e + 1, q) \in Seq(Byte)
            BY <6>0, CutWhole
          <6>1. SubSeq(w, a + 1, q) = x \o SubSeq(w, e + 1, q)
            BY <6>2 DEF w
          <6> QED BY <5>1, <6>1, Zenon
        <5>5. b = SubSeq(w, 1, q)
          <6>1. 0 + 1 = 1
            OBVIOUS
          <6> QED BY <5>4, <6>1, Zenon
        <5>6. NoFields(b)
          BY <1>1, <1>3, <5>3, <5>5, RawNoFields
        <5>7. w[1] = Star
          <6>1. w[0 + 1] = x[1]
            <7> HIDE DEF x, a, w
            <7> QED BY <5>1, <5>2
          <6>2. x[1] = Star
            <7> DEFINE n == 1 + 2 * PayloadLen[p.type]
            <7>1. IsLine(x, p.type, n, n + 1, eol)
              BY <2>2, RawIsLine
            <7> HIDE DEF n, x
            <7> QED BY <7>1 DEF IsLine
          <6> QED BY <6>1, <6>2
        <5>8. b \in Seq(Byte) /\ Len(b) > 0 /\ b[1] = Star
          <6> DEFINE y == SubSeq(w, 1, q)
          <6>1. y \in Seq(Byte) /\ Len(y) > 0 /\ y[1] = w[1]
            <7> HIDE DEF w
            <7> QED BY <5>2, <5>3
          <6> HIDE DEF b, y
          <6> QED BY <5>5, <5>7, <6>1 DEF y
        <5> HIDE DEF b
        <5> QED BY <4>2, <5>6, <5>8, RawTried
      <4> QED BY <2>3, <4>1, <4>2
    <3> HIDE DEF r
    <3>3. WholeTaken(r, s, j)
      BY <1>1, <2>4, <3>1 DEF FoundAt, Found, WholeTaken
    <3> QED BY <3>2, <3>3 DEF st
  <2> QED BY <2>6, <2>7
<1>5. \A j \in 1..Len(s.frames) : WaitsFor(s, j - 1, j) /\ TakesWhole(s, j - 1, j)
  BY <1>4
<1>6. s.good = Len(s.frames)
  BY <1>1 DEF Strung
<1>7. \A j \in 1..Len(s.frames) : Len(s.frames[j].bytes) <= BufLenMax
  BY <1>2, ReceiveAssumption
<1> QED BY <1>2, <1>3, <1>5, <1>6, <1>7, WholeFrames

-----------------------------------------------------------------------------
(* Streams of airspy_adsb *)

\* What airspy_adsb_serialize() writes: a line with a timestamp after the payload.
StampedLine(x, t, n, k, eol) ==
  IsLine(x, t, n, k, eol) /\ k = n + 18 /\ x[n + 2] \in HexDigits

\* Where its parts are.
LEMMA AirspyIsLine ==
  ASSUME NEW p, Whole(p), p.stamp \in Seq(Byte), Len(p.stamp) = 6, NEW eol \in LineEnds,
         NEW n, n = 1 + 2 * PayloadLen[p.type], NEW k, k = n + 18, NEW x, x = AirspySerialize(p, eol)
  PROVE  StampedLine(x, p.type, n, k, eol)
<1> DEFINE payload == p.payload
           stamp == p.stamp
           t == p.type
           time == TimeText(stamp)
           level == LevelText(stamp)
           prec == PrecText
           end == eol \o <<>>
           tail == Stamped(time, prec, level, end)
<1>0. <<>> \in Seq(Byte)
  OBVIOUS
<1>1. /\ t \in 1..3 /\ payload \in Seq(Byte) /\ Len(payload) = PayloadLen[t]
  BY DEF Whole
<1>2. eol \in Seq(Byte) /\ end \in Seq(Byte) /\ Len(eol) \in 1..2
  BY <1>0, EolAt
<1>3. end = eol
  BY <1>2, ConcatEmptySeq
<1>4. /\ x \o <<>> = AirspyLine(payload, stamp, eol, <<>>)
      /\ Len(x) = 19 + 2 * Len(payload) + Len(eol)
  BY <1>0, AirspyFrame
<1>5. tail \in Seq(Byte)
  BY <1>0, AirspyTail
<1>6. x \o <<>> = Opening(payload) \o tail
  BY <1>4, Zenon DEF AirspyLine
<1>7. /\ time \in Seq(Byte) /\ Len(time) = 8 /\ IsHex(time) /\ level \in Seq(Byte) /\ Len(level) = 4
      /\ prec \in Seq(Byte) /\ Len(prec) = 2
  BY StampTexts
<1> HIDE DEF payload, stamp, t, time, level, prec, end
<1>8. n = 1 + 2 * Len(payload) /\ n \in Nat /\ n + 1 \in Nat
  <2>1. n = 1 + 2 * PayloadLen[t]
    BY DEF t
  <2>2. n = 1 + 2 * Len(payload)
    BY <1>1, <2>1, Zenon
  <2>3. n \in {5, 15, 29}
    BY <1>1, <2>1, LineLengths
  <2> QED BY <2>2, <2>3
<1> DEFINE b == x \o <<>>
<1>9. Opened(b, n, payload, tail)
  <2> HIDE DEF tail, b
  <2>1. b = Opening(payload) \o tail
    BY <1>6 DEF b
  <2> QED BY <1>1, <1>5, <1>8, <2>1, OpeningAt
<1>10. /\ b \in Seq(Byte) /\ Len(b) = n + 1 + Len(tail) /\ b[1] = Star
       /\ (\A i \in 2..n : b[i] \in HexDigits) /\ b[n + 1] = Semicolon
       /\ \A i \in 1..Len(tail) : b[n + 1 + i] = tail[i]
  <2> HIDE DEF tail, b
  <2> QED BY <1>9 DEF Opened
<1>11. x = b
  <2>1. x \in Seq(Byte)
    <3> DEFINE l1 == <<Star>> \o HexText(payload)
               l2 == l1 \o <<Semicolon>>
               l3 == l2 \o time
               l4 == l3 \o <<Semicolon>>
               l5 == l4 \o prec
               l6 == l5 \o <<Semicolon>>
               l7 == l6 \o level
               l8 == l7 \o <<Semicolon>>
    <3>1. x = l8 \o eol
      BY DEF AirspySerialize, time, prec, level, payload, stamp, TimeText, LevelText, PrecText
    <3>2. <<Star>> \in Seq(Byte) /\ <<Semicolon>> \in Seq(Byte) /\ HexText(payload) \in Seq(Byte)
      BY <1>1, HexBytes DEF Star, Semicolon, Byte
    <3>3. l2 \in Seq(Byte)
      BY <3>2
    <3> HIDE DEF l2
    <3>4. l4 \in Seq(Byte)
      BY <1>7, <3>2, <3>3
    <3> HIDE DEF l4
    <3>5. l6 \in Seq(Byte)
      BY <1>7, <3>2, <3>4
    <3> HIDE DEF l6
    <3>6. l8 \in Seq(Byte)
      BY <1>7, <3>2, <3>5
    <3> HIDE DEF l8
    <3> QED BY <1>2, <3>1, <3>6
  <2> QED BY <2>1, ConcatEmptySeq
<1> HIDE DEF b
<1>12. Ends(b, n + 1, tail)
  <2> HIDE DEF tail
  <2> QED BY <1>5, <1>8, <1>10 DEF Ends
<1>13. Fields(b, n + 1, time, prec, level, end)
  BY <1>2, <1>7, <1>8, <1>12, FieldsAt DEF end
<1>14. Bytes(b, n + 1, 8) = time /\ Ends(b, n + 1 + 17, end)
  BY <1>13, Zenon DEF Fields
<1>15. Ends(b, k, eol)
  <2>1. n + 1 + 17 = k
    BY <1>8
  <2> QED BY <1>3, <1>14, <2>1, Zenon
<1>16. k \in Nat /\ k > n /\ Len(b) = k + Len(eol) /\ \A i \in 1..Len(eol) : b[k + i] = eol[i]
  <2>1. k \in Nat /\ k > n
    BY <1>8
  <2> QED BY <1>15, <2>1 DEF Ends
<1>17. b[n + 2] \in HexDigits
  <2> DEFINE y == SubSeq(b, n + 2, n + 9)
  <2>1. y = time
    <3>1. n + 1 + 1 = n + 2 /\ n + 1 + 8 = n + 9
      BY <1>8
    <3> QED BY <1>14, <3>1, Zenon DEF Bytes
  <2>4. b \in Seq(Byte) /\ n \in Nat /\ Len(b) >= n + 18
    <3> DEFINE m == Len(eol)
               l == Len(b)
    <3>1. m \in 1..2 /\ l = k + m
      BY <1>2, <1>16
    <3> HIDE DEF m, l
    <3>2. k = n + 18 /\ n \in Nat
      BY <1>8, Zenon
    <3>3. l >= n + 18
      BY <3>1, <3>2
    <3> QED BY <1>8, <1>10, <3>3, Zenon DEF l
  <2>2. y[1] = b[n + 2]
    BY <2>4
  <2> HIDE DEF y
  <2>3. time[1] \in HexDigits
    <3>1. 1 \in DOMAIN time
      BY <1>7
    <3> QED BY <1>7, <3>1 DEF IsHex
  <2> QED BY <2>1, <2>2, <2>3
<1>18. IsLine(b, t, n, k, eol)
  BY <1>1, <1>10, <1>16 DEF IsLine, t
<1>19. StampedLine(b, t, n, k, eol)
  BY <1>17, <1>18 DEF StampedLine
<1> QED BY <1>11, <1>19 DEF t

\* airspy_adsb_parse() waits for the rest of a line, and so does raw_parse(), which
\* is tried after it.
LEMMA AirspyWaits ==
  ASSUME NEW x, NEW t, NEW n, NEW k, NEW eol, StampedLine(x, t, n, k, eol), NEW b, Short(b, x), NEW st
  PROVE  Untouched(Parse("airspy_adsb", b, st), st) /\ Untouched(Parse("raw", b, st), st)
<1>1. IsLine(x, t, n, k, eol) /\ k = n + 18 /\ x[n + 2] \in HexDigits
  BY DEF StampedLine
<1>2. b \in Seq(Byte) /\ Len(b) \in Nat /\ Len(b) < Len(x) /\ \A i \in 1..Len(b) : b[i] = x[i]
  <2>1. x \in Seq(Byte)
    BY <1>1 DEF IsLine
  <2> QED BY <2>1 DEF Short
<1>3. t \in 1..3 /\ n = 1 + 2 * PayloadLen[t] /\ Len(x) = k + Len(eol) /\ Len(eol) \in 1..2
  <2>1. eol \in LineEnds
    BY <1>1 DEF IsLine
  <2>2. Len(eol) \in 1..2
    BY <2>1, EolAt, <<>> \in Seq(Byte)
  <2> QED BY <1>1, <2>2 DEF IsLine
<1>4. (t = 1 /\ n = 5) \/ (t = 2 /\ n = 15) \/ (t = 3 /\ n = 29)
  BY <1>3, LineLengths
<1>5. Len(b) <= n + 19
  <2> DEFINE m == Len(eol)
             lx == Len(x)
             lb == Len(b)
  <2>1. m \in 1..2 /\ lx = k + m /\ lb \in Nat /\ lb < lx
    BY <1>2, <1>3
  <2>2. n \in Nat /\ k = n + 18
    BY <1>1, <1>4
  <2> HIDE DEF m, lx, lb
  <2>3. lb <= n + 19
    BY <2>1, <2>2
  <2> QED BY <2>3 DEF lb
<1>6. ASSUME NEW u \in 1..3 PROVE AirspyTry(b, u, st) = Failed(st)
  <2> DEFINE m == 1 + 2 * PayloadLen[u]
  <2>0. (u = 1 /\ m = 5) \/ (u = 2 /\ m = 15) \/ (u = 3 /\ m = 29)
    BY LineLengths
  <2>1. m = 1 + 2 * PayloadLen[u] /\ m \in Nat /\ m + 18 \in Nat
    BY <2>0
  <2>2. LineEnd(b, m + 18) = 0 \/ b[m + 1] # Semicolon
    <3>1. CASE u = t
      <4>1. LineEnd(b, k) = 0
        BY <1>1, LineWaits
      <4>2. k = m + 18
        BY <1>1, <1>3, <3>1
      <4> QED BY <4>1, <4>2
    <3> HIDE DEF m
    <3>2. CASE u > t
      <4>1. Len(b) <= m + 18
        BY <1>4, <1>5, <2>0, <3>2
      <4> QED BY <1>2, <2>1, <4>1, TooShort
    <3>3. CASE u < t
      <4>1. CASE Len(b) <= m + 18
        BY <1>2, <2>1, <4>1, TooShort
      <4>2. CASE ~(Len(b) <= m + 18)
        <5>1. m + 1 \in 2..n /\ m + 1 \in 1..Len(b)
          BY <1>2, <1>4, <2>0, <3>3, <4>2
        <5>2. b[m + 1] \in HexDigits
          BY <1>1, <1>2, <5>1 DEF IsLine
        <5> QED BY <5>2 DEF Semicolon, HexDigits
      <4> QED BY <4>1, <4>2
    <3> QED BY <1>3, <3>1, <3>2, <3>3
  <2> HIDE DEF m
  <2>3. CASE LineEnd(b, m + 18) = 0
    BY <2>3, Zenon DEF AirspyTry, m
  <2>4. CASE b[m + 1] # Semicolon
    <3>1. \E l \in {m, m + 9, m + 12, m + 17} : b[l + 1] # Semicolon
      BY <2>4, Zenon
    <3> QED BY <3>1, Zenon DEF AirspyTry, m
  <2> QED BY <2>2, <2>3, <2>4
<1>7. ASSUME NEW u \in 1..3 PROVE RawTry(b, u, st) = Failed(st)
  <2> DEFINE m == 1 + 2 * PayloadLen[u]
  <2>1. m = 1 + 2 * PayloadLen[u] /\ m + 1 \in Nat /\ m + 1 + 1 = m + 2
    BY Lengths
  <2> HIDE DEF m
  <2>2. Len(b) <= m + 1 => LineEnd(b, m + 1) = 0
    BY <1>2, <2>1, TooShort
  <2>3. LineEnd(b, m + 1) = 0 \/ b[m + 1] # Semicolon \/ ~IsHex(Bytes(b, 1, m - 1))
    <3>1. CASE u = t
      <4>1. CASE ~(Len(b) <= m + 1)
        <5>0. n = m /\ ~(Len(b) <= n + 1)
          BY <1>3, <2>1, <3>1, <4>1, Zenon
        <5>1. n = m /\ n + 2 \in 1..Len(b)
          BY <1>2, <1>4, <5>0
        <5>2. b[m + 1 + 1] \in HexDigits
          BY <1>1, <1>2, <2>1, <5>1
        <5>3. b[m + 1 + 1] \notin {CR, LF}
          BY <5>2 DEF CR, LF, HexDigits
        <5> QED BY <1>2, <2>1, <5>3, NoLineEnd
      <4> QED BY <2>2, <4>1
    <3>2. CASE u # t
      <4>1. Len(b) <= m + 1 \/ b[m + 1] # Semicolon \/ ~IsHex(Bytes(b, 1, m - 1))
        BY <1>1, <2>1, <3>2, LineMistyped
      <4> QED BY <2>2, <4>1, Zenon
    <3> QED BY <3>1, <3>2
  <2>4. LineEnd(b, m + 1) = 0 => ~(LineEnd(b, m + 1) > 0)
    OBVIOUS
  <2> QED BY <2>3, <2>4, Zenon DEF RawTry, m
<1> QED BY <1>6, <1>7, AirspyAllFail, RawAllFail

\* All parsers do.
LEMMA AirspyWaited ==
  ASSUME NEW x, NEW t, NEW n, NEW k, NEW eol, StampedLine(x, t, n, k, eol), NEW b, Short(b, x),
         NEW known \in {"auto", "airspy_adsb"}, NEW st
  PROVE  Untouched(ParserWrapper(known, b, st), st)
<1>1. Untouched(Parse("airspy_adsb", b, st), st) /\ Untouched(Parse("raw", b, st), st)
  BY AirspyWaits
<1>2. b \in Seq(Byte) /\ Len(b) > 0 /\ b[1] = Star
  <2>1. IsLine(x, t, n, k, eol)
    BY DEF StampedLine
  <2> QED BY <2>1, LineStar
<1>3. CASE known = "airspy_adsb"
  <2>1. ParserWrapper("airspy_adsb", b, st) = Parse("airspy_adsb", b, st)
    BY DEF ParserWrapper
  <2> QED BY <1>1, <1>3, <2>1
<1>4. CASE known = "auto"
  <2>1. /\ Untouched(Parse("beast", b, st), st) /\ Untouched(Parse("json", b, st), st)
        /\ Untouched(Parse("proto", b, st), st)
    BY <1>2, StarUntouched
  <2>2. ParserWrapper("auto", b, st) = Parse("raw", b, st)
    BY <1>1, <2>1, FifthTried
  <2> QED BY <1>1, <1>4, <2>2
<1> QED BY <1>3, <1>4

\* What the peer's airspy_adsb_serialize() has written for a packet.  It fits in the
\* buffer, which the assertion of airspy_adsb_init() does not imply: a line may have
\* 49 bytes.
AirspyFrameOf(f) ==
  /\ f.due = Len(f.bytes) /\ Len(f.bytes) <= BufLenMax
  /\ \E p, eol : /\ Whole(p) /\ p.stamp \in Seq(Byte) /\ Len(p.stamp) = 6 /\ eol \in LineEnds
                 /\ f.bytes = AirspySerialize(p, eol)
                 /\ f.packet = Packet(p.type, 0, p.stamp, p.payload)

AirspyStream(s) ==
  Strung(s) /\ s.format = "airspy_adsb" /\ \A j \in 1..Len(s.frames) : AirspyFrameOf(s.frames[j])

\* airspy_adsb: a stream of any number of packets, whatever is in them and whichever
\* line ends the peer writes, is taken packet by packet, wherever the reads cut it
\* (airspy_adsb.c:28-92).
THEOREM AirspyFramed ==
  ASSUME NEW s, AirspyStream(s)
  PROVE  Framed(s)
<1>1. Strung(s) /\ s.format = "airspy_adsb" /\ \A j \in 1..Len(s.frames) : AirspyFrameOf(s.frames[j])
  BY DEF AirspyStream
<1>2. ASSUME NEW j \in 1..Len(s.frames)
      PROVE  /\ s.frames[j].bytes \in Seq(Byte) /\ Len(s.frames[j].bytes) \in 1..BufLenMax
             /\ s.frames[j].due = Len(s.frames[j].bytes)
  <2> DEFINE f == s.frames[j]
             x == f.bytes
  <2>1. AirspyFrameOf(f)
    BY <1>1
  <2>2. PICK p, eol : /\ Whole(p) /\ p.stamp \in Seq(Byte) /\ Len(p.stamp) = 6 /\ eol \in LineEnds
                      /\ x = AirspySerialize(p, eol)
    BY <2>1 DEF AirspyFrameOf
  <2>3. f.due = Len(x) /\ Len(x) <= BufLenMax
    BY <2>1 DEF AirspyFrameOf
  <2> DEFINE n == 1 + 2 * PayloadLen[p.type]
             k == n + 18
             t == p.type
  <2>4. StampedLine(x, t, n, k, eol)
    BY <2>2, AirspyIsLine
  <2> HIDE DEF n, k, t, f, x
  <2>5. x \in Seq(Byte) /\ k \in Nat /\ Len(x) = k + Len(eol)
    BY <2>4 DEF StampedLine, IsLine
  <2>6. Len(eol) \in 1..2
    BY <2>2, EolAt, <<>> \in Seq(Byte)
  <2>7. Len(x) \in 1..BufLenMax
    <3> DEFINE l == Len(x)
               m == Len(eol)
    <3>1. l = k + m /\ m \in 1..2 /\ k \in Nat /\ l <= BufLenMax /\ BufLenMax \in Nat
      BY <2>3, <2>5, <2>6, ReceiveAssumption
    <3> HIDE DEF l, m
    <3>2. l \in 1..BufLenMax
      BY <3>1
    <3> QED BY <3>2 DEF l
  <2> QED BY <2>3, <2>5, <2>7 DEF f, x
<1>3. Laid(s)
  <2>1. \A j \in 1..Len(s.frames) :
          s.frames[j].bytes \in Seq(Byte) /\ s.frames[j].due \in 1..Len(s.frames[j].bytes)
    BY <1>2
  <2>2. s.good \in 0..Len(s.frames)
    BY <1>1 DEF Strung
  <2> QED BY <1>1, <2>1, <2>2 DEF Laid, Strung
<1>4. ASSUME NEW j \in 1..Len(s.frames), NEW i, i = j - 1
      PROVE  WaitsFor(s, i, j) /\ TakesWhole(s, i, j)
  <2> DEFINE st == StateAt(s, i)
             f == s.frames[j]
             x == f.bytes
  <2>1. PICK p, eol : /\ Whole(p) /\ p.stamp \in Seq(Byte) /\ Len(p.stamp) = 6 /\ eol \in LineEnds
                      /\ x = AirspySerialize(p, eol)
                      /\ f.packet = Packet(p.type, 0, p.stamp, p.payload)
    BY <1>1 DEF AirspyFrameOf
  <2>2. Known(s, i) \in {"auto", "airspy_adsb"}
    BY <1>1 DEF Known
  <2>3. StateAt(s, j) = Stamp(st, p.stamp)
    <3>1. f.packet.type \in 1..3 /\ f.packet.stamp = p.stamp
      BY <2>1 DEF Packet, Whole
    <3>2. f.packet # NoPacket
      BY <3>1, NotNone
    <3>3. p.stamp # <<>>
      <4>1. p.stamp = <<>> => Len(p.stamp) = 0
        BY Zenon, Len(<<>>) = 0
      <4> QED BY <2>1, <4>1
    <3>4. StateAt(s, j) = Stamp(StateAt(s, i), f.packet.stamp)
      BY <1>3, <1>4, <3>1, <3>2, <3>3, StateSteps
    <3> QED BY <3>1, <3>4
  <2> HIDE DEF st
  <2>4. WaitsFor(s, i, j)
    <3> SUFFICES ASSUME NEW b, Short(b, x)
                 PROVE  NextAwaited(ParserWrapper(Known(s, i), b, StateAt(s, i)), s, i)
      BY DEF WaitsFor
    <3> DEFINE n == 1 + 2 * PayloadLen[p.type]
               k == n + 18
               t == p.type
    <3>1. StampedLine(x, t, n, k, eol)
      BY <2>1, AirspyIsLine
    <3> HIDE DEF n, k, t
    <3>2. Untouched(ParserWrapper(Known(s, i), b, st), st)
      BY <2>2, <3>1, AirspyWaited
    <3> QED BY <3>2 DEF Untouched, NextAwaited, st
  <2>5. TakesWhole(s, i, j)
    <3> SUFFICES ASSUME NEW rest \in Seq(Byte)
                 PROVE  WholeTaken(ParserWrapper(Known(s, i), x \o rest, StateAt(s, i)), s, j)
      BY DEF TakesWhole
    <3> DEFINE r == ParserWrapper(Known(s, i), x \o rest, st)
    <3>1. FoundAt(r, "airspy_adsb", Len(x), f.packet, Stamp(st, p.stamp))
      <4>1. CASE Known(s, i) = "auto"
        BY <2>1, <4>1, AirspyDetected
      <4>2. CASE Known(s, i) = "airspy_adsb"
        <5>1. r = Parse("airspy_adsb", x \o rest, st)
          BY <4>2 DEF ParserWrapper
        <5> HIDE DEF r
        <5> QED BY <2>1, <5>1, AirspyRoundTrip
      <4> QED BY <2>2, <4>1, <4>2
    <3> HIDE DEF r
    <3>2. WholeTaken(r, s, j)
      BY <1>1, <2>3, <3>1 DEF FoundAt, Found, WholeTaken
    <3> QED BY <3>2 DEF r, st
  <2> QED BY <2>4, <2>5
<1>5. \A j \in 1..Len(s.frames) : WaitsFor(s, j - 1, j) /\ TakesWhole(s, j - 1, j)
  BY <1>4
<1>6. s.good = Len(s.frames)
  BY <1>1 DEF Strung
<1>7. \A j \in 1..Len(s.frames) : Len(s.frames[j].bytes) <= BufLenMax
  BY <1>2, ReceiveAssumption
<1> QED BY <1>2, <1>3, <1>5, <1>6, <1>7, WholeFrames

-----------------------------------------------------------------------------
(* Streams of json *)

\* An object of json, and where it ends; a line feed follows.
IsObject(x, kind, load, end) ==
  /\ x \in Seq(Byte) /\ load \in Seq(Byte) /\ end \in Nat /\ end >= 3
  /\ end = 3 + 2 * Len(load) /\ Len(x) = end + 1
  /\ x[1] = OpenBrace /\ x[2] = kind /\ x[end] = CloseBrace /\ x[end + 1] = LF
  /\ \A k \in 1..end - 1 : x[k] # CloseBrace
  /\ SubSeq(x, 3, end - 1) = HexText(load)

\* JsonObject() is one: it has one closing brace.
LEMMA ObjectShape ==
  ASSUME NEW kind \in Byte, kind # CloseBrace, NEW load \in Seq(Byte),
         NEW x, x = JsonObject(kind, load), NEW end, end = 3 + 2 * Len(load)
  PROVE  IsObject(x, kind, load, end)
<1> DEFINE none == <<>>
           b == x \o none
           h == HexText(load)
<1>1. none \in Seq(Byte)
  OBVIOUS
<1>2. JsonAt(b, kind, h, 3 + 2 * Len(load)) /\ Len(x) = 4 + 2 * Len(load)
  <2> HIDE DEF none
  <2> QED BY <1>1, JsonObjectAt
<1>3. h \in Seq(HexDigits) /\ Len(h) = 2 * Len(load)
  BY HexTextSeq
<1>4. x \in Seq(Byte)
  <2>1. h \in Seq(Byte)
    BY HexBytes
  <2>2. <<OpenBrace, kind>> \in Seq(Byte) /\ <<CloseBrace, LF>> \in Seq(Byte)
    BY DEF OpenBrace, CloseBrace, LF, Byte
  <2> HIDE DEF h
  <2>3. x = <<OpenBrace, kind>> \o h \o <<CloseBrace, LF>>
    BY DEF JsonObject, h
  <2> QED BY <2>1, <2>2, <2>3
<1>5. b = x
  BY <1>4
<1>6. JsonAt(x, kind, h, end)
  BY <1>2, <1>5
<1> HIDE DEF h, b
<1>7. /\ Blank(x, 0) = 0 /\ JsonEnd(x) = end /\ x[2] = kind /\ SubSeq(x, 3, end - 1) = h
      /\ x[end + 1] = LF
  BY <1>6, Zenon DEF JsonAt
<1>8. end \in Nat /\ end >= 3 /\ Len(x) = end + 1
  <2>1. Len(load) \in Nat
    OBVIOUS
  <2> QED BY <1>2, <2>1
<1> DEFINE ends == {i \in 0 + 1..Len(x) : x[i] = CloseBrace}
<1>9. /\ x[0 + 1] = OpenBrace /\ ends # {} /\ Min(ends) = end
  <2>1. JsonEnd(x) = IF Len(x) <= 0 \/ x[0 + 1] # OpenBrace \/ ends = {} THEN 0 ELSE Min(ends)
    BY <1>7, Zenon DEF JsonEnd
  <2> HIDE DEF ends
  <2>2. end # 0
    BY <1>8
  <2> QED BY <1>7, <2>1, <2>2, Zenon
<1>10. end \in ends /\ \A i \in ends : end <= i
  <2>1. ends \in SUBSET Nat
    OBVIOUS
  <2> HIDE DEF ends
  <2> QED BY <1>9, <2>1, LeastNat, MinIs
<1>11. x[end] = CloseBrace
  BY <1>10
<1>12. \A k \in 1..end - 1 : x[k] # CloseBrace
  <2> SUFFICES ASSUME NEW k \in 1..end - 1, x[k] = CloseBrace PROVE FALSE
    OBVIOUS
  <2>1. k \in ends /\ k < end
    BY <1>8
  <2> HIDE DEF ends
  <2> QED BY <1>8, <1>10, <2>1
<1>13. x[1] = OpenBrace
  BY <1>9
<1> QED BY <1>4, <1>7, <1>8, <1>11, <1>12, <1>13 DEF IsObject, h

\* The beginning of a buffer: the line feed of the object before, or not; an object;
\* and the next one.  All of it, or a part.
BeginsWith(b, l, x) ==
  /\ b \in Seq(Byte) /\ Len(b) >= 1 /\ l \in 0..1
  /\ (l = 1 => b[1] = LF)
  /\ \A k \in 1..Len(x) : l + k <= Len(b) => b[l + k] = x[k]
  /\ Len(b) > l + Len(x) => b[l + Len(x) + 1] = OpenBrace

\* The line feed is skipped.
LEMMA JsonSkips ==
  ASSUME NEW b, NEW l, NEW x, BeginsWith(b, l, x), Len(x) >= 1, Len(x) \in Nat, x[1] = OpenBrace
  PROVE  /\ l < Len(b) => Blank(b, 0) = l /\ b[l + 1] = OpenBrace
         /\ Len(b) <= l => JsonEnd(b) = 0
<1>1. b \in Seq(Byte) /\ Len(b) \in Nat /\ Len(b) >= 1 /\ l \in 0..1 /\ (l = 1 => b[1] = LF)
  BY DEF BeginsWith
<1>2. CASE l < Len(b)
  <2>1. b[l + 1] = OpenBrace
    <3>1. 1 \in 1..Len(x) /\ l + 1 <= Len(b)
      BY <1>1, <1>2
    <3> QED BY <3>1 DEF BeginsWith
  <2>2. OpenBrace \notin {CR, LF} /\ LF \in {CR, LF}
    BY DEF OpenBrace, CR, LF
  <2>3. \A i \in 0 + 1..l : b[i] \in {CR, LF}
    BY <1>1, <2>2
  <2>4. b[l + 1] \notin {CR, LF} /\ l \in Nat /\ 0 <= l
    BY <1>1, <2>1, <2>2
  <2>5. Blank(b, 0) = l - 0
    BY <1>1, <1>2, <2>3, <2>4, BlankTo
  <2>6. Blank(b, 0) = l
    BY <1>1, <2>5
  <2>7. ~(Len(b) <= l)
    BY <1>1, <1>2
  <2> QED BY <2>1, <2>6, <2>7
<1>3. CASE Len(b) <= l
  <2>0. \A v \in Nat, u \in 0..1 : v >= 1 /\ v <= u => v = 1 /\ u = 1
    OBVIOUS
  <2>1. Len(b) = 1 /\ l = 1 /\ b[1] = LF
    BY <1>1, <1>3, <2>0, Zenon
  <2>2. \A i \in 0 + 1..Len(b) : b[i] \in {CR, LF}
    BY <2>1
  <2>3. Blank(b, 0) = Len(b) - 0
    BY <1>1, <2>2, BlankAll
  <2>4. Len(b) <= Blank(b, 0)
    BY <2>1, <2>3
  <2>5. JsonEnd(b) = 0
    BY <2>4, Zenon DEF JsonEnd
  <2>6. ~(l < Len(b))
    BY <2>1
  <2> QED BY <2>5, <2>6
<1> QED BY <1>1, <1>2, <1>3

\* json_loadb() waits for the closing brace.
LEMMA JsonAwaits ==
  ASSUME NEW b, NEW l, NEW x, NEW kind, NEW load, NEW end,
         BeginsWith(b, l, x), IsObject(x, kind, load, end), Len(b) < l + end
  PROVE  JsonEnd(b) = 0
<1>1. /\ b \in Seq(Byte) /\ Len(b) \in Nat /\ l \in 0..1 /\ end \in Nat /\ end >= 3 /\ Len(x) = end + 1
      /\ x[1] = OpenBrace /\ \A k \in 1..end - 1 : x[k] # CloseBrace
  BY DEF BeginsWith, IsObject
<1>2. Len(x) >= 1 /\ Len(x) \in Nat
  BY <1>1
<1>3. CASE Len(b) <= l
  BY <1>1, <1>2, <1>3, JsonSkips
<1>4. CASE l < Len(b)
  <2>1. Blank(b, 0) = l
    BY <1>1, <1>2, <1>4, JsonSkips
  <2> DEFINE ends == {i \in l + 1..Len(b) : b[i] = CloseBrace}
  <2>2. ASSUME NEW i \in l + 1..Len(b) PROVE b[i] # CloseBrace
    <3> DEFINE k == i - l
    <3>1. k \in 1..Len(x) /\ k \in 1..end - 1 /\ l + k = i /\ l + k <= Len(b)
      BY <1>1
    <3> HIDE DEF k
    <3>2. b[l + k] = x[k]
      BY <3>1 DEF BeginsWith
    <3> QED BY <1>1, <3>1, <3>2
  <2>3. ends = {}
    BY <2>2
  <2> QED BY <2>1, <2>3, Zenon DEF JsonEnd
<1> QED BY <1>1, <1>3, <1>4

\* Once that has come, it has the object; of the line ends after it as many are
\* consumed as have come.
ObjectRead(b, l, kind, load, end) ==
  /\ Blank(b, 0) = l /\ JsonEnd(b) = l + end
  /\ Blank(b, l + end) = (IF Len(b) = l + end THEN 0 ELSE 1)
  /\ b[l + 2] = kind /\ SubSeq(b, l + 3, l + end - 1) = HexText(load)

\* json_loadb() returns the object as soon as its closing brace has come.
LEMMA JsonReads ==
  ASSUME NEW b, NEW l, NEW x, NEW kind, NEW load, NEW end,
         BeginsWith(b, l, x), IsObject(x, kind, load, end), Len(b) >= l + end
  PROVE  ObjectRead(b, l, kind, load, end)
<1>1. /\ b \in Seq(Byte) /\ Len(b) \in Nat /\ l \in 0..1 /\ end \in Nat /\ end >= 3 /\ Len(x) = end + 1
      /\ x[1] = OpenBrace /\ x[2] = kind /\ x[end] = CloseBrace /\ x[end + 1] = LF
      /\ (\A k \in 1..end - 1 : x[k] # CloseBrace) /\ SubSeq(x, 3, end - 1) = HexText(load)
      /\ x \in Seq(Byte) /\ end = 3 + 2 * Len(load) /\ load \in Seq(Byte)
      /\ (\A k \in 1..Len(x) : l + k <= Len(b) => b[l + k] = x[k])
      /\ (Len(b) > l + Len(x) => b[l + Len(x) + 1] = OpenBrace)
  BY DEF BeginsWith, IsObject
<1>2. Len(x) >= 1 /\ Len(x) \in Nat /\ l < Len(b)
  BY <1>1
<1>3. Blank(b, 0) = l /\ b[l + 1] = OpenBrace
  BY <1>1, <1>2, JsonSkips
<1> DEFINE last == l + end
<1>4. last = l + end /\ last \in Nat /\ last > l /\ last <= Len(b)
  BY <1>1
<1>5. ASSUME NEW k \in 1..end PROVE b[l + k] = x[k]
  <2>1. k \in 1..Len(x) /\ l + k <= Len(b)
    BY <1>1
  <2> QED BY <1>1, <2>1
<1> HIDE DEF last
<1>6. JsonEnd(b) = last
  <2> DEFINE ends == {i \in l + 1..Len(b) : b[i] = CloseBrace}
  <2>1. ends \in SUBSET Nat
    BY <1>1
  <2>2. last \in ends
    <3>1. b[l + end] = x[end]
      BY <1>1, <1>5
    <3> QED BY <1>1, <1>4, <3>1
  <2>3. ASSUME NEW i \in ends PROVE last <= i
    <3> SUFFICES ASSUME i < last PROVE FALSE
      BY <1>4
    <3> DEFINE k == i - l
    <3>1. k \in 1..end /\ k \in 1..end - 1 /\ l + k = i
      BY <1>1, <1>4
    <3> HIDE DEF k
    <3>2. b[l + k] = x[k]
      BY <1>5, <3>1
    <3> QED BY <1>1, <3>1, <3>2
  <2> HIDE DEF ends
  <2>4. Min(ends) = last
    BY <2>1, <2>2, <2>3, MinIs
  <2>5. ends # {}
    BY <2>2
  <2>6. ~(Len(b) <= l)
    BY <1>1, <1>2
  <2>7. JsonEnd(b) = IF Len(b) <= l \/ b[l + 1] # OpenBrace \/ ends = {} THEN 0 ELSE Min(ends)
    BY <1>3, Zenon DEF JsonEnd, ends
  <2> QED BY <1>3, <2>4, <2>5, <2>6, <2>7, Zenon
<1>7. Blank(b, last) = IF Len(b) = last THEN 0 ELSE 1
  <2>0. OpenBrace \notin {CR, LF} /\ LF \in {CR, LF}
    BY DEF OpenBrace, CR, LF
  <2>1. CASE Len(b) = last
    <3>1. \A i \in last + 1..Len(b) : b[i] \in {CR, LF}
      BY <1>4, <2>1
    <3>2. Blank(b, last) = Len(b) - last
      BY <1>1, <1>4, <3>1, BlankAll
    <3> QED BY <1>4, <2>1, <3>2
  <2>2. CASE Len(b) # last
    <3> DEFINE m == last + 1
    <3>1. m \in Nat /\ last <= m /\ m <= Len(b) /\ m - last = 1
      BY <1>1, <1>4, <2>2
    <3>2. b[m] = LF
      <4>1. end + 1 \in 1..Len(x) /\ l + (end + 1) = m /\ l + (end + 1) <= Len(b)
        BY <1>1, <1>4, <3>1
      <4> QED BY <1>1, <4>1
    <3>3. \A i \in last + 1..m : b[i] \in {CR, LF}
      BY <1>4, <2>0, <3>1, <3>2
    <3>4. CASE m = Len(b)
      <4>1. \A i \in last + 1..Len(b) : b[i] \in {CR, LF}
        BY <3>3, <3>4
      <4>2. Blank(b, last) = Len(b) - last
        BY <1>1, <1>4, <4>1, BlankAll
      <4> QED BY <2>2, <3>1, <3>4, <4>2
    <3>5. CASE m # Len(b)
      <4>1. l + Len(x) = m /\ m < Len(b)
        <5>1. m = l + end + 1 /\ m # Len(b) /\ m <= Len(b) /\ m \in Nat
          BY <1>4, <3>1, <3>5
        <5>2. Len(x) = end + 1 /\ end \in Nat /\ l \in Nat /\ Len(b) \in Nat
          BY <1>1
        <5> HIDE DEF m
        <5>3. l + Len(x) = m
          BY <5>1, <5>2
        <5> QED BY <5>1, <5>2, <5>3
      <4>2. b[m + 1] = OpenBrace
        <5>1. Len(b) > l + Len(x)
          BY <1>1, <3>1, <4>1
        <5>2. b[l + Len(x) + 1] = OpenBrace
          BY <1>1, <5>1
        <5> QED BY <4>1, <5>2
      <4>3. b[m + 1] \notin {CR, LF}
        BY <2>0, <4>2
      <4> HIDE DEF m
      <4>4. Blank(b, last) = m - last
        BY <1>1, <1>4, <3>1, <3>3, <4>1, <4>3, BlankTo
      <4> QED BY <2>2, <3>1, <4>4
    <3> QED BY <3>4, <3>5
  <2> QED BY <2>1, <2>2
<1>8. b[l + 2] = kind
  <2>1. 2 \in 1..end
    BY <1>1
  <2> QED BY <1>1, <1>5, <2>1
<1>9. SubSeq(b, l + 3, last - 1) = SubSeq(x, 3, end - 1)
  <2> DEFINE n == end - 3
             u == l + 2
             y == SubSeq(b, u + 1, u + n)
             z == SubSeq(x, 2 + 1, 2 + n)
  <2>1. /\ n \in Nat /\ u \in Nat /\ u + n <= Len(b) /\ 2 + n <= Len(x)
        /\ u + 1 = l + 3 /\ u + n = last - 1 /\ 2 + 1 = 3 /\ 2 + n = end - 1
    BY <1>1, <1>4
  <2>2. ASSUME NEW k \in 1..n PROVE b[u + k] = x[2 + k]
    <3> DEFINE j == 2 + k
    <3>1. j \in 1..end /\ l + j = u + k
      BY <1>1
    <3> HIDE DEF j
    <3>2. b[l + j] = x[j]
      BY <1>5, <3>1
    <3> QED BY <3>1, <3>2 DEF j
  <2> HIDE DEF n, u
  <2>3. y \in Seq(Byte) /\ Len(y) = n /\ \A k \in 1..n : y[k] = b[u + k]
    BY <1>1, <2>1, SMTT(30)
  <2>4. z \in Seq(Byte) /\ Len(z) = n /\ \A k \in 1..n : z[k] = x[2 + k]
    BY <1>1, <2>1, SMTT(30)
  <2> HIDE DEF y, z
  <2>5. y = z
    BY <2>2, <2>3, <2>4, SameBytes
  <2>6. SubSeq(b, u + 1, u + n) = SubSeq(x, 2 + 1, 2 + n)
    BY <2>5 DEF y, z
  <2> QED BY <2>1, <2>6, Zenon
<1>10. SubSeq(b, l + 3, l + end - 1) = HexText(load)
  <2>1. last - 1 = l + end - 1
    <3>1. l \in Int /\ end \in Int /\ last = l + end
      BY <1>1, <1>4
    <3> QED BY <3>1
  <2>2. SubSeq(b, l + 3, last - 1) = HexText(load)
    BY <1>1, <1>9, Zenon
  <2> QED BY <2>1, <2>2, Zenon
<1> QED BY <1>3, <1>4, <1>6, <1>7, <1>8, <1>10 DEF ObjectRead

\* What json_parse() has consumed then.
JsonUsed(b, l, end) == l + end + (IF Len(b) = l + end THEN 0 ELSE 1)

\* A header, read in this way, is taken.
LEMMA JsonHeaderTaken ==
  ASSUME NEW b, NEW l \in 0..1, NEW load, NEW end \in Nat, end >= 3,
         ObjectRead(b, l, Header, load, end), NEW st
  PROVE  FoundAt(Parse("json", b, st), "json", JsonUsed(b, l, end), NoPacket, Introduced(st))
<1> DEFINE last == l + end
           used == JsonUsed(b, l, end)
<1>1. /\ Blank(b, 0) = l /\ JsonEnd(b) = last /\ last > 0 /\ last \in Nat
      /\ Blank(b, last) = (IF Len(b) = last THEN 0 ELSE 1) /\ b[l + 2] = Header
  BY DEF ObjectRead
<1>2. last + Blank(b, last) = used
  BY <1>1 DEF JsonUsed
<1> HIDE DEF last, used
<1>3. JsonParse(b, st) =
        CASE last = 0 -> Failed(st)
          [] last > 0 /\ Header \in {Header, OwnHeader} -> JsonHeader(used, Header, st)
          [] last > 0 /\ Header \in Types
               -> JsonPacket(used, Header, Unhex(SubSeq(b, l + 3, last - 1)), st)
          [] OTHER -> Failed(st)
  BY <1>1, <1>2, Zenon DEF JsonParse
<1>4. Header \notin Types /\ Header # OwnHeader
  BY DEF Header, OwnHeader, Types, PayloadLen
<1>5. JsonParse(b, st) = JsonHeader(used, Header, st)
  BY <1>1, <1>3, <1>4
<1>6. JsonParse(b, st) = Parsed(used, NoPacket, Introduced(st))
  BY <1>4, <1>5, Zenon DEF JsonHeader, Introduced
<1>7. FoundAt(Parse("json", b, st), "json", used, NoPacket, Introduced(st))
  BY <1>6, ParseNames, TaggedParsed
<1> QED BY <1>7 DEF used

\* So is a packet, after a header.
LEMMA JsonPacketTaken ==
  ASSUME NEW b, NEW l \in 0..1, NEW p, Sendable(p), NEW end \in Nat, end >= 3,
         ObjectRead(b, l, p.type, Carried(p), end), NEW st, st.header
  PROVE  FoundAt(Parse("json", b, st), "json", JsonUsed(b, l, end),
                 Packet(p.type, p.hops, p.stamp, p.payload), Stamp(st, p.stamp))
<1> DEFINE t == p.type
           payload == p.payload
           stamp == p.stamp
           hops == p.hops
           data == Carried(p)
           packet == Packet(t, hops, stamp, payload)
           last == l + end
           used == JsonUsed(b, l, end)
<1>1. /\ Blank(b, 0) = l /\ JsonEnd(b) = last /\ b[l + 2] = t /\ last > 0
      /\ Blank(b, last) = (IF Len(b) = last THEN 0 ELSE 1)
      /\ SubSeq(b, l + 3, last - 1) = HexText(data)
  <2>1. l + end - 1 = last - 1 /\ last > 0
    OBVIOUS
  <2> HIDE DEF last, t, data
  <2>2. /\ Blank(b, 0) = l /\ JsonEnd(b) = l + end /\ b[l + 2] = p.type
        /\ Blank(b, l + end) = (IF Len(b) = l + end THEN 0 ELSE 1)
        /\ SubSeq(b, l + 3, l + end - 1) = HexText(Carried(p))
    BY DEF ObjectRead
  <2>3. SubSeq(b, l + 3, last - 1) = HexText(data)
    BY <2>1, <2>2, Zenon DEF data
  <2> QED BY <2>1, <2>2, <2>3, Zenon DEF last, t
<1>2. last + Blank(b, last) = used
  BY <1>1 DEF JsonUsed
<1>3. /\ t \in 1..3 /\ payload \in Seq(Byte) /\ Len(payload) = PayloadLen[t]
      /\ hops \in Byte /\ stamp \in Seq(Byte) /\ Len(stamp) = 2
  BY DEF Sendable, Whole
<1>4. data = <<hops>> \o stamp \o payload
  BY DEF Carried
<1> HIDE DEF t, payload, stamp, hops, data, last, used
<1>5. Carries(data, hops, stamp, payload)
  BY <1>3, <1>4, CarriedParts
<1>6. /\ data \in Seq(Byte) /\ data[1] = hops
      /\ SubSeq(data, 2, 3) = stamp /\ SubSeq(data, 4, Len(data)) = payload
  BY <1>5, Zenon DEF Carries
<1>7. t \notin {Header, OwnHeader} /\ t \in Types
  BY <1>3 DEF Header, OwnHeader, Types, PayloadLen
<1>8. Unhex(HexText(data)) = data
  BY <1>6, HexBack
<1>9. JsonParse(b, st) =
        CASE last = 0 -> Failed(st)
          [] last > 0 /\ t \in {Header, OwnHeader} -> JsonHeader(used, t, st)
          [] last > 0 /\ t \in Types -> JsonPacket(used, t, data, st)
          [] OTHER -> Failed(st)
  BY <1>1, <1>2, <1>8, Zenon DEF JsonParse
<1>10. JsonParse(b, st) = JsonPacket(used, t, data, st)
  <2>1. ~(last = 0)
    BY <1>1
  <2> QED BY <1>1, <1>7, <1>9, <2>1
<1>11. JsonPacket(used, t, data, st) = Parsed(used, packet, Stamp(st, stamp))
  BY <1>3, <1>6, Zenon DEF JsonPacket
<1> HIDE DEF packet
<1>12. Parse("json", b, st) = [Parsed(used, packet, Stamp(st, stamp)) EXCEPT !.format = "json"]
  BY <1>10, <1>11, ParseNames
<1>13. FoundAt(Parse("json", b, st), "json", used, packet, Stamp(st, stamp))
  BY <1>12, TaggedParsed
<1> QED BY <1>13 DEF used, packet, t, payload, stamp, hops

\* While json_loadb() waits, json_parse() leaves no trace.
LEMMA JsonUntouched ==
  ASSUME NEW b, JsonEnd(b) = 0, NEW st
  PROVE  Untouched(Parse("json", b, st), st)
<1>1. JsonParse(b, st) = Failed(st)
  BY DEF JsonParse
<1> QED BY <1>1, ParseNames, TaggedUntouched

\* Nor do the other parsers, that are tried before the format is known.
LEMMA JsonHelloWaits ==
  ASSUME NEW b, b[1] = OpenBrace, JsonEnd(b) = 0, NEW st
  PROVE  Untouched(ParserWrapper("auto", b, st), st)
<1>1. b[1] # Star /\ b[1] # ESC /\ b[1] # FieldOne
  BY DEF OpenBrace, Star, ESC, FieldOne
<1>2. /\ Untouched(Parse("airspy_adsb", b, st), st) /\ Untouched(Parse("beast", b, st), st)
      /\ Untouched(Parse("json", b, st), st) /\ Untouched(Parse("proto", b, st), st)
      /\ Untouched(Parse("raw", b, st), st)
  BY <1>1, NoStar, NoEscape, NoTag, NoRawStar, JsonUntouched
<1>3. ParserWrapper("auto", b, st) = Parse("raw", b, st)
  BY <1>2, FifthTried
<1> QED BY <1>2, <1>3

\* What the peer's json_serialize() has written for a packet: the line feed does not
\* decide it.
JsonFrameOf(f) ==
  \E p : /\ Sendable(p) /\ f.bytes = JsonSerialize(p) /\ f.due = Len(f.bytes) - 1
         /\ f.packet = Packet(p.type, p.hops, p.stamp, p.payload)

\* What its json_hello() has written.
JsonHelloOf(f) == f.bytes = JsonHello /\ f.due = Len(f.bytes) - 1 /\ f.packet = NoPacket

JsonStream(s) ==
  /\ Strung(s) /\ s.format = "json"
  /\ \A j \in 1..Len(s.frames) : IF j = 1 THEN JsonHelloOf(s.frames[j]) ELSE JsonFrameOf(s.frames[j])

\* Both are objects of at most 38 bytes.
ShortObject(f, kind, load) == IsObject(f.bytes, kind, load, f.due) /\ f.due <= 37

IsShortObject(f) == \E kind, load : ShortObject(f, kind, load)

\* A header is one,
LEMMA HelloObject ==
  ASSUME NEW f, JsonHelloOf(f)
  PROVE  ShortObject(f, Header, <<>>)
<1> DEFINE none == <<>>
           x == f.bytes
           end == f.due
<1>1. none \in Seq(Byte) /\ Len(none) = 0
  OBVIOUS
<1>2. x = JsonObject(Header, none) /\ end = Len(x) - 1
  BY DEF JsonHelloOf, JsonHello
<1>3. Header \in Byte /\ Header # CloseBrace
  BY DEF Header, CloseBrace, Byte
<1> SUFFICES ShortObject(f, Header, none)
  OBVIOUS
<1> HIDE DEF none, x
<1>4. Len(x) = 4 + 2 * Len(none)
  <2>1. Len(JsonObject(Header, none)) = 4 + 2 * Len(none)
    BY <1>1, <1>3, JsonObjectAt
  <2> QED BY <1>2, <2>1
<1>5. end = 3 + 2 * Len(none) /\ end <= 37
  BY <1>1, <1>2, <1>4
<1> HIDE DEF end
<1>6. IsObject(x, Header, none, end)
  BY <1>1, <1>2, <1>3, <1>5, ObjectShape
<1> QED BY <1>5, <1>6 DEF ShortObject, x, end

\* and so is a packet.
LEMMA PacketObject ==
  ASSUME NEW f, NEW p, Sendable(p), f.bytes = JsonSerialize(p), f.due = Len(f.bytes) - 1
  PROVE  ShortObject(f, p.type, Carried(p))
<1> DEFINE t == p.type
           data == Carried(p)
           x == f.bytes
           end == f.due
<1>1. /\ t \in 1..3 /\ p.payload \in Seq(Byte) /\ Len(p.payload) = PayloadLen[t]
      /\ p.hops \in Byte /\ p.stamp \in Seq(Byte) /\ Len(p.stamp) = 2
  BY DEF Sendable, Whole
<1>2. x = JsonObject(t, data) /\ end = Len(x) - 1
  BY DEF JsonSerialize, Carried
<1>3. Carries(data, p.hops, p.stamp, p.payload)
  BY <1>1, CarriedParts DEF Carried
<1> SUFFICES ShortObject(f, t, data)
  OBVIOUS
<1> HIDE DEF t, data, x
<1>4. data \in Seq(Byte) /\ Len(data) = 3 + Len(p.payload)
  BY <1>3, Zenon DEF Carries
<1>5. Len(data) \in Nat /\ Len(data) <= 17
  <2>1. PayloadLen[t] \in Nat /\ PayloadLen[t] <= 14
    BY <1>1, Lengths
  <2> QED BY <1>1, <1>4, <2>1
<1>6. t \in Byte /\ t # CloseBrace
  BY <1>1 DEF Byte, CloseBrace
<1>7. Len(x) = 4 + 2 * Len(data)
  <2>1. <<>> \in Seq(Byte)
    OBVIOUS
  <2>2. Len(JsonObject(t, data)) = 4 + 2 * Len(data)
    BY <1>4, <1>6, <2>1, JsonObjectAt
  <2> QED BY <1>2, <2>2
<1>8. end = 3 + 2 * Len(data) /\ end <= 37
  BY <1>2, <1>5, <1>7
<1> HIDE DEF end
<1>9. IsObject(x, t, data, end)
  BY <1>2, <1>4, <1>6, <1>8, ObjectShape
<1> QED BY <1>8, <1>9 DEF ShortObject, x, end

\* Objects, one after the other.
Objects(s) ==
  Laid(s) /\ s.good = Len(s.frames) /\ \A j \in 1..Len(s.frames) : IsShortObject(s.frames[j])

\* What a buffer that begins with the end of a frame, or after it, has of the next.
LEMMA ObjectNext ==
  ASSUME NEW s, Objects(s), NEW j \in 1..Len(s.frames), NEW i, i = j - 1,
         NEW a \in DueAt(s, i)..FrameEnds(s)[i], NEW q \in Nat, a < q, q <= Len(s.wire),
         NEW l, l = FrameEnds(s)[i] - a
  PROVE  BeginsWith(SubSeq(s.wire, a + 1, q), l, s.frames[j].bytes) /\ (i = 0 => l = 0)
<1> DEFINE n == Len(s.frames)
           E == FrameEnds(s)
           w == s.wire
           x == s.frames[j].bytes
           b == SubSeq(w, a + 1, q)
<1>1. Laid(s) /\ n \in Nat /\ w \in Seq(Byte) /\ i \in 0..n /\ j \in 0..n
  BY DEF Objects, Laid
<1>2. InOrder(s)
  BY <1>1, FramesInOrder
<1>3. /\ E[i] \in Nat /\ DueAt(s, i) \in Nat /\ a \in Nat /\ a <= E[i] /\ DueAt(s, i) <= a
  <2>1. E[i] \in Nat /\ DueAt(s, i) \in Nat
    BY <1>1, <1>2 DEF InOrder
  <2> QED BY <2>1
<1>4. l \in Nat /\ a + l = E[i]
  <2> HIDE DEF E
  <2>1. l = E[i] - a
    BY DEF E
  <2> QED BY <1>3, <2>1
<1>5. Placed(s, E[i], E[j], x)
  BY <1>1, FramePlaced
<1>6. /\ E[j] \in Nat /\ E[j] = E[i] + Len(x) /\ x \in Seq(Byte)
      /\ \A k \in 1..Len(x) : w[E[i] + k] = x[k]
  BY <1>5 DEF Placed
<1>7. b \in Seq(Byte) /\ Len(b) = q - a /\ \A k \in 1..q - a : b[k] = w[a + k]
  <2> HIDE DEF w
  <2>1. q <= Len(w)
    BY DEF w
  <2> QED BY <1>1, <1>3, <2>1, SMTT(30)
<1> DEFINE m == Len(x)
<1>m. m \in Nat /\ Len(b) = q - a /\ q \in Nat /\ a < q
  <2>1. m \in Nat
    BY <1>6
  <2>2. q \in Nat /\ a < q
    OBVIOUS
  <2> QED BY <1>7, <2>1, <2>2, Zenon
<1>l. a \in Nat /\ l \in Nat
  BY <1>3, <1>4, Zenon
<1> HIDE DEF m
<1>8. i = 0 => l = 0
  <2>1. i = 0 => E[i] = 0
    BY <1>1, EndsSteps
  <2> HIDE DEF E
  <2> QED BY <1>3, <1>4, <2>1
<1>9. i # 0 => l \in 0..1 /\ w[E[i]] = LF
  <2> SUFFICES ASSUME i # 0 PROVE l \in 0..1 /\ w[E[i]] = LF
    OBVIOUS
  <2> DEFINE h == i - 1
             f == s.frames[i]
  <2>1. i \in 1..n /\ h = i - 1
    BY <1>1
  <2> HIDE DEF h
  <2>2. PICK kind, load : IsObject(f.bytes, kind, load, f.due)
    <3>1. IsShortObject(s.frames[i])
      BY <2>1 DEF Objects
    <3> QED BY <3>1 DEF IsShortObject, ShortObject
  <2>3. f.due \in Nat /\ Len(f.bytes) = f.due + 1 /\ f.bytes[f.due + 1] = LF
    BY <2>2 DEF IsObject
  <2>4. Placed(s, E[h], E[i], f.bytes)
    BY <1>1, <2>1, FramePlaced
  <2>5. E[h] \in Nat /\ E[i] = E[h] + Len(f.bytes) /\ \A k \in 1..Len(f.bytes) : w[E[h] + k] = f.bytes[k]
    BY <2>4 DEF Placed
  <2>6. DueAt(s, i) = E[h] + f.due
    BY <2>1 DEF DueAt
  <2> HIDE DEF E, f, w
  <2>7. E[i] = DueAt(s, i) + 1
    <3>1. \A c, d \in Nat : c + (d + 1) = (c + d) + 1
      OBVIOUS
    <3> QED BY <2>3, <2>5, <2>6, <3>1, Zenon
  <2>8. f.due + 1 \in 1..Len(f.bytes) /\ E[h] + (f.due + 1) = E[i]
    <3>1. \A v \in Nat : v + 1 \in 1..v + 1
      OBVIOUS
    <3>2. f.due + 1 \in 1..f.due + 1
      BY <2>3, <3>1, Zenon
    <3>3. f.due + 1 = Len(f.bytes) /\ E[i] = E[h] + Len(f.bytes)
      BY <2>3, <2>5, Zenon
    <3> QED BY <3>2, <3>3, Zenon
  <2>9. l \in 0..1
    BY <1>3, <1>4, <2>7
  <2>10. w[E[h] + (f.due + 1)] = f.bytes[f.due + 1]
    BY <2>5, <2>8
  <2> QED BY <2>3, <2>8, <2>9, <2>10
<1>10. l \in 0..1 /\ (l = 1 => i # 0)
  BY <1>8, <1>9
<1>11. l = 1 => b[1] = LF
  <2> SUFFICES ASSUME l = 1 PROVE b[1] = LF
    OBVIOUS
  <2>1. a + 1 = E[i] /\ w[E[i]] = LF
    BY <1>4, <1>9, <1>10
  <2>2. 1 \in 1..q - a
    BY <1>3
  <2> HIDE DEF b, w, E
  <2> QED BY <1>7, <2>1, <2>2
<1>12. ASSUME NEW k \in 1..Len(x), l + k <= Len(b) PROVE b[l + k] = x[k]
  <2>1. l + k \in 1..q - a /\ a + (l + k) = E[i] + k
    <3>1. k \in 1..m /\ l + k <= Len(b)
      BY <1>12 DEF m
    <3> HIDE DEF b, w, E, x
    <3>2. k \in Nat /\ k >= 1
      BY <1>m, <3>1
    <3>3. l + k <= q - a
      BY <1>m, <3>1, Zenon
    <3>4. l + k \in 1..q - a
      BY <1>m, <1>l, <3>2, <3>3
    <3>5. a + (l + k) = (a + l) + k
      BY <1>l, <3>2
    <3> QED BY <1>4, <3>4, <3>5, Zenon
  <2> HIDE DEF b, w, E, x
  <2>2. b[l + k] = w[a + (l + k)]
    BY <1>7, <2>1
  <2> QED BY <1>6, <2>1, <2>2
<1>13. ASSUME Len(b) > l + Len(x) PROVE b[l + Len(x) + 1] = OpenBrace
  <2>1. /\ E[j] < q /\ l + Len(x) + 1 \in 1..q - a /\ a + (l + Len(x) + 1) = E[j] + 1
    <3>1. Len(b) > l + m
      BY <1>13 DEF m
    <3> HIDE DEF b, w, E
    <3>2. q - a > l + m
      BY <1>m, <3>1, Zenon
    <3>3. (a + l) + m < q /\ l + m + 1 \in 1..q - a
      <4>1. \A c, d, e, u \in Nat : u - c > d + e => (c + d) + e < u /\ d + e + 1 \in 1..u - c
        OBVIOUS
      <4> QED BY <1>m, <1>l, <3>2, <4>1, Zenon
    <3>4. a + (l + m + 1) = ((a + l) + m) + 1
      BY <1>m, <1>l
    <3>5. E[j] = (a + l) + m
      BY <1>4, <1>6, Zenon DEF m
    <3>6. E[j] < q /\ a + (l + m + 1) = E[j] + 1
      BY <3>3, <3>4, <3>5, Zenon
    <3> QED BY <3>3, <3>6 DEF m
  <2>2. Len(w) = E[n]
    BY <1>1 DEF Laid, Spelled
  <2>3. j # n
    <3>1. E[j] < Len(w) /\ Len(w) \in Nat
      <4>1. Len(w) \in Nat /\ q <= Len(w)
        BY <1>1
      <4> HIDE DEF w, E
      <4> QED BY <1>6, <2>1, <4>1
    <3> HIDE DEF w, E
    <3> QED BY <1>6, <2>2, <3>1
  <2> DEFINE g == j + 1
             f == s.frames[g]
  <2>4. g \in 1..n /\ j = g - 1
    BY <1>1, <2>3
  <2> HIDE DEF g
  <2>5. Placed(s, E[j], E[g], f.bytes)
    BY <1>1, <2>4, FramePlaced
  <2>6. Len(f.bytes) >= 1 /\ f.bytes \in Seq(Byte) /\ \A k \in 1..Len(f.bytes) : w[E[j] + k] = f.bytes[k]
    BY <2>5 DEF Placed
  <2>7. f.bytes[1] = OpenBrace
    <3>1. IsShortObject(s.frames[g])
      BY <2>4 DEF Objects
    <3> QED BY <3>1 DEF IsShortObject, ShortObject, IsObject
  <2>8. w[E[j] + 1] = OpenBrace
    <3>1. 1 \in 1..Len(f.bytes)
      BY <2>6
    <3> QED BY <2>6, <2>7, <3>1
  <2>9. b[l + Len(x) + 1] = w[a + (l + Len(x) + 1)]
    <3> HIDE DEF b, w, E, x
    <3> QED BY <1>7, <2>1
  <2> HIDE DEF b, w, E, x
  <2> QED BY <2>1, <2>8, <2>9
<1>14. Len(b) >= 1
  <2> HIDE DEF b
  <2> QED BY <1>3, <1>7
<1> QED BY <1>7, <1>8, <1>10, <1>11, <1>12, <1>13, <1>14 DEF BeginsWith

\* An object, or a part of it, is taken as the frame that it is, or waited for.
JsonStep(s, i, j, b, l) ==
  LET f == s.frames[j]
      made == ParserWrapper(Known(s, i), b, StateAt(s, i))
  IN  /\ Len(b) < l + f.due => Untouched(made, StateAt(s, i))
      /\ Len(b) >= l + f.due => FoundAt(made, "json", JsonUsed(b, l, f.due), f.packet, StateAt(s, j))

\* The header is found,
LEMMA JsonHelloStep ==
  ASSUME NEW s, Objects(s), 1 \in 1..Len(s.frames), JsonHelloOf(s.frames[1]),
         NEW b, BeginsWith(b, 0, s.frames[1].bytes)
  PROVE  JsonStep(s, 0, 1, b, 0)
<1> DEFINE st == StateAt(s, 0)
           f == s.frames[1]
           none == <<>>
           end == f.due
           x == f.bytes
           made == ParserWrapper(Known(s, 0), b, st)
<1>1. ShortObject(f, Header, none)
  BY HelloObject
<1>2. made = ParserWrapper("auto", b, st)
  BY DEF Known
<1>3. f.packet = NoPacket
  BY DEF JsonHelloOf
<1>4. StateAt(s, 1) = Introduced(st)
  <2>1. 0 = 1 - 1 /\ Laid(s)
    BY DEF Objects
  <2> QED BY <1>3, <2>1, StateSteps
<1> HIDE DEF none
<1>5. IsObject(x, Header, none, end)
  BY <1>1 DEF ShortObject
<1>6. end \in Nat /\ end >= 3 /\ Len(x) = end + 1 /\ x[1] = OpenBrace /\ BeginsWith(b, 0, x)
  BY <1>5 DEF IsObject
<1> HIDE DEF f, st, made, x, end
<1>7. b[1] = OpenBrace
  <2>1. Len(b) \in Nat /\ Len(b) >= 1 /\ \A k \in 1..Len(x) : 0 + k <= Len(b) => b[0 + k] = x[k]
    BY <1>6 DEF BeginsWith
  <2>2. 1 \in 1..Len(x) /\ 0 + 1 = 1
    BY <1>6
  <2> QED BY <1>6, <2>1, <2>2
<1>8. ASSUME Len(b) < 0 + end PROVE Untouched(made, st)
  <2>1. JsonEnd(b) = 0
    BY <1>5, <1>6, <1>8, JsonAwaits
  <2> QED BY <1>2, <1>7, <2>1, JsonHelloWaits
<1>9. ASSUME Len(b) >= 0 + end PROVE FoundAt(made, "json", JsonUsed(b, 0, end), NoPacket, Introduced(st))
  <2> DEFINE r == Parse("json", b, st)
             used == JsonUsed(b, 0, end)
  <2>1. ObjectRead(b, 0, Header, none, end)
    BY <1>5, <1>6, <1>9, JsonReads
  <2>2. FoundAt(r, "json", used, NoPacket, Introduced(st))
    <3>1. 0 \in 0..1
      OBVIOUS
    <3> QED BY <1>6, <2>1, <3>1, JsonHeaderTaken
  <2>3. used > 0
    BY <1>6 DEF JsonUsed
  <2> HIDE DEF used
  <2>4. r.used > 0
    BY <2>2, <2>3 DEF FoundAt, Found
  <2>5. b[1] \notin {Star, ESC}
    BY <1>7 DEF OpenBrace, Star, ESC
  <2>6. ParserWrapper("auto", b, st) = r
    BY <2>4, <2>5, ThirdTaken
  <2> QED BY <1>2, <2>2, <2>6 DEF used
<1> QED BY <1>3, <1>4, <1>8, <1>9 DEF JsonStep, f, st, made, end

\* and the packets after it.
LEMMA JsonPacketStep ==
  ASSUME NEW s, Objects(s), s.format = "json", JsonHelloOf(s.frames[1]),
         NEW j \in 1..Len(s.frames), j # 1, NEW i, i = j - 1, JsonFrameOf(s.frames[j]),
         NEW b, NEW l, BeginsWith(b, l, s.frames[j].bytes)
  PROVE  JsonStep(s, i, j, b, l)
<1> DEFINE st == StateAt(s, i)
           f == s.frames[j]
           end == f.due
           x == f.bytes
           made == ParserWrapper(Known(s, i), b, st)
<1>1. PICK p : /\ Sendable(p) /\ x = JsonSerialize(p) /\ end = Len(x) - 1
               /\ f.packet = Packet(p.type, p.hops, p.stamp, p.payload)
  BY DEF JsonFrameOf
<1>2. i # 0 /\ i \in Nat /\ 1 \in 1..i /\ Laid(s)
  <2>1. Laid(s) /\ Len(s.frames) \in Nat
    BY DEF Objects, Laid
  <2> QED BY <2>1
<1>3. made = Parse("json", b, st)
  BY <1>2 DEF Known, ParserWrapper
<1>4. st.header
  <2>1. s.frames[1].packet = NoPacket
    BY DEF JsonHelloOf
  <2> QED BY <1>2, <2>1 DEF StateAt
<1>5. StateAt(s, j) = Stamp(st, p.stamp)
  <2>1. f.packet.type \in 1..3 /\ f.packet.stamp = p.stamp
    BY <1>1 DEF Packet, Sendable, Whole
  <2>2. f.packet # NoPacket
    BY <2>1, NotNone
  <2>3. p.stamp # <<>>
    <3>1. p.stamp = <<>> => Len(p.stamp) = 0
      BY Zenon, Len(<<>>) = 0
    <3> QED BY <1>1, <3>1 DEF Sendable
  <2>4. StateAt(s, j) = Stamp(StateAt(s, i), f.packet.stamp)
    BY <1>2, <2>1, <2>2, <2>3, StateSteps
  <2> QED BY <2>1, <2>4
<1>6. ShortObject(f, p.type, Carried(p))
  BY <1>1, PacketObject
<1>7. IsObject(x, p.type, Carried(p), end)
  BY <1>6 DEF ShortObject
<1>8. end \in Nat /\ end >= 3 /\ BeginsWith(b, l, x)
  BY <1>7 DEF IsObject
<1> HIDE DEF f, st, made, x, end
<1>9. l \in 0..1
  BY <1>8 DEF BeginsWith
<1>10. ASSUME Len(b) < l + end PROVE Untouched(made, st)
  <2>1. JsonEnd(b) = 0
    BY <1>7, <1>8, <1>10, JsonAwaits
  <2> QED BY <1>3, <2>1, JsonUntouched
<1>11. ASSUME Len(b) >= l + end PROVE FoundAt(made, "json", JsonUsed(b, l, end), f.packet, Stamp(st, p.stamp))
  <2>1. ObjectRead(b, l, p.type, Carried(p), end)
    BY <1>7, <1>8, <1>11, JsonReads
  <2>2. FoundAt(Parse("json", b, st), "json", JsonUsed(b, l, end),
                Packet(p.type, p.hops, p.stamp, p.payload), Stamp(st, p.stamp))
    BY <1>1, <1>4, <1>8, <1>9, <2>1, JsonPacketTaken
  <2> QED BY <1>1, <1>3, <2>2
<1> QED BY <1>5, <1>10, <1>11 DEF JsonStep, f, st, made, end

\* Only the line feed of an object can still be to come when it is taken.
LEMMA ObjectEnds ==
  ASSUME NEW s, Objects(s), NEW i \in 0..Len(s.frames)
  PROVE  /\ FrameEnds(s)[i] \in Nat /\ DueAt(s, i) \in Nat
         /\ FrameEnds(s)[i] <= DueAt(s, i) + 1 /\ DueAt(s, i) <= FrameEnds(s)[i]
<1>1. Laid(s) /\ Len(s.frames) \in Nat
  BY DEF Objects, Laid
<1>2. InOrder(s)
  BY <1>1, FramesInOrder
<1>3. FrameEnds(s)[i] \in Nat /\ DueAt(s, i) \in Nat /\ DueAt(s, i) <= FrameEnds(s)[i]
  BY <1>2 DEF InOrder
<1>4. CASE i = 0
  <2>1. FrameEnds(s)[i] = 0
    BY <1>1, <1>4, EndsSteps
  <2> QED BY <1>3, <2>1
<1>5. CASE i # 0
  <2> DEFINE e == FrameEnds(s)[i - 1]
             f == s.frames[i]
             m == Len(f.bytes)
  <2>1. i \in 1..Len(s.frames) /\ i - 1 \in 0..Len(s.frames)
    BY <1>1, <1>5
  <2>2. IsShortObject(f)
    BY <2>1 DEF Objects
  <2>3. f.due \in Nat /\ m = f.due + 1
    BY <2>2 DEF IsShortObject, ShortObject, IsObject
  <2>4. FrameEnds(s)[i] = e + m
    BY <1>1, <2>1, EndsSteps
  <2>5. DueAt(s, i) = e + f.due
    BY <1>5 DEF DueAt
  <2>6. e \in Nat
    BY <1>2, <2>1 DEF InOrder
  <2> HIDE DEF e, f, m
  <2> QED BY <1>3, <2>3, <2>4, <2>5, <2>6
<1> QED BY <1>4, <1>5

\* json: a stream of a header and any number of packets, whatever is in them, is
\* taken object by object, wherever the reads cut it: also when the line feed after
\* an object has yet to come (json.c:58-97, 147-263).
THEOREM JsonFramed ==
  ASSUME NEW s, JsonStream(s)
  PROVE  Framed(s)
<1> DEFINE n == Len(s.frames)
           E == FrameEnds(s)
           D(i) == DueAt(s, i)
           w == s.wire
<1>1. /\ Strung(s) /\ s.format = "json"
      /\ \A j \in 1..n : IF j = 1 THEN JsonHelloOf(s.frames[j]) ELSE JsonFrameOf(s.frames[j])
  BY DEF JsonStream
<1>2. w \in Seq(Byte) /\ n \in Nat /\ s.good = n /\ Spelled(s)
  BY <1>1 DEF Strung
<1>3. ASSUME NEW j \in 1..n
      PROVE  IsShortObject(s.frames[j])
  <2>1. CASE j = 1
    <3>1. JsonHelloOf(s.frames[j])
      BY <1>1, <2>1
    <3> QED BY <3>1, HelloObject DEF IsShortObject
  <2>2. CASE j # 1
    <3>1. PICK p : Sendable(p) /\ s.frames[j].bytes = JsonSerialize(p) /\ s.frames[j].due = Len(s.frames[j].bytes) - 1
      BY <1>1, <2>2 DEF JsonFrameOf
    <3> QED BY <3>1, PacketObject DEF IsShortObject
  <2> QED BY <2>1, <2>2
<1>4. ASSUME NEW j \in 1..n
      PROVE  /\ s.frames[j].bytes \in Seq(Byte) /\ s.frames[j].due \in 1..Len(s.frames[j].bytes)
             /\ s.frames[j].due \in 1..37 /\ Len(s.frames[j].bytes) = s.frames[j].due + 1
  <2>1. PICK kind, load : ShortObject(s.frames[j], kind, load)
    BY <1>3 DEF IsShortObject
  <2>2. /\ s.frames[j].bytes \in Seq(Byte) /\ s.frames[j].due \in Nat /\ s.frames[j].due >= 3
        /\ Len(s.frames[j].bytes) = s.frames[j].due + 1 /\ s.frames[j].due <= 37
    BY <2>1 DEF ShortObject, IsObject
  <2>3. \A v \in Nat : v >= 3 /\ v <= 37 => v \in 1..v + 1 /\ v \in 1..37
    OBVIOUS
  <2> QED BY <2>2, <2>3, Zenon
<1>5. Laid(s) /\ Objects(s)
  <2>1. s.good \in 0..n
    BY <1>2
  <2>2. Laid(s)
    BY <1>2, <1>4, <2>1 DEF Laid
  <2> QED BY <1>2, <1>3, <2>2 DEF Objects
<1>6. BufLenMax \in Nat /\ BufLenMax >= 46
  BY ReceiveAssumption
<1>7. D(0) = 0 /\ E[0] = 0 /\ Len(w) = E[n]
  BY <1>2, EndsSteps DEF DueAt, Spelled
<1>8. ASSUME NEW i \in 0..n
      PROVE  E[i] \in Nat /\ D(i) \in Nat /\ E[i] <= D(i) + 1 /\ D(i) <= E[i]
  BY <1>5, ObjectEnds
<1>9. ASSUME NEW j \in 1..n, NEW i, i = j - 1
      PROVE  i \in 0..n /\ j \in 0..n /\ D(j) = E[i] + s.frames[j].due /\ E[j] = D(j) + 1
  <2>1. i \in 0..n /\ j \in 0..n /\ j # 0
    BY <1>2, <1>9
  <2>2. D(j) = E[i] + s.frames[j].due
    BY <1>9, <2>1 DEF DueAt
  <2>3. E[j] = E[i] + Len(s.frames[j].bytes)
    BY <1>2, <1>9, EndsSteps
  <2>4. s.frames[j].due \in 1..37 /\ Len(s.frames[j].bytes) = s.frames[j].due + 1 /\ E[i] \in Nat
    BY <1>4, <1>8, <2>1
  <2>5. E[j] = D(j) + 1
    <3>1. \A e \in Nat, v \in 1..37 : e + (v + 1) = (e + v) + 1
      OBVIOUS
    <3> HIDE DEF D, E
    <3> QED BY <2>2, <2>3, <2>4, <3>1, Zenon
  <2> QED BY <2>1, <2>2, <2>5
<1>10. ASSUME NEW j \in 1..s.good
       PROVE  D(j) <= D(j - 1) + BufLenMax /\ E[j] < D(j) + BufLenMax
  <2> DEFINE i == j - 1
  <2>0. i = j - 1 /\ j \in 1..n
    BY <1>2
  <2> HIDE DEF i
  <2>1. i \in 0..n /\ j \in 0..n /\ D(j) = E[i] + s.frames[j].due /\ E[j] = D(j) + 1
    BY <1>9, <2>0
  <2>2. E[i] \in Nat /\ D(i) \in Nat /\ E[i] <= D(i) + 1 /\ D(j) \in Nat
    BY <1>8, <2>1
  <2>3. s.frames[j].due \in 1..37
    BY <1>4, <2>0
  <2> HIDE DEF D, E
  <2>4. D(j) <= D(i) + BufLenMax /\ E[j] < D(j) + BufLenMax
    <3>1. \A e, d \in Nat, v \in 1..37 :
            e <= d + 1 => e + v <= d + BufLenMax /\ (e + v) + 1 < (e + v) + BufLenMax
      BY <1>6
    <3> QED BY <2>1, <2>2, <2>3, <3>1, Zenon
  <2> QED BY <2>4 DEF i
<1> SUFFICES ASSUME NEW i \in 0..s.good, NEW a \in D(i)..E[i], NEW q \in a + 1..a + BufLenMax, q <= Len(w)
             PROVE  Frames(s, i, a, q)
  BY <1>5, <1>10 DEF Framed
<1>11. i \in 0..n /\ a \in Nat /\ q \in Nat /\ a < q /\ q <= Len(w)
  <2>1. i \in 0..n /\ a \in D(i)..E[i] /\ q \in a + 1..a + BufLenMax
    BY <1>2
  <2>2. D(i) \in Nat /\ E[i] \in Nat
    BY <1>8, <2>1
  <2> HIDE DEF D, E
  <2> QED BY <1>6, <2>1, <2>2
<1> DEFINE b == SubSeq(w, a + 1, q)
           made == Made(s, i, a, q, StateAt(s, i))
<1>12. made = ParserWrapper(Known(s, i), b, StateAt(s, i))
  BY DEF Made
<1>13. b \in Seq(Byte) /\ Len(b) = q - a /\ \A k \in 1..q - a : b[k] = w[a + k]
  <2> HIDE DEF w
  <2> QED BY <1>2, <1>11, SMTT(30)
<1>14. CASE i # n
  <2> DEFINE j == i + 1
             x == s.frames[j].bytes
             end == s.frames[j].due
             l == E[i] - a
  <2>1. j \in 1..n /\ i = j - 1 /\ j = i + 1
    BY <1>2, <1>11, <1>14
  <2> HIDE DEF j
  <2>2. /\ E[i] \in Nat /\ D(j) \in Nat /\ E[j] \in Nat /\ D(j) = E[i] + end /\ E[j] = D(j) + 1
    BY <1>8, <1>9, <2>1
  <2>3. BeginsWith(b, l, x) /\ (i = 0 => l = 0)
    BY <1>5, <1>11, <2>1, ObjectNext
  <2>4. l \in 0..1 /\ l = E[i] - a
    BY <2>3 DEF BeginsWith
  <2> HIDE DEF l
  <2>5. JsonStep(s, i, j, b, l)
    <3> HIDE DEF b
    <3>0. 1 \in 1..n /\ JsonHelloOf(s.frames[1])
      <4>1. 1 \in 1..n
        BY <1>2, <2>1
      <4> QED BY <1>1, <4>1
    <3>1. CASE j = 1
      <4>1. i = 0 /\ l = 0
        BY <2>1, <2>3, <3>1
      <4>2. BeginsWith(b, 0, s.frames[1].bytes)
        BY <2>3, <3>1, <4>1
      <4>3. JsonStep(s, 0, 1, b, 0)
        BY <1>5, <3>0, <4>2, JsonHelloStep
      <4> QED BY <3>1, <4>1, <4>3
    <3>2. CASE j # 1
      <4>1. JsonFrameOf(s.frames[j])
        BY <1>1, <2>1, <3>2
      <4> QED BY <1>1, <1>5, <2>1, <2>3, <3>0, <3>2, <4>1, JsonPacketStep
    <3> QED BY <3>1, <3>2
  <2>6. end \in Nat
    BY <1>4, <2>1
  <2>7. /\ Len(b) < l + end => Untouched(made, StateAt(s, i))
        /\ Len(b) >= l + end => FoundAt(made, "json", JsonUsed(b, l, end), s.frames[j].packet, StateAt(s, j))
    <3> HIDE DEF b, made
    <3> QED BY <1>12, <2>5 DEF JsonStep
  <2> HIDE DEF b, made, end, D, E
  <2> DEFINE m == l + end
  <2>8. m \in Nat /\ D(j) = a + m /\ E[j] = a + m + 1 /\ q - a \in Nat /\ q = a + (q - a)
    <3>1. m \in Nat /\ E[i] = a + l
      <4>1. m \in Nat
        BY <2>4, <2>6
      <4>2. \A e \in Nat : e = a + (e - a)
        BY <1>11
      <4> QED BY <2>2, <2>4, <4>1, <4>2, Zenon
    <3>2. (a + l) + end = a + m
      BY <1>11, <2>4, <2>6
    <3>3. D(j) = a + m
      BY <2>2, <3>1, <3>2
    <3> QED BY <1>11, <2>2, <3>1, <3>3
  <2> HIDE DEF m
  <2>9. /\ q < D(j) => Len(b) < m
        /\ q >= D(j) => Len(b) >= m /\ JsonUsed(b, l, end) = (IF q < E[j] THEN q ELSE E[j]) - a
    <3> DEFINE c == q - a
    <3>0. c = q - a
      OBVIOUS
    <3> HIDE DEF c
    <3>1. c \in Nat /\ q = a + c /\ Len(b) = c
      BY <1>13, <2>8, <3>0
    <3>2. /\ a + c < a + m => c < m
          /\ a + c >= a + m => c >= m
          /\ c = m => (IF a + c < a + m + 1 THEN a + c ELSE a + m + 1) - a = m
          /\ c > m => (IF a + c < a + m + 1 THEN a + c ELSE a + m + 1) - a = m + 1
      BY <1>11, <2>8, <3>1
    <3>3. JsonUsed(b, l, end) = m + (IF c = m THEN 0 ELSE 1)
      BY <3>1 DEF JsonUsed, m
    <3>4. c >= m => c = m \/ c > m
      BY <2>8, <3>1
    <3>5. m + 0 = m /\ (c > m => c # m)
      BY <2>8, <3>1
    <3> QED BY <2>8, <3>1, <3>2, <3>3, <3>4, <3>5
  <2>10. q >= D(j) => NextTaken(made, s, i, a, q)
    <3> SUFFICES ASSUME q >= D(j) PROVE NextTaken(made, s, i, a, q)
      OBVIOUS
    <3>1. FoundAt(made, "json", JsonUsed(b, l, end), s.frames[j].packet, StateAt(s, j))
      BY <2>7, <2>9 DEF m
    <3>2. made.used = (IF q < E[j] THEN q ELSE E[j]) - a
      BY <2>9, <3>1 DEF FoundAt, Found
    <3> QED BY <1>1, <2>1, <3>1, <3>2 DEF FoundAt, Found, NextTaken, E
  <2>11. q < D(j) => NextAwaited(made, s, i)
    BY <2>7, <2>9 DEF Untouched, NextAwaited, m
  <2>12. i # s.good
    BY <1>2, <1>14
  <2> QED BY <2>1, <2>10, <2>11, <2>12 DEF Frames, made, D
<1>15. CASE i = n
  <2>1. a = E[n] - 1 /\ q = E[n] /\ E[n] \in Nat /\ n # 0
    <3>1. D(n) \in Nat /\ E[n] \in Nat /\ E[n] <= D(n) + 1 /\ D(n) <= a /\ q <= E[n]
      <4>1. n \in 0..n /\ a \in D(n)..E[n]
        BY <1>2, <1>15
      <4>2. D(n) \in Nat /\ E[n] \in Nat /\ E[n] <= D(n) + 1
        BY <1>8, <4>1
      <4> HIDE DEF D, E
      <4> QED BY <1>7, <1>11, <4>1, <4>2
    <3>2. n = 0 => E[n] = 0
      BY <1>7
    <3> HIDE DEF D, E
    <3> QED BY <1>11, <3>1, <3>2
  <2>2. w[E[n]] = LF
    <3> DEFINE h == n - 1
               f == s.frames[n]
    <3>1. n \in 1..n /\ h = n - 1
      BY <1>2, <2>1
    <3> HIDE DEF h
    <3>2. f.due \in Nat /\ Len(f.bytes) = f.due + 1 /\ f.bytes[f.due + 1] = LF
      BY <1>3, <3>1 DEF IsShortObject, ShortObject, IsObject
    <3>3. Placed(s, E[h], E[n], f.bytes)
      BY <1>5, <3>1, FramePlaced
    <3>4. E[h] \in Nat /\ E[n] = E[h] + Len(f.bytes) /\ \A k \in 1..Len(f.bytes) : w[E[h] + k] = f.bytes[k]
      BY <3>3 DEF Placed
    <3> HIDE DEF E, f, w
    <3>5. f.due + 1 \in 1..Len(f.bytes) /\ E[h] + (f.due + 1) = E[n]
      <4>1. \A v \in Nat : v + 1 \in 1..v + 1
        OBVIOUS
      <4>2. f.due + 1 \in 1..f.due + 1
        BY <3>2, <4>1, Zenon
      <4>3. f.due + 1 = Len(f.bytes) /\ E[n] = E[h] + Len(f.bytes)
        BY <3>2, <3>4, Zenon
      <4> QED BY <4>2, <4>3, Zenon
    <3>6. w[E[h] + (f.due + 1)] = f.bytes[f.due + 1]
      BY <3>4, <3>5
    <3> QED BY <3>2, <3>5, <3>6
  <2> HIDE DEF b, w, E
  <2>3. Len(b) = 1 /\ b[1] = LF
    <3>1. q - a = 1 /\ 1 \in 1..q - a /\ a + 1 = E[n]
      BY <2>1
    <3> QED BY <1>13, <2>2, <3>1
  <2>4. JsonEnd(b) = 0
    <3>1. \A k \in 0 + 1..Len(b) : b[k] \in {CR, LF}
      BY <2>3
    <3>2. Blank(b, 0) = Len(b) - 0
      BY <1>13, <2>3, <3>1, BlankAll
    <3>3. Len(b) <= Blank(b, 0)
      BY <2>3, <3>2
    <3> QED BY <3>3, Zenon DEF JsonEnd
  <2>5. Known(s, i) = "json"
    BY <1>1, <1>15, <2>1 DEF Known
  <2>6. made = Parse("json", b, StateAt(s, i))
    BY <1>12, <2>5 DEF ParserWrapper
  <2>7. NextAwaited(made, s, i)
    BY <2>4, <2>6, JsonUntouched DEF Untouched, NextAwaited
  <2> HIDE DEF made
  <2> QED BY <1>2, <1>15, <2>7 DEF Frames, made
<1> QED BY <1>14, <1>15

-----------------------------------------------------------------------------
(* Every format *)

\* What a peer sends: packets in one of the five formats, or what is in none.
OneFormat(s) ==
  \/ RawStream(s) \/ AirspyStream(s) \/ BeastStream(s) \/ JsonStream(s) \/ ProtoStream(s)
  \/ Strange(s)

\* Whatever packets the peers send, in whichever format and cut into whichever
\* reads: each packet is sent on, whole, once and in order; the parsers that were
\* tried on it leave no trace; only a peer that is in no format is closed for an
\* overrun (receive.c:85-147).
THEOREM EveryFormat ==
  ASSUME \A s \in Streams : OneFormat(s)
  PROVE  Spec => [](PacketsIntact /\ StateClean /\ OnlyStrangersOverrun)
<1>1. \A s \in Streams : Framed(s)
  <2> SUFFICES ASSUME NEW s \in Streams PROVE Framed(s)
    OBVIOUS
  <2>1. OneFormat(s)
    OBVIOUS
  <2> QED BY <2>1, RawFramed, AirspyFramed, BeastFramed, JsonFramed, ProtoFramed, StrangeFramed
             DEF OneFormat
<1>2. /\ Spec => []PacketsIntact
      /\ Spec => []StateClean
      /\ Spec => []OnlyStrangersOverrun
  BY <1>1, FramesIntact, FramesLeaveNoTrace, FramesOverrun
<1> QED BY <1>2, PTL
=============================================================================
