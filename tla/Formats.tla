------------------------------ MODULE Formats -------------------------------
(***************************************************************************)
(* The five formats of adsbus: what each serializer writes for a packet,   *)
(* and what each parser makes of the bytes at the start of a buffer.       *)
(*                                                                         *)
(* Bytes are numbers, in a sequence whose first element is at(0) of the C  *)
(* code.  A packet is [type, hops, stamp, payload]; stamp is the bytes of  *)
(* its timestamp and signal level as its format carries them (Relay models *)
(* their arithmetic).  Inside the delimiters that frame it, a json or      *)
(* proto message is reduced to its kind and the bytes that it carries.     *)
(***************************************************************************)
EXTENDS Integers, SequencesExt

Byte == 0..255
PayloadLen == <<2, 7, 14>>
Types == DOMAIN PayloadLen
StampLen == [airspy_adsb |-> 6, beast |-> 7, json |-> 2, proto |-> 2, raw |-> 0]

ESC == 26
LF == 10
CR == 13
Star == 42
Semicolon == 59
OpenBrace == 123
CloseBrace == 125
FieldOne == 10

\* Kinds of json and proto messages; a packet has its type as kind.
Header == 72
OwnHeader == 79  \* a header with our own server_id
Unknown == 85

(***************************************************************************)
(* Hexadecimal text.                                                       *)
(***************************************************************************)
HexDigits == (48..57) \cup (65..70) \cup (97..102)

HexUpper(d) == IF d < 10 THEN 48 + d ELSE 55 + d
HexValue(c) == CASE c <= 57 -> c - 48 [] c \in 65..70 -> c - 55 [] OTHER -> c - 87

HexText(bytes) ==
  [i \in 1..2 * Len(bytes) |->
     LET b == bytes[(i + 1) \div 2] IN HexUpper(IF i % 2 = 1 THEN b \div 16 ELSE b % 16)]

IsHex(text) == \A i \in DOMAIN text : text[i] \in HexDigits

Unhex(text) ==
  [i \in 1..Len(text) \div 2 |-> 16 * HexValue(text[2 * i - 1]) + HexValue(text[2 * i])]

\* The n bytes that begin at(k).
Bytes(buf, k, n) == SubSeq(buf, k + 1, k + n)

\* How long the line end at(k) is: a line feed, with or without a carriage
\* return before it; 0 if there is none (yet).
LineEnd(buf, k) ==
  CASE Len(buf) > k /\ buf[k + 1] = LF -> 1
    [] Len(buf) > k + 1 /\ Bytes(buf, k, 2) = <<CR, LF>> -> 2
    [] OTHER -> 0

(***************************************************************************)
(* What a parser returns: the bytes it consumed (0: it returned false),    *)
(* the packet (NoPacket: PACKET_TYPE_NONE) and the parser_state, in which  *)
(* it may leave traces even if it returns false.                           *)
(***************************************************************************)
NoPacket == [type |-> 0, hops |-> 0, stamp |-> <<>>, payload |-> <<>>]
FreshState == [rates |-> FALSE, header |-> FALSE, stamps |-> <<>>]

Packet(type, hops, stamp, payload) ==
  [type |-> type, hops |-> hops, stamp |-> stamp, payload |-> payload]

Failed(state) == [used |-> 0, packet |-> NoPacket, state |-> state, format |-> "none"]
Parsed(used, packet, state) == [used |-> used, packet |-> packet, state |-> state, format |-> "none"]

\* packet_mlat_timestamp_scale_in() takes each timestamp into mlat_state.
Stamp(state, stamp) == [state EXCEPT !.stamps = Append(@, stamp)]

\* A second attempt, unless the first succeeds; on the parser_state it has left.
OrElse(r, Try(_)) == IF r.used > 0 THEN r ELSE Try(r.state)

(***************************************************************************)
(* raw: *hex;                                                              *)
(***************************************************************************)
RawSerialize(p, eol) == <<Star>> \o HexText(p.payload) \o <<Semicolon>> \o eol

RawTry(buf, t, state) ==
  LET n == 1 + 2 * PayloadLen[t]
      text == Bytes(buf, 1, n - 1)
      end == LineEnd(buf, n + 1)
  IN  IF end > 0 /\ buf[1] = Star /\ buf[n + 1] = Semicolon /\ IsHex(text)
      THEN Parsed(n + 1 + end, Packet(t, 0, <<>>, Unhex(text)), state)
      ELSE Failed(state)

RawParse(buf, state) ==
  LET orTry(r, t) == OrElse(r, LAMBDA s : RawTry(buf, t, s))
  IN  orTry(orTry(RawTry(buf, 1, state), 2), 3)

(***************************************************************************)
(* airspy_adsb: *hex;timestamp;precision;level;                            *)
(***************************************************************************)
AirspyPrecision == <<10>>

AirspySerialize(p, eol) ==
  <<Star>> \o HexText(p.payload) \o <<Semicolon>> \o HexText(SubSeq(p.stamp, 1, 4))
  \o <<Semicolon>> \o HexText(AirspyPrecision) \o <<Semicolon>>
  \o HexText(SubSeq(p.stamp, 5, 6)) \o <<Semicolon>> \o eol

\* Bug: the timestamp is taken before the end of the line has come.
AirspyTryEager(buf, t, state) ==
  LET n == 1 + 2 * PayloadLen[t]
      text == Bytes(buf, 1, n - 1)
      stamp == Bytes(buf, n + 1, 8) \o Bytes(buf, n + 13, 4)
      end == LineEnd(buf, n + 18)
      stamped == Stamp(state, Unhex(stamp))
  IN  IF end = 0 /\ Len(buf) > n + 18 /\ IsHex(stamp) THEN Failed(stamped)
      ELSE IF \/ end = 0 \/ buf[1] # Star
         \/ \E k \in {n, n + 9, n + 12, n + 17} : buf[k + 1] # Semicolon
         \/ Bytes(buf, n + 10, 2) = <<48, 48>>
         \/ ~IsHex(Bytes(buf, n + 1, 8))
      THEN Failed(state)
      ELSE IF ~IsHex(text) THEN Failed(stamped)
      ELSE Parsed(n + 18 + end, Packet(t, 0, Unhex(stamp), Unhex(text)), stamped)

\* A precision that is not hexadecimal is -1, which is not 0 either.
AirspyTry(buf, t, state) ==
  LET n == 1 + 2 * PayloadLen[t]
      text == Bytes(buf, 1, n - 1)
      stamp == Bytes(buf, n + 1, 8) \o Bytes(buf, n + 13, 4)
      end == LineEnd(buf, n + 18)
      stamped == Stamp(state, Unhex(stamp))
  IN  IF \/ end = 0 \/ buf[1] # Star
         \/ \E k \in {n, n + 9, n + 12, n + 17} : buf[k + 1] # Semicolon
         \/ Bytes(buf, n + 10, 2) = <<48, 48>>
         \/ ~IsHex(Bytes(buf, n + 1, 8))
      THEN Failed(state)
      ELSE IF ~IsHex(text) THEN Failed(stamped)
      ELSE Parsed(n + 18 + end, Packet(t, 0, Unhex(stamp), Unhex(text)), stamped)

AirspyParse(buf, state) ==
  LET orTry(r, t) == OrElse(r, LAMBDA s : AirspyTry(buf, t, s))
  IN  orTry(orTry(AirspyTry(buf, 1, state), 2), 3)

(***************************************************************************)
(* beast: binary, introduced by an escape byte; any other escape byte is   *)
(* doubled.                                                                *)
(***************************************************************************)
BeastEscape(bytes) ==
  FlattenSeq([i \in DOMAIN bytes |->
                IF i > 1 /\ bytes[i] = ESC THEN <<ESC, ESC>> ELSE <<bytes[i]>>])

BeastSerialize(p) == BeastEscape(<<ESC, 48 + p.type>> \o p.stamp \o p.payload)

\* Bug: the second of two escape bytes is not waited for.
TakenOnTrust(buf, n) ==
  LET taken[k \in 0..n] ==
        IF k = 0 THEN 0
        ELSE LET i == taken[k - 1] IN
             CASE i = -1 \/ i >= Len(buf) -> -1
               [] i \in 1..Len(buf) - 1 /\ buf[i + 1] = ESC -> Min({i + 2, Len(buf)})
               [] OTHER -> i + 1
  IN  taken

\* How much of buf the first k unescaped bytes take; -1 if they are not all
\* there or an escape byte stands alone.
Taken(buf, n) ==
  LET taken[k \in 0..n] ==
        IF k = 0 THEN 0
        ELSE LET i == taken[k - 1] IN
             CASE i = -1 \/ i >= Len(buf) -> -1
               [] i \in 1..Len(buf) - 1 /\ buf[i + 1] = ESC
                    -> IF i = Len(buf) - 1 \/ buf[i + 2] # ESC THEN -1 ELSE i + 2
               [] OTHER -> i + 1
  IN  taken

BeastPacket(buf, t, state) ==
  LET n == 9 + PayloadLen[t]
      taken == Taken(buf, n)
      plain == [k \in 1..n |-> buf[taken[k]]]
      stamp == SubSeq(plain, 3, 9)
  IN  IF taken[n] = -1 THEN Failed(state)
      ELSE Parsed(taken[n], Packet(t, 0, stamp, SubSeq(plain, 10, n)), Stamp(state, stamp))

BeastParse(buf, state) ==
  IF Len(buf) < 9 \/ buf[1] # ESC \/ buf[2] - 48 \notin Types THEN Failed(state)
  ELSE BeastPacket(buf, buf[2] - 48, state)

(***************************************************************************)
(* json: an object per line.                                               *)
(***************************************************************************)
JsonObject(kind, bytes) == <<OpenBrace, kind>> \o HexText(bytes) \o <<CloseBrace, LF>>

JsonHello == JsonObject(Header, <<>>)

JsonSerialize(p) == JsonObject(p.type, <<p.hops>> \o p.stamp \o p.payload)

\* How many line ends the buffer has at(k).
Blank(buf, k) ==
  LET others == {i \in k + 1..Len(buf) : buf[i] \notin {CR, LF}}
  IN  (IF others = {} THEN Len(buf) + 1 ELSE Min(others)) - (k + 1)

\* json_loadb(): the length of the first object, and of what comes before
\* it; 0 if it is not complete.
JsonEnd(buf) ==
  LET k == Blank(buf, 0)
      ends == {i \in k + 1..Len(buf) : buf[i] = CloseBrace}
  IN  IF Len(buf) <= k \/ buf[k + 1] # OpenBrace \/ ends = {} THEN 0 ELSE Min(ends)

JsonPacket(used, kind, data, state) ==
  LET stamp == SubSeq(data, 2, 3)
      payload == SubSeq(data, 4, Len(data))
  IN  IF ~state.header THEN Failed(state)
      ELSE IF Len(payload) # PayloadLen[kind] THEN Failed(Stamp(state, stamp))
      ELSE Parsed(used, Packet(kind, data[1], stamp, payload), Stamp(state, stamp))

\* json_parse_header() looks at the server_id first.
JsonHeader(used, kind, state) ==
  IF kind = OwnHeader THEN Failed(state)
  ELSE Parsed(used, NoPacket, [state EXCEPT !.rates = TRUE, !.header = TRUE])

JsonParse(buf, state) ==
  LET end == JsonEnd(buf)
      k == Blank(buf, 0)
      kind == buf[k + 2]
      used == end + Blank(buf, end)
  IN  CASE end = 0 -> Failed(state)
        [] end > 0 /\ kind \in {Header, OwnHeader} -> JsonHeader(used, kind, state)
        [] end > 0 /\ kind \in Types
             -> JsonPacket(used, kind, Unhex(SubSeq(buf, k + 3, end - 1)), state)
        [] OTHER -> Failed(state)

(***************************************************************************)
(* proto: a stream of messages, each with its length before it.            *)
(***************************************************************************)
ProtoMessage(kind, bytes) ==
  LET n == 1 + Len(bytes)
  IN  <<FieldOne>> \o (IF n < 128 THEN <<n>> ELSE <<128 + (n % 128), n \div 128>>) \o <<kind>> \o bytes

ProtoHello == ProtoMessage(Header, <<1, 2, 3>>)

ProtoSerialize(p) == ProtoMessage(p.type, <<p.hops>> \o p.stamp \o p.payload)

\* proto_parse_varint(): how many bytes of the number have more to follow;
\* none or one.
MoreBytes(buf) ==
  LET last == {j \in 0..3 : Len(buf) > j + 1 /\ buf[j + 2] < 128}
  IN  IF last = {} THEN {} ELSE {Min(last)}

Varint(buf, j) ==
  LET part(i) == IF i <= j THEN buf[i + 2] % 128 ELSE 0
  IN  part(0) + 128 * (part(1) + 128 * (part(2) + 128 * part(3)))

ProtoPacket(used, kind, data, state) ==
  LET stamp == SubSeq(data, 2, 3)
      payload == SubSeq(data, 4, Len(data))
  IN  IF ~state.header \/ Len(payload) # PayloadLen[kind] THEN Failed(state)
      ELSE Parsed(used, Packet(kind, data[1], stamp, payload), Stamp(state, stamp))

\* proto_parse_header() takes the rates before it looks at the server_id.
ProtoHeader(used, kind, state) ==
  LET rated == [state EXCEPT !.rates = TRUE]
  IN  IF kind = OwnHeader THEN Failed(rated)
      ELSE Parsed(used, NoPacket, [rated EXCEPT !.header = TRUE])

\* proto_unwrap(): how long the wrapper of the first message is and what is in
\* it; nothing if that is not (all) there.
ProtoUnwrap(buf) ==
  LET more == MoreBytes(buf)
      j == CHOOSE i \in more : TRUE
      used == j + 2 + Varint(buf, j)
  IN  IF buf[1] # FieldOne \/ more = {} \/ used > Len(buf) THEN [used |-> 0, body |-> <<>>]
      ELSE [used |-> used, body |-> SubSeq(buf, j + 3, used)]

ProtoParse(buf, state) ==
  LET m == ProtoUnwrap(buf)
      kind == m.body[1]
  IN  CASE m.body = <<>> -> Failed(state)
        [] m.body # <<>> /\ kind \in {Header, OwnHeader} -> ProtoHeader(m.used, kind, state)
        [] m.body # <<>> /\ kind \in Types -> ProtoPacket(m.used, kind, Tail(m.body), state)
        [] OTHER -> Failed(state)

(***************************************************************************)
(* All formats, in the order of parsers[].                                 *)
(***************************************************************************)
Parsers == <<"airspy_adsb", "beast", "json", "proto", "raw">>

Parse(format, buf, state) ==
  [(CASE format = "airspy_adsb" -> AirspyParse(buf, state)
      [] format = "beast" -> BeastParse(buf, state)
      [] format = "json" -> JsonParse(buf, state)
      [] format = "proto" -> ProtoParse(buf, state)
      [] format = "raw" -> RawParse(buf, state)) EXCEPT !.format = format]

Serialize(format, p, eol) ==
  CASE format = "airspy_adsb" -> AirspySerialize(p, eol)
    [] format = "beast" -> BeastSerialize(p)
    [] format = "json" -> JsonSerialize(p)
    [] format = "proto" -> ProtoSerialize(p)
    [] format = "raw" -> RawSerialize(p, eol)
=============================================================================
