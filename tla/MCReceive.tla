----------------------------- MODULE MCReceive ------------------------------
EXTENDS Receive

LineFeed == <<LF>>
CrLf == <<CR, LF>>

Fill(n, b) == [i \in 1..n |-> b]

\* A packet whose bytes are all b.
Plain(format, t, hops, b) ==
  Packet(t, hops, Fill(StampLen[format], b), Fill(PayloadLen[t], b))

Frame(format, p, eol) ==
  LET bytes == Serialize(format, p, eol)
  IN  [bytes |-> bytes, due |-> Len(bytes) - (IF format = "json" THEN 1 ELSE 0), packet |-> p]

\* Something that is not a packet: a header, or what no parser accepts.
Other(bytes) == [bytes |-> bytes, due |-> Len(bytes), packet |-> NoPacket]

Stream(format, frames, good) ==
  [format |-> format, frames |-> frames, good |-> good,
   wire |-> FlattenSeq([i \in DOMAIN frames |-> frames[i].bytes])]

Known(format, frames) == Stream(format, frames, Len(frames))

JsonHelloFrame == [Other(JsonHello) EXCEPT !.due = Len(JsonHello) - 1]
ProtoHelloFrame == Other(ProtoHello)

\* A beast packet with the escape byte at the given places of what follows the type.
Escaped(t, places) ==
  LET byte(i) == IF i \in places THEN ESC ELSE 49
  IN  Frame("beast",
            Packet(t, 0, [i \in 1..7 |-> byte(i)], [i \in 1..PayloadLen[t] |-> byte(i + 7)]), <<>>)

Airspy(t, b, eol) == Frame("airspy_adsb", Plain("airspy_adsb", t, 0, b), eol)
Raw(t, b, eol) == Frame("raw", Plain("raw", t, 0, b), eol)
Json(t, hops, b) == Frame("json", Plain("json", t, hops, b), <<>>)
Proto(t, hops, b) == Frame("proto", Plain("proto", t, hops, b), <<>>)

MCReadSizes == (1..12) \cup {20, 29, 41, BufLenMax}

\* Every way to have escape bytes at the edges of the fields of a beast packet.
EscapeStreams ==
  {Known("beast", <<Escaped(1, places), Escaped(1, {9})>>) : places \in SUBSET {1, 2, 6, 7, 8, 9}}

MCStreams == EscapeStreams \cup {
  Known("raw", <<Raw(1, 0, LineFeed), Raw(2, 171, LineFeed), Raw(3, 205, LineFeed), Raw(1, 1, LineFeed)>>),
  Known("raw", <<Raw(3, 255, CrLf), Raw(1, 26, CrLf), Raw(3, 3, LineFeed), Raw(2, 4, CrLf)>>),
  Known("airspy_adsb", <<Airspy(3, 5, CrLf), Airspy(1, 6, CrLf), Airspy(2, 7, CrLf)>>),
  Known("airspy_adsb", <<Airspy(1, 8, LineFeed), Airspy(1, 9, CrLf), Airspy(3, 10, LineFeed)>>),
  Known("beast", <<Escaped(3, 1..21), Escaped(1, 1..9), Escaped(2, {})>>),
  Known("beast", <<Escaped(1, {9}), Escaped(1, {1}), Escaped(2, {14, 7, 8}), Escaped(3, {6, 21})>>),
  Known("beast", <<Escaped(1, {1, 2, 9}), Escaped(1, {}), Escaped(1, {8}), Escaped(1, {8, 9})>>),
  Known("json", <<JsonHelloFrame, Json(1, 0, 10), Json(3, MaxHops, 1), Json(2, MaxHops - 1, 2)>>),
  Known("proto", <<ProtoHelloFrame, Proto(3, 0, 10), Proto(1, MaxHops, 123), Proto(2, MaxHops - 1, 26)>>),
  \* headers with our own server_id
  Stream("json", <<Other(JsonObject(OwnHeader, <<>>)), Json(1, 0, 3), Json(3, 0, 4)>>, 0),
  Stream("proto", <<Other(ProtoMessage(OwnHeader, <<1, 2>>)), Proto(3, 0, 3), Proto(3, 0, 4), Proto(3, 0, 5)>>, 0),
  \* packets without a header, and a kind that is not known
  Stream("json", <<Json(1, 0, 3), Json(3, 0, 4), Json(2, 0, 4)>>, 0),
  Stream("proto", <<ProtoHelloFrame, Proto(1, 0, 3), Other(ProtoMessage(Unknown, Fill(80, 9)))>>, 2),
  \* a payload that is not hexadecimal, before and after the format is known
  Stream("airspy_adsb", <<Other([Airspy(1, 5, CrLf).bytes EXCEPT ![2] = 120]), Airspy(1, 5, CrLf), Airspy(1, 6, CrLf)>>, 0),
  Stream("raw", <<Raw(1, 5, LineFeed), Other([Raw(2, 5, CrLf).bytes EXCEPT ![9] = 120]), Raw(3, 5, CrLf), Raw(3, 6, CrLf)>>, 1),
  \* an escape byte that is not doubled
  Stream("beast", <<Escaped(1, {}), Other(<<ESC, 49>> \o Fill(7, 1) \o <<ESC, 2>>), Escaped(3, {}), Escaped(3, {})>>, 1),
  \* no format at all
  Stream("none", <<Other(Fill(80, 120))>>, 0)
}
=============================================================================
