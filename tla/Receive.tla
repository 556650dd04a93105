------------------------------ MODULE Receive -------------------------------
(***************************************************************************)
(* One receive connection (receive.c, buf.c): the bytes of a stream arrive *)
(* in reads of any size, are kept in a buffer of BufLenMax bytes, and are  *)
(* given to the parsers: to all of them in turn until one succeeds, and    *)
(* from then on to that one.                                               *)
(*                                                                         *)
(* A stream is a record: format; frames, each with its bytes, with due,    *)
(* the number of them that decides what the frame is, and with its packet; *)
(* good, how many frames come before the first that is not understood; and *)
(* wire, the bytes of all frames.                                          *)
(***************************************************************************)
EXTENDS Formats

CONSTANTS
  Streams,    \* the streams considered
  BufLenMax,  \* BUF_LEN_MAX
  ReadSizes,  \* how many bytes a read may find; it gets no more than fit
  MaxHops     \* receive_max_hops

ASSUME ReceiveAssumption ==
  /\ \A s \in Streams : s.wire \in Seq(Byte)
  /\ BufLenMax \in Nat \ {0} /\ ReadSizes \subseteq Nat \ {0} /\ MaxHops \in Nat
  \* raw_init(), beast_init() and airspy_adsb_init()
  /\ 1 + 14 + 20 < BufLenMax /\ (9 + 14) * 2 <= BufLenMax

VARIABLES
  stream,  \* what the peer sends in this behaviour
  pos,     \* how many of its bytes have been read
  status,  \* "open", "closed" (end of the stream), "overrun"
  buf,     \* the unconsumed bytes: buf.length and what begins at(0)
  start,   \* buf.start
  parser,  \* the format found, or "auto"
  state,   \* parser_state
  sent     \* the packets given to send_write()

vars == <<stream, pos, status, buf, start, parser, state, sent>>

Init ==
  /\ stream \in Streams
  /\ pos = 0 /\ status = "open"
  /\ buf = <<>> /\ start = 0
  /\ parser = "auto" /\ state = FreshState /\ sent = <<>>

(***************************************************************************)
(* receive_parse_wrapper() and receive_autodetect_parse()                  *)
(***************************************************************************)
AutodetectParse(bytes, st) ==
  LET orTry(r, i) == OrElse(r, LAMBDA s : Parse(Parsers[i], bytes, s))
  IN  orTry(orTry(orTry(orTry(orTry(Failed(st), 1), 2), 3), 4), 5)

ParserWrapper(known, bytes, st) ==
  IF known = "auto" THEN AutodetectParse(bytes, st) ELSE Parse(known, bytes, st)

\* buf_consume(): an empty buffer begins again at the front.
Consume(r, n) ==
  [r EXCEPT !.buf = SubSeq(@, n + 1, Len(@)),
            !.start = IF n = Len(r.buf) THEN 0 ELSE @ + n]

\* The hop limit; headers are no packets.
Forward(out, p) ==
  IF p = NoPacket \/ p.hops + 1 > MaxHops THEN out
  ELSE Append(out, [p EXCEPT !.hops = @ + 1])

\* What receive_read() does after the parser has returned p: one that fails
\* ends the loop.
Advance(r, p) ==
  IF p.used = 0 THEN [r EXCEPT !.state = p.state, !.done = TRUE]
  ELSE [Consume(r, p.used) EXCEPT
          !.parser = p.format, !.state = p.state, !.sent = Forward(@, p.packet)]

\* One round of its loop, over the local state of one call.
Round(r) ==
  IF r.done \/ r.buf = <<>> THEN r
  ELSE Advance(r, ParserWrapper(r.parser, r.buf, r.state))

\* The whole loop: each round but the last consumes something.
ParseAll(r) ==
  LET after[k \in 0..Len(r.buf)] == IF k = 0 THEN r ELSE Round(after[k - 1])
  IN  after[Len(r.buf)]

(***************************************************************************)
(* receive_read()                                                          *)
(***************************************************************************)
\* Bug: the buffer stays where it is.
FillStartFixed == start

\* buf_fill(): where the buffer begins when there is room at its end, or has
\* to be moved to the front.
FillStart == IF start + Len(buf) = BufLenMax THEN 0 ELSE start

Room == BufLenMax - Len(buf) - FillStart

\* Bug: the end of the buffer is taken for the whole of it.
OverrunAtEnd(r) == r.start + Len(r.buf) = BufLenMax

Overrun(r) == Len(r.buf) = BufLenMax

Read(size) ==
  LET n == Min({size, Room, Len(stream.wire) - pos})
      r == ParseAll([buf |-> buf \o SubSeq(stream.wire, pos + 1, pos + n),
                     start |-> FillStart, parser |-> parser, state |-> state, sent |-> sent,
                     done |-> FALSE])
  IN  /\ status = "open" /\ n > 0
      /\ pos' = pos + n
      /\ buf' = r.buf /\ start' = r.start
      /\ parser' = r.parser /\ state' = r.state /\ sent' = r.sent
      /\ status' = IF Overrun(r) THEN "overrun" ELSE "open"
      /\ UNCHANGED stream

\* read() returns 0 or fails, which the peer or the network may cause any time.
ReadEof ==
  /\ status = "open"
  /\ status' = "closed"
  /\ UNCHANGED <<stream, pos, buf, start, parser, state, sent>>

Deleted == status # "open" /\ UNCHANGED vars

Next == (\E size \in ReadSizes : Read(size)) \/ ReadEof \/ Deleted

Spec == Init /\ [][Next]_vars

(***************************************************************************)
(* Streams: where frame i ends, how much of the stream decides it, and     *)
(* the packets and timestamps of the first i frames.                       *)
(***************************************************************************)
FrameEnds(s) ==
  LET end[i \in 0..Len(s.frames)] == IF i = 0 THEN 0 ELSE end[i - 1] + Len(s.frames[i].bytes)
  IN  end

DueAt(s, i) == IF i = 0 THEN 0 ELSE FrameEnds(s)[i - 1] + s.frames[i].due

PacketsOf(s) ==
  LET out[i \in 0..Len(s.frames)] ==
        IF i = 0 THEN <<>> ELSE Forward(out[i - 1], s.frames[i].packet)
  IN  out

\* A packet of a format without timestamps leaves none.
TakeStamp(stamps, p) == IF p = NoPacket \/ p.stamp = <<>> THEN stamps ELSE Append(stamps, p.stamp)

StampsOf(s) ==
  LET stamps[i \in 0..Len(s.frames)] ==
        IF i = 0 THEN <<>> ELSE TakeStamp(stamps[i - 1], s.frames[i].packet)
  IN  stamps

(***************************************************************************)
(* Properties.                                                             *)
(***************************************************************************)
\* How many of the understood frames have come.
Come == Cardinality({i \in 1..stream.good : DueAt(stream, i) <= pos})

Understood == stream.good = Len(stream.frames)

\* However the stream is cut into reads, wherever its escape bytes and line
\* ends fall, and whatever the other parsers make of it first: once the bytes
\* of a packet have come it has been sent on, whole, once, and in order, unless
\* it has come too far (receive.c:124, beast.c:42).
PacketsIntact == sent = PacketsOf(stream)[Come]

\* A stream that is understood is never taken for another format, and the
\* parsers that were tried on it leave nothing in the parser_state that they
\* share: it has seen each timestamp of the packets that came, once and in
\* order, although a frame may be looked at many times (receive.c:93).
StateClean ==
  Understood =>
    /\ parser \in {"auto", stream.format}
    /\ state.stamps = StampsOf(stream)[Come]
    /\ state.rates = state.header

\* buf_fill() always finds room: its assertion holds, and it never asks for 0
\* bytes, which would look like the end of the stream (buf.c:14).
RoomToRead == status = "open" => Room > 0 /\ (start + Len(buf) = BufLenMax => start > 0)

\* A connection is closed for an overrun exactly if it has sent as much as fits
\* in the buffer and nothing in it can be understood; a stream that can be
\* understood never is, at any position of its frames in the buffer
\* (receive.c:141).
OnlyStrangersOverrun ==
  /\ status = "overrun" => ~Understood
  /\ status = "open" /\ ~Understood => pos < FrameEnds(stream)[stream.good] + BufLenMax
=============================================================================
