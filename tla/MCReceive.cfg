\* Streams in every format and streams that nobody understands, in reads of
\* all small and some larger sizes.
SPECIFICATION Spec
CONSTANTS
  Streams <- MCStreams
  BufLenMax = 56
  ReadSizes <- MCReadSizes
  MaxHops = 3
INVARIANTS PacketsIntact StateClean RoomToRead OnlyStrangersOverrun
