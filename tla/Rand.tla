-------------------------------- MODULE Rand --------------------------------
(***************************************************************************)
(* rand.c: random bytes are handed out from a struct buf that is refilled  *)
(* from /dev/urandom, with the buf_consume() of buf.c.  The bytes          *)
(* themselves do not matter, only which of the bytes ever read each one    *)
(* is: a byte is represented by its number in the sequence of bytes that   *)
(* urandom delivered.                                                      *)
(***************************************************************************)
EXTENDS Integers

CONSTANTS
  BufLen,    \* BUF_LEN_MAX
  Sizes,     \* what rand_fill() is asked for: uuid_gen() 16, a jitter 4
  MaxRead    \* bound of the model: bytes read from urandom

ASSUME RandAssumption ==
  /\ BufLen \in Nat \ {0}
  /\ Sizes \subseteq 1..BufLen
  /\ MaxRead \in Nat

VARIABLES
  bytes,        \* rand_buf.buf
  rand_start,   \* rand_buf.start
  rand_length,  \* rand_buf.length
  reads,        \* bytes read from urandom so far
  value,        \* the bytes the last rand_fill() returned
  served,       \* history: the bytes returned before
  drained       \* history: the bytes in the buffer when it was drained exactly

rand_vars == <<bytes, rand_start, rand_length, reads, value, served, drained>>

RandInit ==   \* rand_init()
  /\ bytes = [k \in 0..(BufLen - 1) |-> k]
  /\ rand_start = 0 /\ rand_length = BufLen
  /\ reads = BufLen
  /\ value = {} /\ served = {} /\ drained = {}

\* Bug: buf_consume() moves rand_start by one byte less.
BufConsumeShort(size) ==
  /\ rand_length' = rand_length - size
  /\ rand_start' = IF rand_length - size > 0 THEN rand_start + size - 1 ELSE 0

\* buf_consume(): an empty buffer starts over at 0.
BufConsume(size) ==
  /\ rand_length' = rand_length - size
  /\ rand_start' = IF rand_length - size > 0 THEN rand_start + size ELSE 0

\* rand_fill() with enough bytes in the buffer.
FillFromBuffer(size) ==
  /\ size <= rand_length
  /\ value' = {bytes[k] : k \in rand_start..(rand_start + size - 1)}
  /\ served' = served \cup value
  /\ drained' = IF size < rand_length THEN drained
                ELSE drained \cup {bytes[k] : k \in 0..(BufLen - 1)}
  /\ BufConsume(size)
  /\ UNCHANGED <<bytes, reads>>

\* rand_fill() with too few: readv() overwrites the consumed part of the
\* buffer, bytes 0..start-1, and the caller's value; what was left stays.
FillFromUrandom(size) ==
  /\ size > rand_length
  /\ reads + rand_start + size <= MaxRead
  /\ bytes' = [k \in 0..(BufLen - 1) |-> IF k < rand_start THEN reads + k ELSE bytes[k]]
  /\ value' = (reads + rand_start)..(reads + rand_start + size - 1)
  /\ reads' = reads + rand_start + size
  /\ served' = served \cup value
  /\ rand_start' = 0 /\ rand_length' = BufLen
  /\ UNCHANGED drained

Exhausted == reads + 2 * BufLen > MaxRead /\ UNCHANGED rand_vars

RandNext == (\E size \in Sizes : FillFromBuffer(size) \/ FillFromUrandom(size)) \/ Exhausted

RandSpec == RandInit /\ [][RandNext]_rand_vars

-----------------------------------------------------------------------------
(* Properties *)

\* Type correctness; the buffer is never read beyond its end.
RandTypeOK ==
  /\ bytes \in [0..(BufLen - 1) -> Nat]
  /\ rand_start \in 0..(BufLen - 1) /\ rand_length \in 0..BufLen
  /\ rand_start + rand_length <= BufLen
  /\ reads \in Nat

\* rand_fill() hands a byte of urandom out again, so that two UUIDs may be
\* equal, only if that byte was in the buffer when a request took exactly
\* what was left: rand_start is 0 then, the refill reads nothing into the buffer
\* and declares all of it fresh.
RepeatsOnlyDrained == value \cap served \subseteq drained

=============================================================================
