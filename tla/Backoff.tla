------------------------------ MODULE Backoff ------------------------------
(***************************************************************************)
(* wakeup_get_retry_delay_ms() of wakeup.c: the bound of the random delay  *)
(* before the next attempt.  The C code computes                           *)
(*                                                                         *)
(*    uint32_t max_delay = RETRY_MIN_MS * (1 << attempt)                   *)
(*                                                                         *)
(* in a 32-bit int.  From attempt 21 on that overflows; modelled is what   *)
(* the two's complement machine code yields: a product modulo 2^32, with a *)
(* shift count modulo 32.  2000 * 2^a modulo 2^32 is 16 times              *)
(* 125 * 2^a modulo 2^28, and the module counts in units of 16 ms to stay  *)
(* within TLC's integers.                                                  *)
(***************************************************************************)
EXTENDS Integers

Unit == 16
RetryMinUnits == 125      \* RETRY_MIN_MS = 2000
RetryMaxUnits == 3750     \* RETRY_MAX_MS = 60000
WordUnits == 2^28         \* 2^32 / Unit

Product[a \in 0..31] ==
  IF a = 0 THEN RetryMinUnits ELSE (2 * Product[a - 1]) % WordUnits

\* Bug: the two outcomes of the conditional are swapped.
MaxDelaySwapped(attempt) ==
  LET product == Product[attempt % 32] IN
    Unit * (IF product > RetryMaxUnits THEN product ELSE RetryMaxUnits)

\* max_delay, in milliseconds.
MaxDelay(attempt) ==
  LET product == Product[attempt % 32] IN
    Unit * (IF product > RetryMaxUnits THEN RetryMaxUnits ELSE product)
=============================================================================
