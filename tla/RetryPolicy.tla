----------------------------- MODULE RetryPolicy -----------------------------
(***************************************************************************)
(* The retry policy of the output worker: how long a failed request        *)
(* attempt waits before it is retried, and when the worker gives up.       *)
(*                                                                         *)
(* compute_next_retry_duration takes the two limits of the worker's        *)
(* configuration (u32) and the attempt's retry_count (i16).  The widths    *)
(* are parameters, so that a model can be small enough to reach them.      *)
(***************************************************************************)
EXTENDS Integers

CONSTANTS
  U32Modulus,      \* 2^32 in the code: the two limits are added in u32
  I16Max           \* 32767 in the code: retry_count is an i16

ASSUME WidthAssumption ==
  /\ U32Modulus \in Nat \ {0}
  /\ I16Max \in Nat

MINIMUM_FAST_RETRY_DELAY == 5
MAXIMUM_FAST_RETRY_DELAY == 5 * 60
SLOW_RETRY_DELAY == 60 * 60

(* `None', the answer that gives up. *)
GiveUp == -1

U32 == 0 .. (U32Modulus - 1)
I16 == (-I16Max - 1) .. I16Max

(* Release builds wrap: Cargo.toml sets no overflow-checks. *)
U32Add(m, n) == (m + n) % U32Modulus
UncheckedIncrement(n) == n + 1
I16Increment(n) == IF n = I16Max THEN -I16Max - 1 ELSE n + 1

(* min(MINIMUM_FAST_RETRY_DELAY * count, MAXIMUM_FAST_RETRY_DELAY): no wait *)
(* at all for count = 0.                                                    *)
FastRetryDelay(count) ==
  IF MINIMUM_FAST_RETRY_DELAY * count < MAXIMUM_FAST_RETRY_DELAY
  THEN MINIMUM_FAST_RETRY_DELAY * count
  ELSE MAXIMUM_FAST_RETRY_DELAY

(* A plausible slip, for the runs that show the policy's bounds can fail. *)
OffByOneRetryDuration(fast, slow, count) ==
  IF count < 0 THEN GiveUp
  ELSE IF count <= fast THEN FastRetryDelay(count)
  ELSE IF count <= U32Add(fast, slow) THEN SLOW_RETRY_DELAY
  ELSE GiveUp

(* The delays swapped: the slow ones first. *)
SlowFirstRetryDuration(fast, slow, count) ==
  IF count < 0 THEN GiveUp
  ELSE IF count < slow THEN SLOW_RETRY_DELAY
  ELSE IF count < U32Add(fast, slow) THEN FastRetryDelay(count)
  ELSE GiveUp

compute_next_retry_duration(fast, slow, count) ==
  IF count < 0 THEN GiveUp
  ELSE IF count < fast THEN FastRetryDelay(count)
  ELSE IF count < U32Add(fast, slow) THEN SLOW_RETRY_DELAY
  ELSE GiveUp
=============================================================================
