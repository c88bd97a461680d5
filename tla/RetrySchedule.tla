---------------------------- MODULE RetrySchedule ----------------------------
(***************************************************************************)
(* The life of one retry chain whose target never answers: the attempt     *)
(* fails, compute_next_retry_duration decides, and the retry that          *)
(* look_for_work inserts carries retry_count + 1.  The subscription stays  *)
(* active, so only the policy can end the chain.                           *)
(***************************************************************************)
EXTENDS RetryPolicy

CONSTANTS
  FastLimits,      \* the values of --max-fast-retries that are explored
  SlowLimits       \* the values of --max-slow-retries that are explored

ASSUME LimitAssumption ==
  /\ FastLimits \subseteq U32
  /\ SlowLimits \subseteq U32

VARIABLES
  max_fast_retries,
  max_slow_retries,
  retry_count,     \* of the attempt that is about to be made
  delay,           \* the delay this attempt waited for; 0 for the first one
  sent,            \* how many requests the chain has sent so far
  over             \* the worker gave up

vars == <<max_fast_retries, max_slow_retries, retry_count, delay, sent, over>>
configuration == <<max_fast_retries, max_slow_retries>>

Init ==
  /\ max_fast_retries \in FastLimits
  /\ max_slow_retries \in SlowLimits
  /\ retry_count = 0
  /\ delay = 0
  /\ sent = 0
  /\ over = FALSE

NextDelay ==
  compute_next_retry_duration(max_fast_retries, max_slow_retries, retry_count)

(* The attempt fails and a retry is inserted. *)
Retry ==
  /\ ~over
  /\ NextDelay # GiveUp
  /\ sent' = sent + 1
  /\ retry_count' = I16Increment(retry_count)
  /\ delay' = NextDelay
  /\ UNCHANGED <<configuration, over>>

(* The conversion of a negative count is unwrapped instead. *)
AbandonUnlessNegative ==
  /\ ~over
  /\ NextDelay = GiveUp
  /\ retry_count >= 0
  /\ sent' = sent + 1
  /\ over' = TRUE
  /\ UNCHANGED <<configuration, retry_count, delay>>

(* The attempt fails and the worker gives up. *)
Abandon ==
  /\ ~over
  /\ NextDelay = GiveUp
  /\ sent' = sent + 1
  /\ over' = TRUE
  /\ UNCHANGED <<configuration, retry_count, delay>>

Next == Retry \/ Abandon

Spec == Init /\ [][Next]_vars

(* look_for_work's loop runs until the row of the chain is settled. *)
FairSpec == Spec /\ WF_vars(Next)

-----------------------------------------------------------------------------
TypeOK ==
  /\ max_fast_retries \in U32
  /\ max_slow_retries \in U32
  /\ retry_count \in I16
  /\ delay \in Nat
  /\ sent \in Nat
  /\ over \in BOOLEAN

(* How many requests the two limits allow.  When their sum does not fit    *)
(* u32 the slow retries that the wrapped sum no longer covers are lost;    *)
(* when it passes the largest i16 the counter wraps below zero and the     *)
(* conversion to u32 refuses it.                                           *)
Allowed ==
  LET wrapped == U32Add(max_fast_retries, max_slow_retries)
      last == IF wrapped > max_fast_retries THEN wrapped ELSE max_fast_retries
  IN IF last > I16Max THEN I16Max + 2 ELSE last + 1

(* A chain that is over has sent exactly the requests its configuration    *)
(* allows, for every configuration, those that overflow included.          *)
ChainLength == over => sent = Allowed

(* However the limits and the counter overflow, a chain never sends more   *)
(* requests than the two limits ask for.                                   *)
NeverTooMany == sent <= max_fast_retries + max_slow_retries + 1

(* Back-off: each retry waits at least as long as the one before it.       *)
DelaysGrow == [][delay' >= delay]_vars

(* Every chain comes to an end, even where the counter wraps.              *)
ChainEnds == <>over
=============================================================================
