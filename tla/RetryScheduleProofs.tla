------------------------ MODULE RetryScheduleProofs ------------------------
(***************************************************************************)
(* The retry policy, for all limits and all integer widths: how long a     *)
(* chain is, and that it backs off.                                        *)
(***************************************************************************)
EXTENDS RetrySchedule, TLAPS

USE DEF GiveUp, MINIMUM_FAST_RETRY_DELAY, MAXIMUM_FAST_RETRY_DELAY, SLOW_RETRY_DELAY

(* The policy answers with a delay in seconds or gives up, and gives up     *)
(* exactly on the counts that neither limit covers and on negative ones.    *)
LEMMA PolicyAnswers ==
  ASSUME NEW fast \in U32, NEW slow \in U32, NEW count \in I16
  PROVE  LET answer == compute_next_retry_duration(fast, slow, count)
         IN /\ answer \in Nat \cup {GiveUp}
            /\ answer = GiveUp <=>
                 count < 0 \/ (count >= fast /\ count >= U32Add(fast, slow))
<1>1. U32Add(fast, slow) \in Nat /\ fast \in Nat /\ count \in Int
  BY WidthAssumption DEF U32Add, U32, I16
<1>2. count >= 0 => FastRetryDelay(count) \in Nat
  BY <1>1 DEF FastRetryDelay
<1>. QED
  BY <1>1, <1>2 DEF compute_next_retry_duration

(* Delays never shrink along a chain.                                       *)
LEMMA PolicyBacksOff ==
  ASSUME NEW fast \in U32, NEW slow \in U32, NEW count \in I16,
         count > 0,
         compute_next_retry_duration(fast, slow, count) # GiveUp
  PROVE  compute_next_retry_duration(fast, slow, count)
           >= compute_next_retry_duration(fast, slow, count - 1)
<1>1. U32Add(fast, slow) \in Nat /\ fast \in Nat /\ count \in Nat
  BY WidthAssumption DEF U32Add, U32, I16
<1>. QED
  BY <1>1 DEF compute_next_retry_duration, FastRetryDelay

(* Before the counter wraps it counts the requests sent; it wraps only      *)
(* after I16Max + 1 of them, and then the chain is at its end.  The delay   *)
(* is the one the policy answered for the attempt before.                   *)
IInv ==
  /\ TypeOK
  /\ retry_count >= 0 =>
       /\ sent = IF over THEN retry_count + 1 ELSE retry_count
       /\ retry_count + 1 <= Allowed
       /\ over => retry_count + 1 = Allowed
       /\ delay = IF retry_count = 0 THEN 0
                  ELSE compute_next_retry_duration
                         (max_fast_retries, max_slow_retries, retry_count - 1)
  /\ retry_count < 0 =>
       /\ retry_count = -I16Max - 1
       /\ sent = IF over THEN I16Max + 2 ELSE I16Max + 1
       /\ Allowed = I16Max + 2

(* What Allowed is worth, without its LET.                                  *)
LEMMA AllowedValue ==
  ASSUME TypeOK
  PROVE  /\ Allowed \in Nat
         /\ U32Add(max_fast_retries, max_slow_retries) \in Nat
         /\ U32Add(max_fast_retries, max_slow_retries) <= max_fast_retries + max_slow_retries
         /\ Allowed <= max_fast_retries + max_slow_retries + 1 \/ Allowed = I16Max + 2
         /\ Allowed = I16Max + 2 => max_fast_retries + max_slow_retries > I16Max
                                      \/ Allowed = max_fast_retries + max_slow_retries + 1
<1>. DEFINE sum == max_fast_retries + max_slow_retries
            wrapped == U32Add(max_fast_retries, max_slow_retries)
<1>1. max_fast_retries \in Nat /\ max_slow_retries \in Nat /\ I16Max \in Nat
      /\ max_fast_retries < U32Modulus /\ max_slow_retries < U32Modulus
      /\ U32Modulus \in Nat \ {0}
  BY WidthAssumption DEF TypeOK, U32
<1>2. wrapped \in Nat /\ wrapped <= sum
  BY <1>1 DEF U32Add
<1>. QED
  BY <1>1, <1>2 DEF Allowed

LEMMA InitEstablishes == Init => IInv
<1> SUFFICES ASSUME Init PROVE IInv
  OBVIOUS
<1>1. TypeOK
  <2>1. max_fast_retries \in U32 /\ max_slow_retries \in U32
    BY LimitAssumption DEF Init
  <2>2. retry_count \in I16
    BY WidthAssumption DEF Init, I16
  <2>. QED
    BY <2>1, <2>2 DEF Init, TypeOK
<1>2. 1 <= Allowed
  BY <1>1, WidthAssumption, AllowedValue DEF Allowed, Init, TypeOK, U32
<1>. QED
  BY <1>1, <1>2 DEF Init, IInv

(* The policy gives up at retry_count just when Allowed is reached.         *)
LEMMA GivesUpAtTheEnd ==
  ASSUME IInv, ~over
  PROVE  /\ NextDelay = GiveUp => sent + 1 = Allowed
         /\ NextDelay # GiveUp => /\ retry_count >= 0
                                  /\ retry_count < I16Max => retry_count + 2 <= Allowed
                                  /\ retry_count = I16Max => Allowed = I16Max + 2
<1>1. NextDelay = GiveUp <=>
        \/ retry_count < 0
        \/ /\ retry_count >= max_fast_retries
           /\ retry_count >= U32Add(max_fast_retries, max_slow_retries)
  BY PolicyAnswers DEF IInv, TypeOK, NextDelay
<1>2. /\ retry_count \in Int /\ retry_count <= I16Max /\ I16Max \in Nat
      /\ max_fast_retries \in Nat
      /\ U32Add(max_fast_retries, max_slow_retries) \in Nat
  BY WidthAssumption, AllowedValue DEF IInv, TypeOK, I16, U32
<1>. QED
  BY <1>1, <1>2 DEF IInv, Allowed

LEMMA StepPreserves == IInv /\ [Next]_vars => IInv'
<1> SUFFICES ASSUME IInv, [Next]_vars PROVE IInv'
  OBVIOUS
<1> USE DEF IInv
<1>1. I16Max \in Nat /\ retry_count \in Int /\ sent \in Nat /\ Allowed \in Nat
  BY WidthAssumption, AllowedValue DEF TypeOK, I16
<1>2. CASE Retry
  <2>1. Allowed' = Allowed /\ over' = over
    BY <1>2 DEF Retry, configuration, Allowed
  <2>2. retry_count >= 0 /\ sent' = retry_count + 1
    BY <1>1, <1>2, GivesUpAtTheEnd DEF Retry
  <2>3. NextDelay \in Nat
    BY <1>2, PolicyAnswers DEF Retry, NextDelay, TypeOK
  <2>4. TypeOK'
    BY <1>1, <1>2, <2>3, WidthAssumption DEF Retry, configuration, TypeOK, I16Increment, I16
  <2>5. CASE retry_count < I16Max
    <3>1. retry_count' = retry_count + 1
      BY <1>1, <1>2, <2>5 DEF Retry, I16Increment
    <3>2. delay' = compute_next_retry_duration
                     (max_fast_retries', max_slow_retries', retry_count' - 1)
      BY <1>1, <1>2, <3>1 DEF Retry, NextDelay, configuration
    <3>. QED
      BY <1>1, <1>2, <2>1, <2>2, <2>4, <2>5, <3>1, <3>2, GivesUpAtTheEnd DEF Retry
  <2>6. CASE retry_count = I16Max
    BY <1>1, <1>2, <2>1, <2>2, <2>4, <2>6, GivesUpAtTheEnd DEF Retry, I16Increment
  <2>. QED
    BY <1>1, <2>5, <2>6 DEF TypeOK, I16
<1>3. CASE Abandon
  <2>1. Allowed' = Allowed
    BY <1>3 DEF Abandon, configuration, Allowed
  <2>2. sent + 1 = Allowed
    BY <1>3, GivesUpAtTheEnd DEF Abandon
  <2>3. TypeOK'
    BY <1>1, <1>3 DEF Abandon, configuration, TypeOK
  <2>. QED
    BY <1>1, <1>3, <2>1, <2>2, <2>3 DEF Abandon, configuration
<1>4. CASE UNCHANGED vars
  BY <1>4 DEF vars, TypeOK, Allowed
<1>. QED
  BY <1>2, <1>3, <1>4 DEF Next

LEMMA Inductive == Spec => []IInv
  BY InitEstablishes, StepPreserves, PTL DEF Spec

(* The counters stay within their widths.                                   *)
THEOREM TypeCorrect == Spec => []TypeOK
<1>1. IInv => TypeOK
  BY DEF IInv
<1>. QED
  BY <1>1, Inductive, PTL

(* A chain whose target never answers makes exactly the requests that its   *)
(* limits allow, whatever the limits and whatever overflows.                *)
THEOREM ChainLengthHolds == Spec => []ChainLength
<1>1. IInv => ChainLength
  BY WidthAssumption, AllowedValue DEF IInv, ChainLength, TypeOK, I16
<1>. QED
  BY <1>1, Inductive, PTL

(* It never makes more than fast + slow + 1 of them.                        *)
THEOREM NeverTooManyHolds == Spec => []NeverTooMany
<1>1. ASSUME IInv PROVE NeverTooMany
  <2>1. /\ max_fast_retries \in Nat /\ max_slow_retries \in Nat /\ I16Max \in Nat
        /\ retry_count \in Int /\ sent \in Nat /\ over \in BOOLEAN
    BY <1>1, WidthAssumption DEF IInv, TypeOK, U32, I16
  <2>2. sent <= Allowed
    BY <1>1, <2>1, AllowedValue DEF IInv
  <2>. QED
    BY <1>1, <2>1, <2>2, AllowedValue DEF IInv, NeverTooMany
<1>. QED
  BY <1>1, Inductive, PTL

(* Each retry waits at least as long as the one before it.                  *)
THEOREM DelaysGrowHolds == Spec => DelaysGrow
<1>1. ASSUME IInv, [Next]_vars PROVE [delay' >= delay]_vars
  <2>1. CASE Retry
    <3>1. /\ retry_count >= 0 /\ retry_count \in I16
          /\ delay' = NextDelay /\ NextDelay # GiveUp /\ NextDelay \in Nat
      BY <1>1, <2>1, GivesUpAtTheEnd, PolicyAnswers DEF Retry, IInv, TypeOK, NextDelay
    <3>2. CASE retry_count = 0
      BY <1>1, <3>1, <3>2 DEF IInv
    <3>3. CASE retry_count > 0
      BY <1>1, <3>1, <3>3, PolicyBacksOff DEF IInv, TypeOK, NextDelay
    <3>. QED
      BY <3>1, <3>2, <3>3 DEF I16
  <2>2. CASE Abandon
    BY <1>1, <2>2 DEF Abandon, IInv, TypeOK
  <2>3. CASE UNCHANGED vars
    BY <2>3
  <2>. QED
    BY <1>1, <2>1, <2>2, <2>3 DEF Next
<1>. QED
  BY <1>1, Inductive, PTL DEF Spec, DelaysGrow
=============================================================================
