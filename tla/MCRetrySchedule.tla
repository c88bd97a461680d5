--------------------------- MODULE MCRetrySchedule ---------------------------
(* Widths scaled down so that both overflows are reached: an i16 of 8 bits  *)
(* and a u32 of 200 values; 60 fast retries are what it takes to reach      *)
(* MAXIMUM_FAST_RETRY_DELAY.                                                *)
EXTENDS RetrySchedule

MCFastLimits == {0, 1, 2, 30, 59, 60, 61, 62, 126, 127, 128, 150, 199}
MCSlowLimits == {0, 1, 2, 30, 65, 66, 67, 68, 100, 127, 140, 199}
=============================================================================
