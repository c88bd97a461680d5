------------------------------- MODULE Delivery -------------------------------
(***************************************************************************)
(* What Hook0 promises about the delivery of events, without its tables:   *)
(* every dispatch of an event opens one delivery for each of some          *)
(* subscriptions.  An open delivery is tried, at most MaxRetries times     *)
(* again, and ends delivered or abandoned; only an interrupted             *)
(* subscription makes the system give up early.                            *)
(***************************************************************************)
EXTENDS Naturals

CONSTANTS Event, Subscription, MaxRetries

VARIABLES
  dispatched,     \* how often each event was dispatched
  opened,         \* deliveries: an event, a subscription, the number of the dispatch
  delivered,      \* those of them that succeeded
  abandoned,      \* those of them the system gave up
  failures,       \* <<d, n>>: try number n of delivery d failed
  interrupted     \* subscriptions that were disabled or deleted once

vars == <<dispatched, opened, delivered, abandoned, failures, interrupted>>

Init ==
  /\ dispatched = [e \in Event |-> 0]
  /\ opened = {} /\ delivered = {} /\ abandoned = {} /\ failures = {}
  /\ interrupted = {}

Dispatch(e, to) ==
  /\ dispatched' = [dispatched EXCEPT ![e] = @ + 1]
  /\ opened' = opened \cup {<<e, s, dispatched[e] + 1>> : s \in to}
  /\ UNCHANGED <<delivered, abandoned, failures, interrupted>>

Open == opened \ (delivered \cup abandoned)

Succeed(d) ==
  /\ d \in Open
  /\ delivered' = delivered \cup {d}
  /\ UNCHANGED <<dispatched, opened, abandoned, failures, interrupted>>

(* Tries are numbered without a gap. *)
IsNextTry(d, n) ==
  /\ <<d, n>> \notin failures
  /\ n > 0 => <<d, n - 1>> \in failures

Fail(d, n) ==
  /\ d \in Open
  /\ IsNextTry(d, n)
  /\ failures' = failures \cup {<<d, n>>}
  /\ \/ /\ n < MaxRetries
        /\ abandoned' = abandoned
     \/ /\ n = MaxRetries \/ d[2] \in interrupted
        /\ abandoned' = abandoned \cup {d}
  /\ UNCHANGED <<dispatched, opened, delivered, interrupted>>

Interrupt(s) ==
  /\ interrupted' = interrupted \cup {s}
  /\ UNCHANGED <<dispatched, opened, delivered, abandoned, failures>>

Next ==
  \/ \E e \in Event, to \in SUBSET Subscription : Dispatch(e, to)
  \/ \E d \in opened : Succeed(d) \/ \E n \in 0 .. MaxRetries : Fail(d, n)
  \/ \E s \in Subscription : Interrupt(s)

Spec == Init /\ [][Next]_vars
=============================================================================
