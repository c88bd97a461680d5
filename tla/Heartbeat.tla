------------------------------- MODULE Heartbeat -------------------------------
(***************************************************************************)
(* The heartbeat of a worker's process: every unit reports each round of   *)
(* its loop through one bounded channel to a task that, once in a while,   *)
(* calls the monitoring's URL and receives nothing meanwhile.              *)
(***************************************************************************)
EXTENDS Naturals, Sequences, FiniteSets

CONSTANTS
  Unit,
  Capacity,       \* of the channel: 10
  MinPeriod,      \* monitoring_heartbeat_min_period_in_s
  MaxRounds       \* bound: rounds that are counted during one call

ASSUME HeartbeatAssumption ==
  /\ IsFiniteSet(Unit)
  /\ Capacity \in Nat \ {0}
  /\ MinPeriod \in Nat /\ MaxRounds \in Nat

VARIABLES
  channel,      \* messages that were sent and not received
  waiting,      \* units whose send waits for room, in the order they came
  calling,      \* the sender waits for the monitoring's answer
  age,          \* time since last_heartbeat, up to MinPeriod
  rounds        \* history: rounds that units finished since the call began

vars == <<channel, waiting, calling, age, rounds>>

TypeOK ==
  /\ channel \in 0 .. Capacity
  /\ waiting \in Seq(Unit)
  /\ calling \in BOOLEAN
  /\ age \in 0 .. MinPeriod
  /\ rounds \in Nat

(* last_heartbeat starts a period ago. *)
Init ==
  /\ channel = 0
  /\ waiting = <<>>
  /\ calling = FALSE
  /\ age = MinPeriod
  /\ rounds = 0

-----------------------------------------------------------------------------
IsWaiting(u) == \E i \in 1 .. Len(waiting) : waiting[i] = u

Counted == IF calling /\ rounds < MaxRounds THEN rounds + 1 ELSE rounds

(* A round of look_for_work() ends, with or without an attempt, and the     *)
(* unit sends its id, for which it may have to wait.                        *)
Send(u) ==
  /\ ~IsWaiting(u)
  /\ \/ /\ channel < Capacity
        /\ channel' = channel + 1
        /\ UNCHANGED waiting
     \/ /\ channel = Capacity
        /\ waiting' = Append(waiting, u)
        /\ UNCHANGED channel
  /\ rounds' = Counted
  /\ UNCHANGED <<calling, age>>

(* The unit that came last gets the room. *)
ServedLast(queue) == SubSeq(queue, 1, Len(queue) - 1)

Served(queue) == Tail(queue)

Take ==
  /\ channel > 0
  /\ \/ waiting = <<>> /\ channel' = channel - 1 /\ UNCHANGED waiting
     \/ waiting # <<>> /\ waiting' = Served(waiting) /\ UNCHANGED channel

(* It takes messages during a call, which is a task of its own. *)
ReceiveAlways ==
  /\ Take
  /\ calling' = (calling \/ age = MinPeriod)
  /\ rounds' = IF ~calling THEN 0 ELSE rounds
  /\ UNCHANGED age

(* last_heartbeat is the time of the last message. *)
ReceiveRestarts ==
  /\ ~calling
  /\ Take
  /\ calling' = (age = MinPeriod)
  /\ age' = 0
  /\ rounds' = 0

(* It does not wait for a message. *)
ReceiveByTimer ==
  /\ ~calling
  /\ \/ Take
     \/ channel = 0 /\ age = MinPeriod /\ UNCHANGED <<channel, waiting>>
  /\ calling' = (age = MinPeriod)
  /\ rounds' = 0
  /\ UNCHANGED age

(* heartbeat_sender() takes a message, and one unit that waits gets its     *)
(* room; if the period is over, it starts a call.                           *)
Receive ==
  /\ ~calling
  /\ Take
  /\ calling' = (age = MinPeriod)
  /\ rounds' = 0
  /\ UNCHANGED age

(* The call ends; that it failed is only logged. *)
Answer ==
  /\ calling
  /\ calling' = FALSE
  /\ age' = 0
  /\ rounds' = 0
  /\ UNCHANGED <<channel, waiting>>

Tick ==
  /\ age < MinPeriod
  /\ age' = age + 1
  /\ UNCHANGED <<channel, waiting, calling, rounds>>

Next ==
  \/ \E u \in Unit : Send(u)
  \/ Receive
  \/ Answer
  \/ Tick

Spec == Init /\ [][Next]_vars

(* Nothing makes a call end: it has no timeout.                             *)
FairSpec == Spec /\ WF_vars(Receive) /\ WF_vars(Tick)

-----------------------------------------------------------------------------
(* While one call is unanswered, the units finish no more rounds together   *)
(* than the channel holds and one each: a monitoring that never answers     *)
(* stops every delivery of the process.  (channel(10) in main)              *)
BackPressure == calling => rounds <= Capacity + Cardinality(Unit)

(* As long as calls end, no unit waits for ever to report its round, however *)
(* often the others report theirs.  (tx.send() in look_for_work)             *)
CallsEnd == []<>~calling

UnitsComeThrough == CallsEnd => \A u \in Unit : IsWaiting(u) ~> ~IsWaiting(u)

(* As long as calls and rounds end, the monitoring is called again and      *)
(* again.  (heartbeat_sender)                                               *)
RoundsEnd == \A u \in Unit : WF_vars(Send(u))

HeartbeatsKeepComing == CallsEnd /\ RoundsEnd => []<>calling

(* Once no unit finishes a round any more, no call starts any more: what is *)
(* left in the channel does not pretend that the worker is well for ever.   *)
SilenceIsNoticed ==
  <>[][\A u \in Unit : ~Send(u)]_vars => <>[][~calling => ~calling']_vars
=============================================================================
