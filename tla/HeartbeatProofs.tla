--------------------------- MODULE HeartbeatProofs ---------------------------
(***************************************************************************)
(* The heartbeat, for any number of units and any capacity of the channel: *)
(* what one call that is never answered costs.                             *)
(***************************************************************************)
EXTENDS Heartbeat, FiniteSetTheorems, TLAPS

(* Units only wait while the channel is full, each of them once; and every  *)
(* round that ended during a call is still in the channel or waits for it.  *)
Queued ==
  /\ waiting # <<>> => channel = Capacity
  /\ \A i, j \in 1 .. Len(waiting) : waiting[i] = waiting[j] => i = j
  /\ calling => rounds <= channel + Len(waiting)

IInv == TypeOK /\ Queued

LEMMA Initially == Init => IInv
<1>. SUFFICES ASSUME Init PROVE IInv
  OBVIOUS
<1>1. 0 \in 0 .. Capacity /\ MinPeriod \in 0 .. MinPeriod /\ <<>> \in Seq(Unit)
  BY HeartbeatAssumption
<1>2. TypeOK
  BY <1>1 DEF Init, TypeOK
<1>3. Queued
  BY DEF Init, Queued
<1>. QED
  BY <1>2, <1>3 DEF IInv

(* What a unit that joins the queue, and one that leaves it, do to it.      *)
LEMMA Joins ==
  ASSUME NEW q \in Seq(Unit), NEW u \in Unit,
         \A i, j \in 1 .. Len(q) : q[i] = q[j] => i = j,
         \A i \in 1 .. Len(q) : q[i] # u
  PROVE  /\ Append(q, u) \in Seq(Unit) /\ Len(Append(q, u)) = Len(q) + 1
         /\ \A i, j \in 1 .. Len(Append(q, u)) :
              Append(q, u)[i] = Append(q, u)[j] => i = j
OBVIOUS

LEMMA Leaves ==
  ASSUME NEW q \in Seq(Unit), q # <<>>,
         \A i, j \in 1 .. Len(q) : q[i] = q[j] => i = j
  PROVE  /\ Served(q) \in Seq(Unit) /\ Len(Served(q)) = Len(q) - 1
         /\ \A i, j \in 1 .. Len(Served(q)) : Served(q)[i] = Served(q)[j] => i = j
BY DEF Served

LEMMA InvariantStep == IInv /\ [Next]_vars => IInv'
<1>. SUFFICES ASSUME IInv, [Next]_vars PROVE IInv'
  OBVIOUS
<1>. USE HeartbeatAssumption DEF IInv, TypeOK, Queued
<1>1. ASSUME NEW u \in Unit, Send(u) PROVE IInv'
  <2>1. rounds' \in Nat /\ rounds' <= rounds + 1
    BY <1>1 DEF Send, Counted
  <2>2. CASE channel < Capacity /\ channel' = channel + 1 /\ UNCHANGED waiting
    BY <1>1, <2>1, <2>2 DEF Send
  <2>3. CASE channel = Capacity /\ waiting' = Append(waiting, u) /\ UNCHANGED channel
    <3>1. \A i \in 1 .. Len(waiting) : waiting[i] # u
      BY <1>1 DEF Send, IsWaiting
    <3>2. /\ waiting' \in Seq(Unit) /\ Len(waiting') = Len(waiting) + 1
          /\ \A i, j \in 1 .. Len(waiting') : waiting'[i] = waiting'[j] => i = j
      BY <2>3, <3>1, Joins
    <3>. QED
      BY <1>1, <2>1, <2>3, <3>2 DEF Send
  <2>. QED
    BY <1>1, <2>2, <2>3 DEF Send
<1>2. ASSUME Receive PROVE IInv'
  <2>1. calling' \in BOOLEAN /\ rounds' = 0 /\ age' = age
    BY <1>2 DEF Receive
  <2>2. CASE waiting = <<>> /\ channel' = channel - 1 /\ UNCHANGED waiting
    BY <1>2, <2>1, <2>2 DEF Receive, Take
  <2>3. CASE waiting # <<>> /\ waiting' = Served(waiting) /\ UNCHANGED channel
    <3>1. /\ waiting' \in Seq(Unit)
          /\ \A i, j \in 1 .. Len(waiting') : waiting'[i] = waiting'[j] => i = j
      BY <2>3, Leaves
    <3>. QED
      BY <2>1, <2>3, <3>1
  <2>. QED
    BY <1>2, <2>2, <2>3 DEF Receive, Take
<1>3. ASSUME Answer PROVE IInv'
  <2>1. age' = 0 /\ 0 \in 0 .. MinPeriod
    BY <1>3 DEF Answer
  <2>2. channel' = channel /\ waiting' = waiting /\ calling' = FALSE /\ rounds' = 0
    BY <1>3 DEF Answer
  <2>. QED
    BY <2>1, <2>2
<1>4. ASSUME Tick PROVE IInv'
  BY <1>4 DEF Tick
<1>5. ASSUME UNCHANGED vars PROVE IInv'
  BY <1>5 DEF vars
<1>. QED
  BY <1>1, <1>2, <1>3, <1>4, <1>5 DEF Next

(* The channel and the queue have their types in every state.               *)
THEOREM TypeCorrect == Spec => []TypeOK
<1>1. IInv => TypeOK
  BY DEF IInv
<1>. QED
  BY <1>1, Initially, InvariantStep, PTL DEF Spec

(* As many units as wait are different units.                               *)
LEMMA QueueIsShort ==
  ASSUME NEW q \in Seq(Unit), \A i, j \in 1 .. Len(q) : q[i] = q[j] => i = j
  PROVE  Len(q) <= Cardinality(Unit)
<1>1. IsFiniteSet(1 .. Len(q)) /\ Cardinality(1 .. Len(q)) = Len(q)
  <2>1. PICK n \in Nat : n = Len(q)
    OBVIOUS
  <2>2. IsFiniteSet(1 .. n) /\ Cardinality(1 .. n) = IF 1 > n THEN 0 ELSE n - 1 + 1
    <3>1. 1 \in Int /\ n \in Int
      OBVIOUS
    <3>. QED
      BY <3>1, FS_Interval, Zenon
  <2>. QED
    BY <2>1, <2>2
<1>2. Cardinality(Unit) \in Nat
  BY FS_CardinalityType, HeartbeatAssumption
<1>3. q \in [1 .. Len(q) -> Unit]
  OBVIOUS
<1>4. ~(Cardinality(Unit) < Len(q))
  BY <1>1, <1>3, HeartbeatAssumption, FS_PigeonHole
<1>. QED
  BY <1>2, <1>4

(* One call that is not answered leaves the units as many rounds as the     *)
(* channel has room for, and one each: channel(10) in main() is what        *)
(* separates the monitoring from the deliveries.                            *)
THEOREM BackPressureHolds == Spec => []BackPressure
<1>1. ASSUME IInv PROVE BackPressure
  <2>1. Len(waiting) <= Cardinality(Unit)
    BY <1>1, QueueIsShort DEF IInv, TypeOK, Queued
  <2>2. Cardinality(Unit) \in Nat
    BY FS_CardinalityType, HeartbeatAssumption
  <2>. QED
    BY <1>1, <2>1, <2>2, HeartbeatAssumption DEF IInv, TypeOK, Queued, BackPressure
<1>. QED
  BY <1>1, Initially, InvariantStep, PTL DEF Spec
=============================================================================
