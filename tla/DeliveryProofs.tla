---------------------------- MODULE DeliveryProofs ----------------------------
(***************************************************************************)
(* The pipeline implements Delivery: every step of the tables, the workers *)
(* and the API is a step of the promise or leaves what it says unchanged.  *)
(***************************************************************************)
EXTENDS PipelineProofs

(* The mapping: what the tables say of the deliveries.                      *)
Opened == Chains(Stored)
Delivered == Chains(Succeeded)
Abandoned == Chains(Failed) \ Chains(Pending \cup Succeeded)
Failures == {<<ChainOf(request_attempt[a]), request_attempt[a].retry_count>> : a \in Failed}

-----------------------------------------------------------------------------
(* Rows that are kept keep their chain and their number in it.              *)
LEMMA KeptChains ==
  ASSUME RowsKept
  PROVE  /\ \A ids \in SUBSET Stored : {ChainOf(request_attempt'[a]) : a \in ids} = Chains(ids)
         /\ \A a \in Stored : /\ ChainOf(request_attempt'[a]) = ChainOf(request_attempt[a])
                              /\ request_attempt'[a].retry_count = request_attempt[a].retry_count
<1>1. \A a \in Stored : /\ ChainOf(request_attempt'[a]) = ChainOf(request_attempt[a])
                        /\ request_attempt'[a].retry_count = request_attempt[a].retry_count
  BY DEF RowsKept, SameChain
<1>. QED
  BY <1>1 DEF Chains

LEMMA PartsOfStored ==
  /\ Pending \subseteq Stored /\ Failed \subseteq Stored /\ Succeeded \subseteq Stored
  BY DEF Pending, Failed, Succeeded

(* A pending attempt is the next try of a delivery that is open: its other  *)
(* tries have failed and number all smaller counts.                         *)
LEMMA PendingIsNextTry ==
  ASSUME IInv, NEW j \in Pending
  PROVE  LET d == ChainOf(request_attempt[j])
             n == request_attempt[j].retry_count
         IN /\ d \in Opened \ (Delivered \cup Abandoned)
            /\ n \in 0 .. MaxRetries
            /\ <<d, n>> \notin Failures
            /\ n > 0 => <<d, n - 1>> \in Failures
            /\ \A b \in Stored \ {j} : ChainOf(request_attempt[b]) = d => b \in Failed
            /\ d[2] = request_attempt[j].subscription
<1>. DEFINE d == ChainOf(request_attempt[j])
            n == request_attempt[j].retry_count
<1>1. /\ j \in Stored /\ j \notin Failed /\ j \notin Succeeded
      /\ request_attempt[j] \in AttemptRow
  BY StoredRows DEF IInv, Pending, Failed, Succeeded
<1>2. \A b \in Stored \ {j} : ChainOf(request_attempt[b]) = d =>
        b \in Failed /\ request_attempt[b].retry_count < n
  BY LinearRows DEF IInv, SameChain
<1>3. n \in 0 .. MaxRetries
  BY <1>1, OutputWorkerAssumption DEF IInv, RowsAreKnown, AttemptRow, MaxRetries
<1>4. \A b \in Succeeded : ChainOf(request_attempt[b]) # d
  BY <1>1, <1>2 DEF Succeeded, Failed
<1>5. d \in Opened /\ d \notin Delivered /\ d \notin Abandoned
  BY <1>1, <1>4 DEF Opened, Delivered, Abandoned, Chains
<1>6. <<d, n>> \notin Failures
  <2>1. \A b \in Failed : ChainOf(request_attempt[b]) = d => request_attempt[b].retry_count # n
    BY <1>1, <1>2, <1>3, StoredRows DEF IInv, AttemptRow
  <2>. QED
    BY <2>1 DEF Failures
<1>7. ASSUME n > 0 PROVE <<d, n - 1>> \in Failures
  <2>1. PICK b \in Failed : /\ SameChain(request_attempt[b], request_attempt[j])
                            /\ request_attempt[b].retry_count = n - 1
    BY <1>1, <1>7 DEF IInv, ChainsAreLinear
  <2>. QED
    BY <2>1 DEF Failures, SameChain
<1>8. d[2] = request_attempt[j].subscription
  BY DEF ChainOf
<1>. QED
  BY <1>2, <1>3, <1>5, <1>6, <1>7, <1>8

-----------------------------------------------------------------------------
(* What each kind of step makes of the mapping.                             *)
LEMMA QuietMaps ==
  ASSUME QuietRows
  PROVE  UNCHANGED <<Opened, Delivered, Abandoned, Failures>>
<1>1. /\ RowsKept /\ Stored' = Stored /\ Pending' = Pending
      /\ Failed' = Failed /\ Succeeded' = Succeeded
  BY DEF QuietRows, Becomes
<1>2. /\ Chains(Stored)' = Chains(Stored) /\ Chains(Failed)' = Chains(Failed)
      /\ Chains(Succeeded)' = Chains(Succeeded)
      /\ Chains(Pending \cup Succeeded)' = Chains(Pending \cup Succeeded)
  BY <1>1, KeptChains, PartsOfStored DEF Chains
<1>3. Failures' = Failures
  BY <1>1, KeptChains, PartsOfStored DEF Failures
<1>. QED
  BY <1>2, <1>3 DEF Opened, Delivered, Abandoned

LEMMA SuccessMaps ==
  ASSUME IInv, NEW u \in Unit, SuccessRows(u)
  PROVE  LET d == ChainOf(request_attempt[job[u]])
         IN /\ Delivered' = Delivered \cup {d}
            /\ UNCHANGED <<Opened, Abandoned, Failures>>
<1>1. /\ RowsKept /\ Stored' = Stored /\ Pending' = Pending \ {job[u]}
      /\ Failed' = Failed /\ Succeeded' = Succeeded \cup {job[u]} /\ job[u] \in Pending
  BY DEF SuccessRows, Becomes, IInv, JobsAreOpen
<1>2. /\ Chains(Stored)' = Chains(Stored) /\ Chains(Failed)' = Chains(Failed)
      /\ Chains(Succeeded)' = Chains(Succeeded) \cup {ChainOf(request_attempt[job[u]])}
  BY <1>1, KeptChains, PartsOfStored DEF Chains
<1>3. Chains(Pending \cup Succeeded)' = Chains(Pending \cup Succeeded)
  <2>1. (Pending \cup Succeeded)' = Pending \cup Succeeded
    BY <1>1
  <2>. QED
    BY <1>1, <2>1, KeptChains, PartsOfStored DEF Chains
<1>4. Failures' = Failures
  BY <1>1, KeptChains, PartsOfStored DEF Failures
<1>. QED
  BY <1>2, <1>3, <1>4 DEF Opened, Delivered, Abandoned

(* Nothing but failures is left of the chain: it is given up.               *)
LEMMA FailureMaps ==
  ASSUME IInv, NEW u \in Unit, FailureRows(u)
  PROVE  LET d == ChainOf(request_attempt[job[u]])
             n == request_attempt[job[u]].retry_count
         IN /\ Failures' = Failures \cup {<<d, n>>}
            /\ Abandoned' = Abandoned \cup {d}
            /\ n = MaxRetries \/ d[2] \in interrupted
            /\ UNCHANGED <<Opened, Delivered>>
<1>. DEFINE row == request_attempt[job[u]]
            rest == (Pending \cup Succeeded) \ {job[u]}
<1>1. /\ RowsKept /\ Stored' = Stored /\ Pending' = Pending \ {job[u]}
      /\ Failed' = Failed \cup {job[u]} /\ Succeeded' = Succeeded /\ job[u] \in Pending
      /\ pc[u] = "decided" /\ retry[u] = NoRow
  BY DEF FailureRows, Becomes, IInv, JobsAreOpen
<1>2. /\ Chains(Stored)' = Chains(Stored) /\ Chains(Succeeded)' = Chains(Succeeded)
      /\ Chains(Failed)' = Chains(Failed) \cup {ChainOf(row)}
      /\ Failures' = Failures \cup {<<ChainOf(row), row.retry_count>>}
  BY <1>1, KeptChains, PartsOfStored DEF Chains, Failures
<1>3. \A b \in Stored \ {job[u]} : ChainOf(request_attempt[b]) = ChainOf(row) => b \in Failed
  BY <1>1, PendingIsNextTry
<1>4. Chains(Pending \cup Succeeded)' = Chains(rest)
  <2>1. (Pending \cup Succeeded)' = rest
    BY <1>1 DEF Pending, Succeeded
  <2>. QED
    BY <1>1, <2>1, KeptChains, PartsOfStored DEF Chains
<1>5. Chains(rest) = Chains(Pending \cup Succeeded) \ {ChainOf(row)}
  BY <1>1, <1>3 DEF Chains, Pending, Succeeded, Failed
<1>6. row.retry_count = MaxRetries \/ ChainOf(row)[2] \in interrupted
  <2>1. row.retry_count >= MaxRetries \/ row.subscription \in interrupted
    BY <1>1 DEF IInv, DecisionsFit, DecisionFits
  <2>2. row.retry_count \in 0 .. MaxRetries /\ ChainOf(row)[2] = row.subscription
    BY <1>1, PendingIsNextTry
  <2>. QED
    BY <2>1, <2>2, OutputWorkerAssumption DEF MaxRetries
<1>7. Abandoned' = Abandoned \cup {ChainOf(row)}
  BY <1>2, <1>4, <1>5 DEF Abandoned
<1>8. UNCHANGED <<Opened, Delivered>>
  BY <1>2 DEF Opened, Delivered
<1>. HIDE DEF row
<1>. QED
  BY <1>2, <1>6, <1>7, <1>8, Zenon DEF row

(* The retry keeps the chain open.                                          *)
LEMMA RetryMaps ==
  ASSUME IInv, NEW u \in Unit, NEW id \in RequestAttempt, RetryRows(u, id)
  PROVE  LET d == ChainOf(request_attempt[job[u]])
             n == request_attempt[job[u]].retry_count
         IN /\ Failures' = Failures \cup {<<d, n>>}
            /\ n < MaxRetries
            /\ UNCHANGED <<Opened, Delivered, Abandoned>>
<1>. DEFINE row == request_attempt[job[u]]
            rest == (Pending \cup Succeeded) \ {job[u]}
<1>1. /\ RowsKept /\ Stored' = Stored \cup {id} /\ Pending' = (Pending \ {job[u]}) \cup {id}
      /\ Failed' = Failed \cup {job[u]} /\ Succeeded' = Succeeded /\ job[u] \in Pending
      /\ pc[u] = "decided" /\ retry[u] # NoRow /\ id \notin Stored
      /\ request_attempt'[id] = retry[u]
  BY DEF RetryRows, Becomes, IInv, JobsAreOpen, Free
<1>2. ChainOf(request_attempt'[id]) = ChainOf(row) /\ row.retry_count < MaxRetries
  BY <1>1 DEF IInv, DecisionsFit, DecisionFits, SameChain
<1>3. /\ Chains(Stored)' = Chains(Stored) /\ Chains(Succeeded)' = Chains(Succeeded)
      /\ Chains(Failed)' = Chains(Failed) \cup {ChainOf(row)}
      /\ Failures' = Failures \cup {<<ChainOf(row), row.retry_count>>}
  BY <1>1, <1>2, KeptChains, PartsOfStored DEF Chains, Failures
<1>4. Chains(Pending \cup Succeeded)' = Chains(Pending \cup Succeeded)
  <2>1. (Pending \cup Succeeded)' = rest \cup {id}
    BY <1>1 DEF Pending, Succeeded
  <2>2. Pending \cup Succeeded = rest \cup {job[u]} /\ rest \cup {job[u]} \subseteq Stored
    BY <1>1, PartsOfStored
  <2>. QED
    BY <1>1, <1>2, <2>1, <2>2, KeptChains DEF Chains
<1>5. ChainOf(row) \in Chains(Pending \cup Succeeded)
  BY <1>1 DEF Chains
<1>6. Abandoned' = Abandoned
  BY <1>3, <1>4, <1>5 DEF Abandoned
<1>7. UNCHANGED <<Opened, Delivered>>
  BY <1>3 DEF Opened, Delivered
<1>. QED
  BY <1>2, <1>3, <1>6, <1>7

(* The chains that a dispatch opens are new, since no row is of a dispatch  *)
(* to come.                                                                 *)
LEMMA DispatchMaps ==
  ASSUME IInv, NEW e \in Event, Dispatch(e)
  PROVE  /\ Opened' = Opened \cup {<<e, s, event[e] + 1>> : s \in Matching(e)}
         /\ event' = [event EXCEPT ![e] = @ + 1]
         /\ UNCHANGED <<Delivered, Abandoned, Failures>>
<1>. DEFINE new == Stored' \ Stored
            opens == {<<e, s, event[e] + 1>> : s \in Matching(e)}
<1>1. /\ RowsKept /\ Stored' = Stored \cup new /\ Pending' = Pending \cup new
      /\ Failed' = Failed /\ Succeeded' = Succeeded
  BY DispatchedRows DEF IInv, DispatchRows, Becomes, RowsKept
<1>2. \A a \in new : \E s \in Matching(e) : request_attempt'[a] = FirstAttempt(e, s)
  BY DispatchFacts DEF IInv
<1>3. \A s \in Matching(e) : \E a \in new : request_attempt'[a] = FirstAttempt(e, s)
  BY DispatchFacts DEF IInv
<1>4. \A s \in Matching(e) : ChainOf(FirstAttempt(e, s)) = <<e, s, event[e] + 1>>
  BY FirstAttemptFacts DEF IInv, Matching
<1>5. {ChainOf(request_attempt'[a]) : a \in new} = opens
  BY <1>2, <1>3, <1>4
<1>6. /\ Chains(Stored)' = Chains(Stored) \cup opens
      /\ Chains(Failed)' = Chains(Failed) /\ Chains(Succeeded)' = Chains(Succeeded)
      /\ Chains(Pending \cup Succeeded)' = Chains(Pending \cup Succeeded) \cup opens
  <2>1. Chains(Stored)' = {ChainOf(request_attempt'[a]) : a \in Stored}
                            \cup {ChainOf(request_attempt'[a]) : a \in new}
    BY <1>1 DEF Chains
  <2>2. Chains(Pending \cup Succeeded)' = {ChainOf(request_attempt'[a]) : a \in Pending \cup Succeeded}
                                            \cup {ChainOf(request_attempt'[a]) : a \in new}
    BY <1>1 DEF Chains
  <2>3. Chains(Failed)' = {ChainOf(request_attempt'[a]) : a \in Failed}
        /\ Chains(Succeeded)' = {ChainOf(request_attempt'[a]) : a \in Succeeded}
    BY <1>1 DEF Chains
  <2>. QED
    BY <1>1, <1>5, <2>1, <2>2, <2>3, KeptChains, PartsOfStored
<1>7. \A a \in Stored : ChainOf(request_attempt[a]) \notin opens
  <2>1. ASSUME NEW a \in Stored, ChainOf(request_attempt[a]) \in opens PROVE FALSE
    <3>1. /\ request_attempt[a].event = e /\ request_attempt[a].dispatch = event[e] + 1
          /\ event[e] \in Nat
      BY <2>1 DEF ChainOf, IInv, TypeOK, TablesTypeOK
    <3>2. request_attempt[a].dispatch <= event[e]
      BY <3>1 DEF IInv, RowsAreKnown
    <3>. QED
      BY <3>1, <3>2
  <2>. QED
    BY <2>1
<1>8. Chains(Failed) \cap opens = {}
  BY <1>7, PartsOfStored DEF Chains
<1>9. Failures' = Failures
  BY <1>1, KeptChains, PartsOfStored DEF Failures
<1>10. event' = [event EXCEPT ![e] = @ + 1]
  BY DispatchFacts DEF IInv
<1>11. Abandoned' = Abandoned
  BY <1>6, <1>8 DEF Abandoned
<1>12. Opened' = Opened \cup opens /\ Delivered' = Delivered
  BY <1>6 DEF Opened, Delivered
<1>. QED
  BY <1>9, <1>10, <1>11, <1>12

(* Events are dispatched one at a time, subscriptions are interrupted one   *)
(* at a time, and no step does both or either while it settles an attempt.  *)
LEMMA OneThingAtATime ==
  ASSUME [Next]_vars
  PROVE  \/ UNCHANGED <<event, interrupted>>
         \/ /\ UNCHANGED <<event, request_attempt>>
            /\ \E s \in Subscription : interrupted' = interrupted \cup {s}
         \/ /\ UNCHANGED interrupted
            /\ \E e \in Event : Dispatch(e)
<1>. DEFINE Goal == \/ UNCHANGED <<event, interrupted>>
                    \/ /\ UNCHANGED <<event, request_attempt>>
                       /\ \E s \in Subscription : interrupted' = interrupted \cup {s}
                    \/ /\ UNCHANGED interrupted
                       /\ \E e \in Event : Dispatch(e)
<1>1. ASSUME WorkersNext, UNCHANGED api PROVE UNCHANGED <<event, interrupted>>
  BY <1>1 DEF WorkersNext, UnitStep, Pick, CallSucceeds, CallFails, AnswerCannotBeStored,
     DecideRetry, CommitSuccess, CommitFailure, Rollback, ProcessExit, DelayElapses, tables, api
<1>2. ASSUME NEW e \in Event, Ingest(e) \/ Replay(e) PROVE Goal
  BY <1>2 DEF Ingest, Replay
<1>3. ASSUME NEW s \in Subscription, NEW body \in Body,
             CreateSubscription(s, body) \/ EditSubscription(s, body)
      PROVE  Goal
  BY <1>3 DEF CreateSubscription, EditSubscription, Written
<1>4. ASSUME NEW s \in Subscription, DeleteSubscription(s) PROVE Goal
  BY <1>4 DEF DeleteSubscription
<1>5. ASSUME NEW r \in Request, Authorize(r) \/ Refuse(r) PROVE UNCHANGED <<event, interrupted>>
  BY <1>5 DEF Authorize, Refuse, tables
<1>6. ASSUME NEW app \in Application, DeleteApplication(app) PROVE UNCHANGED <<event, interrupted>>
  BY <1>6 DEF DeleteApplication
<1>7. ASSUME ApiNext PROVE Goal
  BY <1>2, <1>3, <1>4, <1>5, <1>6, <1>7 DEF ApiNext
<1>8. CASE UNCHANGED vars
  BY <1>8 DEF vars, tables, api
<1>. QED
  BY <1>1, <1>7, <1>8 DEF Next

-----------------------------------------------------------------------------
LEMMA InitIsPromised == Init => Promise!Init
<1>. SUFFICES ASSUME Init PROVE Promise!Init
  OBVIOUS
<1>1. event = [e \in Event |-> 0] /\ interrupted = {} /\ Stored = {}
  BY DEF Init, TablesInit, ApiInit, Stored
<1>. QED
  BY <1>1 DEF Promise!Init, Chains, Pending, Failed, Succeeded

LEMMA StepIsPromised ==
  ASSUME IInv, [Next]_vars
  PROVE  [Promise!Next]_(Promise!vars)
<1>1. CASE \E e \in Event : Dispatch(e) /\ UNCHANGED interrupted
  <2>1. PICK e \in Event : Dispatch(e) /\ UNCHANGED interrupted
    BY <1>1
  <2>2. Promise!Dispatch(e, Matching(e))
    BY <2>1, DispatchMaps DEF Promise!Dispatch, Opened, Delivered, Abandoned, Failures
  <2>3. Matching(e) \in SUBSET Subscription
    BY DEF Matching
  <2>. QED
    BY <2>2, <2>3 DEF Promise!Next
<1>2. CASE /\ UNCHANGED <<event, request_attempt>>
           /\ \E s \in Subscription : interrupted' = interrupted \cup {s}
  <2>1. UNCHANGED <<Opened, Delivered, Abandoned, Failures>>
    BY <1>2, UnchangedRows, QuietMaps
  <2>2. \E s \in Subscription : Promise!Interrupt(s)
    BY <1>2, <2>1 DEF Promise!Interrupt, Opened, Delivered, Abandoned, Failures
  <2>. QED
    BY <2>2 DEF Promise!Next
<1>3. CASE UNCHANGED <<event, interrupted>>
  <2>1. CASE QuietRows
    <3>1. UNCHANGED <<Opened, Delivered, Abandoned, Failures>>
      BY <2>1, QuietMaps
    <3>. QED
      BY <1>3, <3>1 DEF Promise!vars, Opened, Delivered, Abandoned, Failures
  <2>2. ASSUME NEW u \in Unit, SuccessRows(u) PROVE Promise!Next
    <3>. DEFINE d == ChainOf(request_attempt[job[u]])
    <3>1. job[u] \in Pending
      BY <2>2 DEF SuccessRows, IInv, JobsAreOpen
    <3>2. d \in Opened \ (Delivered \cup Abandoned)
      BY <3>1, PendingIsNextTry
    <3>3. Promise!Succeed(d)
      BY <1>3, <2>2, <3>2, SuccessMaps
         DEF Promise!Succeed, Promise!Open, Opened, Delivered, Abandoned, Failures
    <3>. QED
      BY <3>2, <3>3 DEF Promise!Next, Opened
  <2>3. ASSUME NEW u \in Unit, NEW id \in RequestAttempt, FailureRows(u) \/ RetryRows(u, id)
        PROVE  Promise!Next
    <3>1. job[u] \in Pending
      BY <2>3 DEF FailureRows, RetryRows, IInv, JobsAreOpen
    <3>2. PICK d \in Opened, n \in 0 .. MaxRetries :
            /\ d = ChainOf(request_attempt[job[u]])
            /\ n = request_attempt[job[u]].retry_count
      BY <3>1, PendingIsNextTry
    <3>3. /\ d \notin Delivered \cup Abandoned
          /\ <<d, n>> \notin Failures /\ (n > 0 => <<d, n - 1>> \in Failures)
      BY <3>1, <3>2, PendingIsNextTry
    <3>4. /\ Failures' = Failures \cup {<<d, n>>} /\ UNCHANGED <<Opened, Delivered>>
          /\ \/ n < MaxRetries /\ UNCHANGED Abandoned
             \/ /\ n = MaxRetries \/ d[2] \in interrupted
                /\ Abandoned' = Abandoned \cup {d}
      BY <2>3, <3>2, FailureMaps, RetryMaps
    <3>5. Promise!Fail(d, n)
      BY <1>3, <3>3, <3>4
         DEF Promise!Fail, Promise!IsNextTry, Promise!Open, Opened, Delivered, Abandoned, Failures
    <3>. QED
      BY <3>5 DEF Promise!Next, Opened
  <2>4. ASSUME NEW e \in Event, DispatchRows(e) PROVE FALSE
    <3>1. event[e] \in Nat /\ event'[e] = event[e] + 1
      BY <2>4 DEF DispatchRows, IInv, TypeOK, TablesTypeOK
    <3>. QED
      BY <1>3, <3>1
  <2>5. RowsStep
    BY EveryRowsStep DEF IInv
  <2>6. CASE \E u \in Unit : FailureRows(u)
    <3>1. PICK u \in Unit : FailureRows(u)
      BY <2>6
    <3>2. \E id \in RequestAttempt : FailureRows(u) \/ RetryRows(u, id)
      BY <3>1 DEF FailureRows, IInv, JobsAreOpen, Pending, Stored
    <3>. QED
      BY <2>3, <3>2
  <2>. QED
    BY <2>1, <2>2, <2>3, <2>4, <2>5, <2>6 DEF RowsStep
<1>. QED
  BY <1>1, <1>2, <1>3, OneThingAtATime

(* The pipeline delivers as Delivery specifies: tries are numbered without  *)
(* a gap, a delivery ends once, and it is given up early only when its      *)
(* subscription was interrupted.                                            *)
THEOREM DeliveryIsImplemented == Spec => ImplementsDelivery
<1>1. Init => Promise!Init
  BY InitIsPromised
<1>2. IInv /\ [Next]_vars => [Promise!Next]_(Promise!vars)
  BY StepIsPromised
<1>. QED
  BY <1>1, <1>2, Invariant, PTL DEF Spec, ImplementsDelivery, Promise!Spec

-----------------------------------------------------------------------------
(* What the promise amounts to for a delivery.                              *)

(* Abandoned deliveries have failed for the last time, or have an excuse;   *)
(* a failed try comes after all the tries before it.                        *)
TriesInv ==
  /\ \A d \in Abandoned : <<d, MaxRetries>> \in Failures \/ d[2] \in interrupted
  /\ \A t \in Failures : /\ t[2] \in 0 .. MaxRetries
                         /\ \A m \in 0 .. t[2] : <<t[1], m>> \in Failures

(* A delivery of a subscription that was never disabled or deleted is only  *)
(* given up after all of its 1 + MaxRetries tries have failed.              *)
EndsForAReason ==
  \A d \in Abandoned :
    d[2] \notin interrupted => \A n \in 0 .. MaxRetries : <<d, n>> \in Failures

LEMMA TriesKept ==
  ASSUME TriesInv, [Promise!Next]_(Promise!vars)
  PROVE  TriesInv'
<1>1. ASSUME NEW s, Promise!Interrupt(s) PROVE TriesInv'
  <2>1. UNCHANGED <<Abandoned, Failures>> /\ interrupted \subseteq interrupted'
    BY <1>1 DEF Promise!Interrupt, Abandoned, Failures
  <2>. QED
    BY <2>1 DEF TriesInv
<1>2. ASSUME NEW d, NEW n \in 0 .. MaxRetries, Promise!Fail(d, n) PROVE TriesInv'
  <2>1. /\ Failures' = Failures \cup {<<d, n>>} /\ UNCHANGED interrupted
        /\ n > 0 => <<d, n - 1>> \in Failures
        /\ \/ Abandoned' = Abandoned
           \/ /\ n = MaxRetries \/ d[2] \in interrupted
              /\ Abandoned' = Abandoned \cup {d}
    BY <1>2 DEF Promise!Fail, Promise!IsNextTry, Abandoned, Failures
  <2>2. \A x \in Abandoned' : <<x, MaxRetries>> \in Failures' \/ x[2] \in interrupted'
    BY <2>1 DEF TriesInv
  <2>3. \A m \in 0 .. n : <<d, m>> \in Failures'
    <3>1. ASSUME n > 0 PROVE \A m \in 0 .. n - 1 : <<d, m>> \in Failures
      BY <2>1, <3>1 DEF TriesInv
    <3>2. \A m \in 0 .. n : m = n \/ (n > 0 /\ m \in 0 .. n - 1)
      BY OutputWorkerAssumption DEF MaxRetries
    <3>. QED
      BY <2>1, <3>1, <3>2
  <2>4. \A t \in Failures' : /\ t[2] \in 0 .. MaxRetries
                             /\ \A m \in 0 .. t[2] : <<t[1], m>> \in Failures'
    BY <2>1, <2>3 DEF TriesInv
  <2>. QED
    BY <2>2, <2>4 DEF TriesInv
<1>3. ASSUME NEW d, Promise!Succeed(d) PROVE TriesInv'
  <2>1. UNCHANGED <<Abandoned, Failures, interrupted>>
    BY <1>3 DEF Promise!Succeed, Abandoned, Failures
  <2>. QED
    BY <2>1 DEF TriesInv
<1>4. ASSUME NEW e, NEW to, Promise!Dispatch(e, to) PROVE TriesInv'
  <2>1. UNCHANGED <<Abandoned, Failures, interrupted>>
    BY <1>4 DEF Promise!Dispatch, Abandoned, Failures
  <2>. QED
    BY <2>1 DEF TriesInv
<1>5. CASE UNCHANGED Promise!vars
  <2>1. UNCHANGED <<Abandoned, Failures, interrupted>>
    BY <1>5 DEF Promise!vars, Abandoned, Failures
  <2>. QED
    BY <2>1 DEF TriesInv
<1>. QED
  BY <1>1, <1>2, <1>3, <1>4, <1>5 DEF Promise!Next

THEOREM EndsForAReasonHolds == Spec => []EndsForAReason
<1>1. Init => TriesInv
  BY DEF Init, TablesInit, TriesInv, Abandoned, Failures, Chains, Failed, Stored
<1>2. IInv /\ TriesInv /\ [Next]_vars => TriesInv'
  BY StepIsPromised, TriesKept
<1>3. TriesInv => EndsForAReason
  BY DEF TriesInv, EndsForAReason
<1>. QED
  BY <1>1, <1>2, <1>3, Invariant, PTL DEF Spec

(* However often units crash and transactions are lost, a delivery has at   *)
(* most 1 + MaxRetries rows.                                                *)
AttemptsAreBounded ==
  \A d \in Opened : /\ IsFiniteSet(ChainRows(d))
                    /\ Cardinality(ChainRows(d)) <= 1 + MaxRetries

THEOREM AttemptsAreBoundedHolds == Spec => []AttemptsAreBounded
<1>1. ASSUME IInv, NEW d \in Opened
      PROVE  IsFiniteSet(ChainRows(d)) /\ Cardinality(ChainRows(d)) <= 1 + MaxRetries
  <2>. DEFINE number == [a \in ChainRows(d) |-> request_attempt[a].retry_count]
  <2>1. \A a \in ChainRows(d) : request_attempt[a].retry_count \in 0 .. MaxRetries
    BY <1>1, StoredRows, OutputWorkerAssumption
       DEF IInv, RowsAreKnown, ChainRows, AttemptRow, MaxRetries
  <2>2. \A a, b \in ChainRows(d) :
          request_attempt[a].retry_count = request_attempt[b].retry_count => a = b
    BY <1>1 DEF IInv, ChainsAreLinear, ChainRows, SameChain
  <2>3. number \in Injection(ChainRows(d), 0 .. MaxRetries)
    BY <2>1, <2>2 DEF Injection, IsInjective
  <2>4. MaxRetries \in Nat
    BY OutputWorkerAssumption DEF MaxRetries
  <2>5. IsFiniteSet(0 .. MaxRetries) /\ Cardinality(0 .. MaxRetries) = 1 + MaxRetries
    BY <2>4, FS_Interval
  <2>. QED
    BY <2>3, <2>5, FS_Injection
<1>2. IInv => AttemptsAreBounded
  BY <1>1 DEF AttemptsAreBounded
<1>. QED
  BY <1>2, Invariant, PTL
=============================================================================
