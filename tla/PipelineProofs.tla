---------------------------- MODULE PipelineProofs ----------------------------
(***************************************************************************)
(* Safety of the delivery pipeline for any number of units, processes,     *)
(* subscriptions, events and attempts, and for any limits of retries that  *)
(* fit their integers.                                                     *)
(***************************************************************************)
EXTENDS Pipeline, FiniteSetTheorems, TLAPS

(* A unit has a job exactly while its transaction is open, and a retry only *)
(* between its decision and its commit.                                     *)
JobsAreOpen ==
  \A u \in Unit : /\ (pc[u] = "idle" <=> job[u] = NoRow)
                  /\ (pc[u] # "idle" => job[u] \in Pending)
                  /\ (retry[u] # NoRow => pc[u] = "decided")

JobsDiffer == \A u, v \in Unit : job[u] = job[v] /\ job[u] # NoRow => u = v

(* What a unit decided about row is still right when it commits. *)
DecisionFits(u, row) ==
  /\ retry[u] # NoRow =>
       /\ SameChain(retry[u], row)
       /\ retry[u].retry_count = row.retry_count + 1
       /\ retry[u].status = "pending"
       /\ row.retry_count < MaxRetries
  /\ retry[u] = NoRow =>
       row.retry_count >= MaxRetries \/ row.subscription \in interrupted

DecisionsFit ==
  \A u \in Unit : pc[u] = "decided" => DecisionFits(u, request_attempt[job[u]])

(* A row belongs to a dispatch that happened, of a subscription that exists. *)
RowsAreKnown ==
  \A a \in Stored :
    /\ request_attempt[a].dispatch <= event[request_attempt[a].event]
    /\ subscription[request_attempt[a].subscription] # NoRow
    /\ request_attempt[a].retry_count <= MaxRetries

InactiveWereInterrupted ==
  \A s \in Subscription : subscription[s] # NoRow /\ ~IsActive(s) => s \in interrupted

AnswersAreReal ==
  /\ SuccessWasAnswered
  /\ \A u \in Unit : pc[u] = "succeeded" => answers[job[u]] > 0

IInv ==
  /\ TypeOK
  /\ JobsAreOpen
  /\ JobsDiffer
  /\ DecisionsFit
  /\ RowsAreKnown
  /\ InactiveWereInterrupted
  /\ AnswersAreReal
  /\ ChainsAreLinear
  /\ ChainsDoNotBreakOff

-----------------------------------------------------------------------------
(* Rows, and what the writes of a transaction make of them.                 *)

LEMMA NoRowIsNone == NoRow \notin SubscriptionRow /\ NoRow \notin AttemptRow
                       /\ NoRow \notin RequestAttempt
  BY TablesAssumption

LEMMA StoredRows ==
  ASSUME TypeOK
  PROVE  /\ \A a \in Stored : request_attempt[a] \in AttemptRow
         /\ Pending \subseteq Stored /\ Failed \subseteq Stored /\ Succeeded \subseteq Stored
         /\ Stored \subseteq RequestAttempt
         /\ \A a \in Free : a \in RequestAttempt /\ request_attempt[a] = NoRow
  BY DEF TypeOK, TablesTypeOK, Stored, Pending, Failed, Succeeded, Free

LEMMA FirstAttemptFacts ==
  ASSUME TypeOK, NEW e \in Event, NEW s \in Subscription
  PROVE  /\ FirstAttempt(e, s) \in AttemptRow
         /\ ChainOf(FirstAttempt(e, s)) = <<e, s, event[e] + 1>>
         /\ FirstAttempt(e, s).retry_count = 0
         /\ FirstAttempt(e, s).status = "pending"
         /\ FirstAttempt(e, s).event = e
         /\ FirstAttempt(e, s).subscription = s
         /\ FirstAttempt(e, s).dispatch = event[e] + 1
<1>1. event[e] + 1 \in Nat /\ clock + 1 \in Nat
  BY DEF TypeOK, TablesTypeOK
<1>. QED
  BY <1>1 DEF FirstAttempt, AttemptRow, ChainOf

LEMMA RetryOfFacts ==
  ASSUME TypeOK, NEW row \in AttemptRow, NEW delay
  PROVE  /\ RetryOf(row, delay) \in AttemptRow
         /\ SameChain(RetryOf(row, delay), row)
         /\ RetryOf(row, delay).retry_count = row.retry_count + 1
         /\ RetryOf(row, delay).status = row.status
         /\ RetryOf(row, delay).subscription = row.subscription
<1>1. clock + 1 \in Nat /\ row.retry_count + 1 \in Nat /\ (delay = 0) \in BOOLEAN
  BY DEF TypeOK, TablesTypeOK, AttemptRow
<1>. QED
  BY <1>1 DEF RetryOf, AttemptRow, SameChain, ChainOf

(* Only the status of the unit's job changes.                               *)
LEMMA SettleFacts ==
  ASSUME TypeOK, NEW u \in Unit, job[u] \in Stored, NEW status \in {"succeeded", "failed"}
  PROVE  /\ Settle(u, status) \in [RequestAttempt -> AttemptRow \cup {NoRow}]
         /\ \A a \in RequestAttempt \ {job[u]} : Settle(u, status)[a] = request_attempt[a]
         /\ Settle(u, status)[job[u]] \in AttemptRow
         /\ SameChain(Settle(u, status)[job[u]], request_attempt[job[u]])
         /\ Settle(u, status)[job[u]].retry_count = request_attempt[job[u]].retry_count
         /\ Settle(u, status)[job[u]].status = status
<1>1. /\ request_attempt \in [RequestAttempt -> AttemptRow \cup {NoRow}]
      /\ job[u] \in RequestAttempt /\ request_attempt[job[u]] \in AttemptRow
  BY StoredRows DEF TypeOK, TablesTypeOK
<1>2. [request_attempt[job[u]] EXCEPT !.status = status] \in AttemptRow
  BY <1>1 DEF AttemptRow
<1>. QED
  BY <1>1, <1>2 DEF Settle, AttemptRow, SameChain, ChainOf

(* A dispatch stores the first attempts of new chains and keeps the rest.   *)
LEMMA DispatchFacts ==
  ASSUME TypeOK, NEW e \in Event, Dispatch(e)
  PROVE  /\ request_attempt' \in [RequestAttempt -> AttemptRow \cup {NoRow}]
         /\ event' \in [Event -> Nat] /\ clock' \in Nat
         /\ \A x \in Event : event'[x] >= event[x]
         /\ event'[e] = event[e] + 1
         /\ \A a \in Stored : request_attempt'[a] = request_attempt[a]
         /\ \E to : /\ \A a \in Stored' \ Stored :
                         /\ to[a] \in Matching(e)
                         /\ request_attempt'[a] = FirstAttempt(e, to[a])
                    /\ \A a, b \in Stored' \ Stored : to[a] = to[b] => a = b
         /\ \A s \in Matching(e) :
              \E a \in Stored' \ Stored : request_attempt'[a] = FirstAttempt(e, s)
         /\ event' = [event EXCEPT ![e] = @ + 1]
<1>1. PICK ids \in SUBSET Free : \E to \in Bijection(ids, Matching(e)) :
        /\ request_attempt' =
             [a \in RequestAttempt |->
                IF a \in ids THEN FirstAttempt(e, to[a]) ELSE request_attempt[a]]
        /\ event' = [event EXCEPT ![e] = @ + 1]
        /\ clock' = clock + 1
  BY DEF Dispatch
<1>2. PICK to \in Bijection(ids, Matching(e)) :
        /\ request_attempt' =
             [a \in RequestAttempt |->
                IF a \in ids THEN FirstAttempt(e, to[a]) ELSE request_attempt[a]]
        /\ event' = [event EXCEPT ![e] = @ + 1]
        /\ clock' = clock + 1
  BY <1>1
<1>3. /\ to \in [ids -> Matching(e)] /\ \A a, b \in ids : to[a] = to[b] => a = b
      /\ \A s \in Matching(e) : \E a \in ids : to[a] = s
  BY <1>2 DEF Bijection, Injection, Surjection, IsInjective
<1>4. Matching(e) \subseteq Subscription
  BY DEF Matching
<1>5. \A a \in ids : FirstAttempt(e, to[a]) \in AttemptRow
  BY <1>3, <1>4, FirstAttemptFacts
<1>6. /\ request_attempt' \in [RequestAttempt -> AttemptRow \cup {NoRow}]
      /\ \A a \in Stored : request_attempt'[a] = request_attempt[a]
      /\ Stored' \ Stored = ids
      /\ \A a \in ids : request_attempt'[a] = FirstAttempt(e, to[a])
  BY <1>2, <1>5, NoRowIsNone DEF TypeOK, TablesTypeOK, Stored, Free
<1>7. /\ event' \in [Event -> Nat] /\ clock' \in Nat
      /\ \A x \in Event : event'[x] >= event[x]
      /\ event'[e] = event[e] + 1
  BY <1>2 DEF TypeOK, TablesTypeOK
<1>8. \A s \in Matching(e) :
        \E a \in Stored' \ Stored : request_attempt'[a] = FirstAttempt(e, s)
  BY <1>3, <1>6
<1>. QED
  BY <1>2, <1>3, <1>6, <1>7, <1>8

-----------------------------------------------------------------------------
(* The types.  A commit and a retry need the unit's job to be a row.        *)

LEMMA TypeStep == TypeOK /\ JobsAreOpen /\ [Next]_vars => TypeOK'
<1> SUFFICES ASSUME TypeOK, JobsAreOpen, [Next]_vars PROVE TypeOK'
  OBVIOUS
<1> USE DEF TypeOK
<1>1. \A u \in Unit : pc[u] # "idle" =>
        job[u] \in Stored /\ job[u] \in RequestAttempt /\ request_attempt[job[u]] \in AttemptRow
  BY StoredRows DEF JobsAreOpen
<1>2. ASSUME NEW u \in Unit, Release(u)
      PROVE  /\ pc' \in [Unit -> {"idle", "picked", "succeeded", "failed", "decided"}]
             /\ job' \in [Unit -> RequestAttempt \cup {NoRow}]
             /\ retry' \in [Unit -> AttemptRow \cup {NoRow}]
  BY <1>2 DEF Release, WorkersTypeOK
<1>3. ASSUME NEW p \in Process, ReleaseProcess(p)
      PROVE  /\ pc' \in [Unit -> {"idle", "picked", "succeeded", "failed", "decided"}]
             /\ job' \in [Unit -> RequestAttempt \cup {NoRow}]
             /\ retry' \in [Unit -> AttemptRow \cup {NoRow}]
  BY <1>3 DEF ReleaseProcess, Reset, WorkersTypeOK
<1>4. ASSUME NEW u \in Unit, UnitStep(u), UNCHANGED api PROVE TypeOK'
  <2> USE <1>4 DEF api, ApiTypeOK
  <2>1. CASE Pick(u)
    BY <2>1 DEF Pick, Pickable, Pending, Stored, tables, TablesTypeOK, WorkersTypeOK
  <2>2. CASE CallSucceeds(u)
    <3>1. job[u] \in RequestAttempt
      BY <1>1, <2>2 DEF CallSucceeds, CallReturns
    <3>2. answers' \in [RequestAttempt -> Nat]
      BY <2>2, <3>1 DEF CallSucceeds, WorkersTypeOK
    <3>. QED
      BY <2>2, <3>2 DEF CallSucceeds, CallReturns, tables, TablesTypeOK, WorkersTypeOK
  <2>3. CASE CallFails(u)
    BY <2>3 DEF CallFails, CallReturns, tables, TablesTypeOK, WorkersTypeOK
  <2>4. CASE AnswerCannotBeStored(u)
    BY <1>2, <1>3, <2>4, OutputWorkerAssumption
       DEF AnswerCannotBeStored, tables, TablesTypeOK, WorkersTypeOK
  <2>5. CASE DecideRetry(u)
    <3>. DEFINE row == request_attempt[job[u]]
                delay == NextDelay(row.subscription, row.retry_count)
    <3>1. row \in AttemptRow
      BY <1>1, <2>5 DEF DecideRetry
    <3>2. RetryOf(row, delay) \in AttemptRow
      BY <3>1, RetryOfFacts
    <3>3. retry' \in [Unit -> AttemptRow \cup {NoRow}] /\ clock' \in Nat
      BY <2>5, <3>2 DEF DecideRetry, WorkersTypeOK, TablesTypeOK
    <3>. QED
      BY <2>5, <3>3 DEF DecideRetry, TablesTypeOK, WorkersTypeOK
  <2>6. CASE CommitSuccess(u)
    <3>1. request_attempt' \in [RequestAttempt -> AttemptRow \cup {NoRow}]
      BY <1>1, <2>6, SettleFacts DEF CommitSuccess
    <3>. QED
      BY <1>2, <2>6, <3>1 DEF CommitSuccess, TablesTypeOK, WorkersTypeOK
  <2>7. CASE CommitFailure(u)
    <3>1. Settle(u, "failed") \in [RequestAttempt -> AttemptRow \cup {NoRow}]
      BY <1>1, <2>7, SettleFacts DEF CommitFailure
    <3>2. retry[u] \in AttemptRow \cup {NoRow}
      BY DEF WorkersTypeOK
    <3>3. request_attempt' \in [RequestAttempt -> AttemptRow \cup {NoRow}]
      BY <2>7, <3>1, <3>2 DEF CommitFailure, Free
    <3>. QED
      BY <1>2, <2>7, <3>3 DEF CommitFailure, TablesTypeOK, WorkersTypeOK
  <2>. QED
    BY <1>4, <2>1, <2>2, <2>3, <2>4, <2>5, <2>6, <2>7 DEF UnitStep
<1>5. ASSUME NEW u \in Unit, Rollback(u), UNCHANGED api PROVE TypeOK'
  BY <1>2, <1>5 DEF Rollback, api, tables, TablesTypeOK, WorkersTypeOK, ApiTypeOK
<1>6. ASSUME NEW p \in Process, ProcessExit(p), UNCHANGED api PROVE TypeOK'
  BY <1>3, <1>6 DEF ProcessExit, api, tables, TablesTypeOK, WorkersTypeOK, ApiTypeOK
<1>7. ASSUME NEW a \in RequestAttempt, DelayElapses(a), UNCHANGED api PROVE TypeOK'
  <2>1. request_attempt[a] \in AttemptRow
    BY <1>7, StoredRows DEF DelayElapses
  <2>2. [request_attempt[a] EXCEPT !.due = TRUE] \in AttemptRow
    BY <2>1 DEF AttemptRow
  <2>3. request_attempt' \in [RequestAttempt -> AttemptRow \cup {NoRow}]
    BY <1>7, <2>2 DEF DelayElapses, TablesTypeOK
  <2>. QED
    BY <1>7, <2>3 DEF DelayElapses, api, workers, TablesTypeOK, WorkersTypeOK, ApiTypeOK
<1>8. ASSUME ApiNext, UNCHANGED workers PROVE TypeOK'
  <2> USE <1>8 DEF workers, WorkersTypeOK
  <2>1. ASSUME NEW r \in Request, Authorize(r) \/ Refuse(r) PROVE TypeOK'
    BY <2>1 DEF Authorize, Refuse, tables, TablesTypeOK, ApiTypeOK
  <2>2. ASSUME NEW op, NEW target, Take(op, target) PROVE granted' \subseteq Request
    BY <2>2 DEF Take, ApiTypeOK
  <2>3. ASSUME NEW e \in Event, Ingest(e) \/ Replay(e) PROVE TypeOK'
    BY <2>2, <2>3, DispatchFacts DEF Ingest, Replay, TablesTypeOK, ApiTypeOK
  <2>4. ASSUME NEW s \in Subscription, NEW body \in Body, Written(s, body)
        PROVE  /\ subscription' \in [Subscription -> SubscriptionRow \cup {NoRow}]
               /\ interrupted' \subseteq Subscription
    BY <2>4, EventApiAssumption DEF Written, SubscriptionRow, TablesTypeOK, ApiTypeOK
  <2>5. ASSUME NEW s \in Subscription, NEW body \in Body,
               CreateSubscription(s, body) \/ EditSubscription(s, body)
        PROVE  TypeOK'
    BY <2>2, <2>4, <2>5 DEF CreateSubscription, EditSubscription, TablesTypeOK, ApiTypeOK
  <2>6. ASSUME NEW s \in Subscription, DeleteSubscription(s) PROVE TypeOK'
    <3>1. CASE subscription[s] # NoRow
      <4>1. [subscription[s] EXCEPT !.deleted = TRUE] \in SubscriptionRow
        BY <3>1 DEF TablesTypeOK, SubscriptionRow
      <4>2. subscription' \in [Subscription -> SubscriptionRow \cup {NoRow}]
        BY <2>6, <3>1, <4>1 DEF DeleteSubscription, TablesTypeOK
      <4>. QED
        BY <2>2, <2>6, <3>1, <4>2 DEF DeleteSubscription, TablesTypeOK, ApiTypeOK
    <3>2. CASE subscription[s] = NoRow
      BY <2>2, <2>6, <3>2 DEF DeleteSubscription, TablesTypeOK, ApiTypeOK
    <3>. QED
      BY <3>1, <3>2
  <2>7. ASSUME NEW app \in Application, DeleteApplication(app) PROVE TypeOK'
    BY <2>2, <2>7 DEF DeleteApplication, TablesTypeOK, ApiTypeOK
  <2>. QED
    BY <2>1, <2>3, <2>5, <2>6, <2>7 DEF ApiNext
<1>9. CASE UNCHANGED vars
  BY <1>9 DEF vars, tables, workers, api, TablesTypeOK, WorkersTypeOK, ApiTypeOK
<1>. QED
  BY <1>4, <1>5, <1>6, <1>7, <1>8, <1>9 DEF Next, WorkersNext

-----------------------------------------------------------------------------
(* A unit's part of a step: nothing, the end of its transaction, or a move. *)
Still(u) == pc'[u] = pc[u] /\ job'[u] = job[u] /\ retry'[u] = retry[u]

Released(u) == pc'[u] = "idle" /\ job'[u] = NoRow /\ retry'[u] = NoRow

Moved(u) ==
  \/ pc[u] = "idle" /\ job'[u] \in Pending \ Locked /\ pc'[u] = "picked" /\ retry'[u] = retry[u]
  \/ /\ pc[u] = "picked" /\ job'[u] = job[u] /\ retry'[u] = retry[u]
     /\ pc'[u] = "failed" \/ (pc'[u] = "succeeded" /\ answers'[job[u]] > 0)
  \/ /\ pc[u] = "failed" /\ job'[u] = job[u] /\ pc'[u] = "decided"
     /\ DecisionFits(u, request_attempt[job[u]])'

(* What a step makes of the rows: nothing, new chains, or the settlement of *)
(* one unit's job.                                                          *)

RowsKept ==
  \A a \in Stored : /\ a \in Stored'
                    /\ SameChain(request_attempt'[a], request_attempt[a])
                    /\ request_attempt'[a].retry_count = request_attempt[a].retry_count

Becomes(stored, pending, failed, succeeded) ==
  /\ RowsKept
  /\ Stored' = stored /\ Pending' = pending /\ Failed' = failed /\ Succeeded' = succeeded

QuietRows == Becomes(Stored, Pending, Failed, Succeeded)

DispatchRows(e) ==
  /\ event'[e] = event[e] + 1
  /\ Becomes(Stored', Pending \cup (Stored' \ Stored), Failed, Succeeded)
  /\ \E to : /\ \A a \in Stored' \ Stored :
                /\ to[a] \in Matching(e)
                /\ request_attempt'[a] = FirstAttempt(e, to[a])
           /\ \A a, b \in Stored' \ Stored : to[a] = to[b] => a = b

SuccessRows(u) ==
  /\ pc[u] = "succeeded" /\ Released(u)
  /\ Becomes(Stored, Pending \ {job[u]}, Failed, Succeeded \cup {job[u]})

FailureRows(u) ==
  /\ pc[u] = "decided" /\ retry[u] = NoRow /\ Released(u)
  /\ Becomes(Stored, Pending \ {job[u]}, Failed \cup {job[u]}, Succeeded)

RetryRows(u, id) ==
  /\ pc[u] = "decided" /\ retry[u] # NoRow /\ Released(u)
  /\ id \in Free /\ request_attempt'[id] = retry[u]
  /\ Becomes(Stored \cup {id}, (Pending \ {job[u]}) \cup {id}, Failed \cup {job[u]}, Succeeded)

RowsStep ==
  \/ QuietRows
  \/ \E e \in Event : DispatchRows(e)
  \/ \E u \in Unit : SuccessRows(u) \/ FailureRows(u)
  \/ \E u \in Unit, id \in RequestAttempt : RetryRows(u, id)

LEMMA UnchangedRows ==
  ASSUME UNCHANGED request_attempt
  PROVE  QuietRows
  BY DEF QuietRows, Becomes, RowsKept, Stored, Pending, Failed, Succeeded, SameChain

LEMMA DelayRows ==
  ASSUME TypeOK, NEW a \in RequestAttempt, DelayElapses(a)
  PROVE  QuietRows
<1>1. request_attempt[a] \in AttemptRow /\ a \in Stored
  BY StoredRows DEF DelayElapses
<1>2. /\ request_attempt' \in [RequestAttempt -> AttemptRow \cup {NoRow}]
      /\ \A b \in RequestAttempt \ {a} : request_attempt'[b] = request_attempt[b]
      /\ request_attempt'[a] = [request_attempt[a] EXCEPT !.due = TRUE]
      /\ request_attempt'[a] \in AttemptRow
  BY <1>1 DEF DelayElapses, TypeOK, TablesTypeOK, AttemptRow
<1>3. /\ SameChain(request_attempt'[a], request_attempt[a])
      /\ request_attempt'[a].retry_count = request_attempt[a].retry_count
      /\ request_attempt'[a].status = request_attempt[a].status
      /\ request_attempt'[a] # NoRow
  BY <1>1, <1>2, NoRowIsNone DEF AttemptRow, SameChain, ChainOf
<1>4. Stored' = Stored
  BY <1>1, <1>2, <1>3 DEF Stored
<1>5. RowsKept
  BY <1>2, <1>3, <1>4 DEF RowsKept, SameChain, Stored
<1>6. \A b \in Stored : request_attempt'[b].status = request_attempt[b].status
  BY <1>2, <1>3 DEF Stored
<1>7. Pending' = Pending /\ Failed' = Failed /\ Succeeded' = Succeeded
  BY <1>4, <1>6 DEF Pending, Failed, Succeeded
<1>. QED
  BY <1>4, <1>5, <1>7 DEF QuietRows, Becomes

LEMMA DispatchedRows ==
  ASSUME TypeOK, NEW e \in Event, Dispatch(e)
  PROVE  DispatchRows(e)
<1>1. PICK to : /\ \A a \in Stored' \ Stored :
                     /\ to[a] \in Matching(e)
                     /\ request_attempt'[a] = FirstAttempt(e, to[a])
                /\ \A a, b \in Stored' \ Stored : to[a] = to[b] => a = b
  BY DispatchFacts
<1>2. \A a \in Stored : request_attempt'[a] = request_attempt[a]
  BY DispatchFacts
<1>3. Stored \subseteq Stored' /\ RowsKept
  BY <1>2 DEF Stored, RowsKept, SameChain
<1>4. \A a \in Stored' \ Stored : request_attempt'[a].status = "pending"
  BY <1>1, FirstAttemptFacts DEF Matching
<1>5. Pending' = Pending \cup (Stored' \ Stored) /\ Failed' = Failed /\ Succeeded' = Succeeded
  BY <1>2, <1>3, <1>4 DEF Pending, Failed, Succeeded
<1>. QED
  BY <1>1, <1>3, <1>5, DispatchFacts DEF DispatchRows, Becomes

LEMMA SettledRows ==
  ASSUME TypeOK, NEW u \in Unit, job[u] \in Pending, NEW status \in {"succeeded", "failed"},
         request_attempt' = Settle(u, status)
  PROVE  /\ RowsKept /\ Stored' = Stored /\ Pending' = Pending \ {job[u]}
         /\ Failed' = IF status = "failed" THEN Failed \cup {job[u]} ELSE Failed
         /\ Succeeded' = IF status = "succeeded" THEN Succeeded \cup {job[u]} ELSE Succeeded
<1>1. job[u] \in Stored /\ request_attempt[job[u]].status = "pending"
  BY DEF Pending
<1>2. /\ request_attempt' \in [RequestAttempt -> AttemptRow \cup {NoRow}]
      /\ \A a \in RequestAttempt \ {job[u]} : request_attempt'[a] = request_attempt[a]
      /\ request_attempt'[job[u]] # NoRow
      /\ SameChain(request_attempt'[job[u]], request_attempt[job[u]])
      /\ request_attempt'[job[u]].retry_count = request_attempt[job[u]].retry_count
      /\ request_attempt'[job[u]].status = status
  BY <1>1, SettleFacts, NoRowIsNone
<1>3. Stored' = Stored
  BY <1>1, <1>2 DEF Stored
<1>4. RowsKept
  BY <1>2, <1>3 DEF RowsKept, SameChain, Stored
<1>5. Pending' = Pending \ {job[u]}
  BY <1>1, <1>2, <1>3 DEF Pending, Stored
<1>6. Failed' = IF status = "failed" THEN Failed \cup {job[u]} ELSE Failed
  BY <1>1, <1>2, <1>3 DEF Failed, Stored
<1>7. Succeeded' = IF status = "succeeded" THEN Succeeded \cup {job[u]} ELSE Succeeded
  BY <1>1, <1>2, <1>3 DEF Succeeded, Stored
<1>. QED
  BY <1>3, <1>4, <1>5, <1>6, <1>7

LEMMA RetriedRows ==
  ASSUME TypeOK, NEW u \in Unit, job[u] \in Pending, NEW id \in Free,
         pc[u] = "decided", retry[u] # NoRow, retry[u].status = "pending", Released(u),
         request_attempt' = [Settle(u, "failed") EXCEPT ![id] = retry[u]]
  PROVE  RetryRows(u, id)
<1>1. job[u] \in Stored /\ request_attempt[job[u]].status = "pending"
  BY DEF Pending
<1>2. id \in RequestAttempt /\ id \notin Stored /\ id # job[u]
  BY <1>1 DEF Free
<1>3. /\ \A a \in RequestAttempt \ {job[u], id} : request_attempt'[a] = request_attempt[a]
      /\ request_attempt'[id] = retry[u]
      /\ request_attempt'[job[u]] # NoRow
      /\ SameChain(request_attempt'[job[u]], request_attempt[job[u]])
      /\ request_attempt'[job[u]].retry_count = request_attempt[job[u]].retry_count
      /\ request_attempt'[job[u]].status = "failed"
  BY <1>1, <1>2, SettleFacts, NoRowIsNone
<1>4. Stored' = Stored \cup {id}
  BY <1>1, <1>2, <1>3 DEF Stored
<1>5. RowsKept
  BY <1>2, <1>3, <1>4 DEF RowsKept, SameChain, Stored
<1>6. Pending' = (Pending \ {job[u]}) \cup {id}
  BY <1>1, <1>2, <1>3, <1>4 DEF Pending, Stored
<1>7. Failed' = Failed \cup {job[u]}
  BY <1>1, <1>2, <1>3, <1>4 DEF Failed, Stored
<1>8. Succeeded' = Succeeded
  BY <1>1, <1>2, <1>3, <1>4 DEF Succeeded, Stored
<1>. QED
  BY <1>3, <1>4, <1>5, <1>6, <1>7, <1>8 DEF RetryRows, Becomes

(* DecisionsFit tells that a retry is inserted pending.                     *)
LEMMA EveryRowsStep ==
  ASSUME TypeOK, JobsAreOpen, DecisionsFit, [Next]_vars
  PROVE  RowsStep
<1>0. ASSUME NEW u \in Unit, Release(u) PROVE Released(u)
  BY <1>0 DEF Release, Released, TypeOK, WorkersTypeOK
<1>1. ASSUME NEW u \in Unit, CommitSuccess(u) PROVE SuccessRows(u)
  BY <1>0, <1>1, SettledRows DEF CommitSuccess, SuccessRows, Becomes, JobsAreOpen
<1>2. ASSUME NEW u \in Unit, CommitFailure(u), retry[u] = NoRow PROVE FailureRows(u)
  BY <1>0, <1>2, SettledRows DEF CommitFailure, FailureRows, Becomes, JobsAreOpen
<1>3. ASSUME NEW u \in Unit, CommitFailure(u), retry[u] # NoRow
      PROVE  \E id \in RequestAttempt : RetryRows(u, id)
  <2>1. job[u] \in Pending /\ pc[u] = "decided" /\ retry[u].status = "pending"
    BY <1>3 DEF CommitFailure, JobsAreOpen, DecisionsFit, DecisionFits
  <2>2. PICK id \in Free : request_attempt' = [Settle(u, "failed") EXCEPT ![id] = retry[u]]
    BY <1>3 DEF CommitFailure
  <2>3. Released(u)
    BY <1>0, <1>3 DEF CommitFailure
  <2>. QED
    BY <1>3, <2>1, <2>2, <2>3, RetriedRows DEF Free
<1>4. ASSUME NEW u \in Unit, UnitStep(u) PROVE RowsStep
  BY <1>1, <1>2, <1>3, <1>4, UnchangedRows
     DEF UnitStep, Pick, CallSucceeds, CallFails, AnswerCannotBeStored, DecideRetry,
         tables, RowsStep
<1>5. ASSUME ApiNext PROVE RowsStep
  <2>1. ASSUME NEW e \in Event, Ingest(e) \/ Replay(e) PROVE RowsStep
    BY <2>1, DispatchedRows, UnchangedRows DEF Ingest, Replay, RowsStep
  <2>. QED
    BY <1>5, <2>1, UnchangedRows
       DEF ApiNext, Authorize, Refuse, CreateSubscription, EditSubscription, DeleteSubscription,
           DeleteApplication, tables, RowsStep
<1>6. ASSUME WorkersNext PROVE RowsStep
  BY <1>4, <1>6, UnchangedRows, DelayRows
     DEF WorkersNext, Rollback, ProcessExit, tables, RowsStep
<1>7. CASE UNCHANGED vars
  BY <1>7, UnchangedRows DEF vars, tables, RowsStep
<1>. QED
  BY <1>5, <1>6, <1>7 DEF Next

(* What is never taken back.                                                *)
Grows ==
  /\ \A e \in Event : event[e] <= event'[e]
  /\ \A s \in Subscription : subscription[s] # NoRow => subscription'[s] # NoRow
  /\ interrupted \subseteq interrupted'
  /\ \A a \in RequestAttempt : answers[a] <= answers'[a]

LEMMA EveryStepGrows ==
  ASSUME TypeOK, [Next]_vars
  PROVE  Grows
<1>. USE DEF Grows
<1>1. ASSUME UNCHANGED event PROVE \A e \in Event : event[e] <= event'[e]
  BY <1>1 DEF TypeOK, TablesTypeOK
<1>0. ASSUME UNCHANGED answers PROVE \A a \in RequestAttempt : answers[a] <= answers'[a]
  BY <1>0 DEF TypeOK, WorkersTypeOK
<1>2. ASSUME NEW e \in Event, Ingest(e) \/ Replay(e), UNCHANGED workers PROVE Grows
  BY <1>0, <1>1, <1>2, DispatchFacts DEF Ingest, Replay, workers
<1>3. ASSUME NEW s \in Subscription, NEW body \in Body, Written(s, body)
      PROVE  /\ \A x \in Subscription : subscription[x] # NoRow => subscription'[x] # NoRow
             /\ interrupted \subseteq interrupted'
  <2>1. subscription'[s] \in SubscriptionRow
    BY <1>3, EventApiAssumption DEF Written, SubscriptionRow, TypeOK, TablesTypeOK
  <2>. QED
    BY <1>3, <2>1, NoRowIsNone DEF Written, TypeOK, TablesTypeOK
<1>4. ASSUME NEW s \in Subscription, NEW body \in Body,
             CreateSubscription(s, body) \/ EditSubscription(s, body), UNCHANGED workers
      PROVE  Grows
  BY <1>0, <1>1, <1>3, <1>4 DEF CreateSubscription, EditSubscription, workers
<1>5. ASSUME NEW s \in Subscription, DeleteSubscription(s), UNCHANGED workers PROVE Grows
  <2>1. CASE subscription[s] # NoRow
    <3>1. subscription'[s] \in SubscriptionRow
      BY <1>5, <2>1 DEF DeleteSubscription, SubscriptionRow, TypeOK, TablesTypeOK
    <3>. QED
      BY <1>0, <1>1, <1>5, <2>1, <3>1, NoRowIsNone
         DEF DeleteSubscription, TypeOK, TablesTypeOK, workers
  <2>. QED
    BY <1>0, <1>1, <1>5, <2>1 DEF DeleteSubscription, workers
<1>6. ASSUME ApiNext, UNCHANGED workers PROVE Grows
  BY <1>0, <1>1, <1>2, <1>4, <1>5, <1>6
     DEF ApiNext, Authorize, Refuse, DeleteApplication, tables, workers
<1>7. ASSUME WorkersNext, UNCHANGED api PROVE Grows
  <2>1. UNCHANGED <<event, subscription>>
    BY <1>7 DEF WorkersNext, UnitStep, Pick, CallSucceeds, CallFails, AnswerCannotBeStored,
                DecideRetry, CommitSuccess, CommitFailure, Rollback, ProcessExit,
                DelayElapses, tables
  <2>2. ASSUME NEW u \in Unit, CallSucceeds(u)
        PROVE  \A a \in RequestAttempt : answers[a] <= answers'[a]
    BY <2>2 DEF CallSucceeds, TypeOK, WorkersTypeOK
  <2>3. UNCHANGED answers \/ \E u \in Unit : CallSucceeds(u)
    BY <1>7 DEF WorkersNext, UnitStep, Pick, CallFails, AnswerCannotBeStored, DecideRetry,
                CommitSuccess, CommitFailure, Rollback, ProcessExit, DelayElapses, workers
  <2>. QED
    BY <1>0, <1>1, <1>7, <2>1, <2>2, <2>3 DEF api
<1>8. CASE UNCHANGED vars
  BY <1>0, <1>1, <1>8 DEF vars, tables, workers, api
<1>. QED
  BY <1>6, <1>7, <1>8 DEF Next

-----------------------------------------------------------------------------
(* The chains.                                                              *)

LEMMA LinearRows ==
  ASSUME TypeOK, ChainsAreLinear,
         NEW a \in Pending, NEW b \in Stored, b # a,
         SameChain(request_attempt[b], request_attempt[a])
  PROVE  b \in Failed /\ request_attempt[b].retry_count < request_attempt[a].retry_count
<1>1. a \in Stored /\ a \notin Failed
  BY DEF Pending, Failed
<1>2. request_attempt[a].retry_count \in Nat /\ request_attempt[b].retry_count \in Nat
  BY <1>1, StoredRows DEF AttemptRow
<1>3. SameChain(request_attempt[a], request_attempt[b])
  BY DEF SameChain
<1>4. /\ request_attempt[b].retry_count # request_attempt[a].retry_count
      /\ request_attempt[b].retry_count < request_attempt[a].retry_count => b \in Failed
      /\ request_attempt[a].retry_count < request_attempt[b].retry_count => a \in Failed
  BY <1>1, <1>3 DEF ChainsAreLinear
<1>. QED
  BY <1>1, <1>2, <1>4

(* Rows that are kept stay in line; new rows have to fit in.                *)
LEMMA LinearKept ==
  ASSUME TypeOK, ChainsAreLinear, RowsKept, Failed \subseteq Failed',
         \A a \in Stored' \ Stored :
           /\ request_attempt'[a].retry_count > 0 =>
                \E b \in Failed' :
                  /\ SameChain(request_attempt'[b], request_attempt'[a])
                  /\ request_attempt'[b].retry_count = request_attempt'[a].retry_count - 1
           /\ \A b \in Stored' \ {a} :
                SameChain(request_attempt'[b], request_attempt'[a]) =>
                  /\ b \in Failed'
                  /\ request_attempt'[b].retry_count < request_attempt'[a].retry_count,
         TypeOK'
  PROVE  ChainsAreLinear'
<1>1. \A a \in Stored' : request_attempt'[a].retry_count \in Nat
  BY DEF TypeOK, TablesTypeOK, Stored, AttemptRow
<1>2. ASSUME NEW a \in Stored, NEW b \in Stored
      PROVE  SameChain(request_attempt'[b], request_attempt'[a])
               <=> SameChain(request_attempt[b], request_attempt[a])
  BY DEF RowsKept, SameChain
<1>3. ASSUME NEW a \in Stored', request_attempt'[a].retry_count > 0
      PROVE  \E b \in Failed' :
               /\ SameChain(request_attempt'[b], request_attempt'[a])
               /\ request_attempt'[b].retry_count = request_attempt'[a].retry_count - 1
  <2>1. CASE a \in Stored
    <3>1. PICK b \in Failed : /\ SameChain(request_attempt[b], request_attempt[a])
                              /\ request_attempt[b].retry_count = request_attempt[a].retry_count - 1
      BY <1>3, <2>1 DEF ChainsAreLinear, RowsKept
    <3>. QED
      BY <1>2, <2>1, <3>1 DEF RowsKept, Failed
  <2>. QED
    BY <1>3, <2>1
<1>4. ASSUME NEW a \in Stored', NEW b \in Stored' \ {a},
             SameChain(request_attempt'[b], request_attempt'[a])
      PROVE  /\ request_attempt'[b].retry_count # request_attempt'[a].retry_count
             /\ request_attempt'[b].retry_count < request_attempt'[a].retry_count => b \in Failed'
  <2>1. SameChain(request_attempt'[a], request_attempt'[b])
    BY <1>4 DEF SameChain
  <2>2. CASE a \notin Stored
    BY <1>1, <1>4, <2>2
  <2>3. CASE b \notin Stored
    <3>1. request_attempt'[a].retry_count < request_attempt'[b].retry_count
      BY <1>4, <2>1, <2>3
    <3>. QED
      BY <1>1, <1>4, <3>1
  <2>4. CASE a \in Stored /\ b \in Stored
    <3>1. SameChain(request_attempt[b], request_attempt[a])
      BY <1>2, <1>4, <2>4
    <3>2. /\ request_attempt[b].retry_count # request_attempt[a].retry_count
          /\ request_attempt[b].retry_count < request_attempt[a].retry_count => b \in Failed
      BY <1>4, <2>4, <3>1 DEF ChainsAreLinear
    <3>. QED
      BY <2>4, <3>2 DEF RowsKept
  <2>. QED
    BY <2>2, <2>3, <2>4
<1>. QED
  BY <1>3, <1>4 DEF ChainsAreLinear

LEMMA LinearStep ==
  ASSUME TypeOK, TypeOK', JobsAreOpen, DecisionsFit, RowsAreKnown, ChainsAreLinear, RowsStep
  PROVE  ChainsAreLinear'
<1>1. CASE QuietRows
  BY <1>1, LinearKept DEF QuietRows, Becomes
<1>2. ASSUME NEW e \in Event, DispatchRows(e) PROVE ChainsAreLinear'
  <2>1. PICK to : /\ \A a \in Stored' \ Stored :
                       /\ to[a] \in Matching(e)
                       /\ request_attempt'[a] = FirstAttempt(e, to[a])
                  /\ \A a, b \in Stored' \ Stored : to[a] = to[b] => a = b
    BY <1>2 DEF DispatchRows
  <2>2. ASSUME NEW a \in Stored' \ Stored
        PROVE  /\ ChainOf(request_attempt'[a]) = <<e, to[a], event[e] + 1>>
               /\ request_attempt'[a].retry_count = 0
    BY <2>1, <2>2, FirstAttemptFacts DEF Matching
  <2>3. ASSUME NEW a \in Stored' \ Stored, NEW b \in Stored' \ {a},
               SameChain(request_attempt'[b], request_attempt'[a])
        PROVE  FALSE
    <3>1. ChainOf(request_attempt'[b]) = <<e, to[a], event[e] + 1>>
      BY <2>2, <2>3 DEF SameChain
    <3>2. CASE b \in Stored
      <4>1. ChainOf(request_attempt[b]) = <<e, to[a], event[e] + 1>>
        BY <1>2, <3>1, <3>2 DEF DispatchRows, Becomes, RowsKept, SameChain
      <4>2. request_attempt[b].event = e /\ request_attempt[b].dispatch = event[e] + 1
        BY <4>1 DEF ChainOf
      <4>3. event[e] + 1 <= event[e]
        BY <3>2, <4>2 DEF RowsAreKnown
      <4>. QED
        BY <4>3 DEF TypeOK, TablesTypeOK
    <3>3. CASE b \notin Stored
      <4>1. ChainOf(request_attempt'[b]) = <<e, to[b], event[e] + 1>>
        BY <2>2, <3>3
      <4>. QED
        BY <2>1, <2>3, <3>1, <3>3, <4>1
    <3>. QED
      BY <3>2, <3>3
  <2>. QED
    BY <1>2, <2>2, <2>3, LinearKept DEF DispatchRows, Becomes
<1>3. ASSUME NEW u \in Unit, SuccessRows(u) PROVE ChainsAreLinear'
  BY <1>3, LinearKept DEF SuccessRows, Becomes
<1>4. ASSUME NEW u \in Unit, FailureRows(u) PROVE ChainsAreLinear'
  BY <1>4, LinearKept DEF FailureRows, Becomes
<1>5. ASSUME NEW u \in Unit, NEW id \in RequestAttempt, RetryRows(u, id) PROVE ChainsAreLinear'
  <2>1. /\ RowsKept /\ Stored' = Stored \cup {id} /\ Failed' = Failed \cup {job[u]}
        /\ request_attempt'[id] = retry[u] /\ id \notin Stored
    BY <1>5 DEF RetryRows, Becomes, Free
  <2>2. job[u] \in Pending /\ job[u] \in Stored
    BY <1>5 DEF RetryRows, JobsAreOpen, Pending
  <2>3. /\ SameChain(request_attempt'[id], request_attempt[job[u]])
        /\ request_attempt'[id].retry_count = request_attempt[job[u]].retry_count + 1
    BY <1>5, <2>1 DEF RetryRows, DecisionsFit, DecisionFits
  <2>4. request_attempt[job[u]].retry_count \in Nat
    BY <2>2, StoredRows DEF AttemptRow
  <2>5. /\ SameChain(request_attempt'[job[u]], request_attempt'[id])
        /\ request_attempt'[job[u]].retry_count = request_attempt[job[u]].retry_count
    BY <2>1, <2>2, <2>3 DEF RowsKept, SameChain
  <2>6. ASSUME NEW b \in Stored' \ {id}, SameChain(request_attempt'[b], request_attempt'[id])
        PROVE  b \in Failed' /\ request_attempt'[b].retry_count < request_attempt'[id].retry_count
    <3>1. CASE b = job[u]
      BY <2>1, <2>3, <2>4, <2>5, <3>1
    <3>2. CASE b # job[u]
      <4>1. b \in Stored /\ SameChain(request_attempt[b], request_attempt[job[u]])
        BY <2>1, <2>3, <2>6 DEF RowsKept, SameChain
      <4>2. b \in Failed /\ request_attempt[b].retry_count < request_attempt[job[u]].retry_count
        BY <2>2, <3>2, <4>1, LinearRows
      <4>3. request_attempt[b].retry_count \in Nat /\ request_attempt'[b].retry_count = request_attempt[b].retry_count
        BY <2>1, <4>1, StoredRows DEF AttemptRow, RowsKept
      <4>. QED
        BY <2>1, <2>3, <2>4, <4>2, <4>3
    <3>. QED
      BY <3>1, <3>2
  <2>7. \E b \in Failed' :
          /\ SameChain(request_attempt'[b], request_attempt'[id])
          /\ request_attempt'[b].retry_count = request_attempt'[id].retry_count - 1
    BY <2>1, <2>3, <2>4, <2>5
  <2>. QED
    BY <2>1, <2>6, <2>7, LinearKept
<1>. QED
  BY <1>1, <1>2, <1>3, <1>4, <1>5 DEF RowsStep

LEMMA UnbrokenStep ==
  ASSUME TypeOK, JobsAreOpen, DecisionsFit, ChainsDoNotBreakOff, RowsStep, Grows
  PROVE  ChainsDoNotBreakOff'
<1>1. RowsKept
  BY DEF RowsStep, QuietRows, DispatchRows, SuccessRows, FailureRows, RetryRows, Becomes
<1>2. ASSUME NEW a \in Failed,
             request_attempt'[a].retry_count < MaxRetries,
             request_attempt'[a].subscription \notin interrupted'
      PROVE  \E b \in Stored' : /\ SameChain(request_attempt'[b], request_attempt'[a])
                                /\ request_attempt'[b].retry_count = request_attempt'[a].retry_count + 1
  <2>1. /\ a \in Stored /\ SameChain(request_attempt'[a], request_attempt[a])
        /\ request_attempt'[a].retry_count = request_attempt[a].retry_count
    BY <1>1 DEF RowsKept, Failed
  <2>2. request_attempt'[a].subscription = request_attempt[a].subscription
    BY <2>1 DEF SameChain, ChainOf
  <2>3. PICK b \in Stored : /\ SameChain(request_attempt[b], request_attempt[a])
                            /\ request_attempt[b].retry_count = request_attempt[a].retry_count + 1
    BY <1>2, <2>1, <2>2 DEF ChainsDoNotBreakOff, Grows
  <2>. QED
    BY <1>1, <2>1, <2>3 DEF RowsKept, SameChain
<1>3. ASSUME NEW u \in Unit, FailureRows(u),
             request_attempt'[job[u]].retry_count < MaxRetries,
             request_attempt'[job[u]].subscription \notin interrupted'
      PROVE  FALSE
  <2>1. /\ job[u] \in Stored
        /\ SameChain(request_attempt'[job[u]], request_attempt[job[u]])
        /\ request_attempt'[job[u]].retry_count = request_attempt[job[u]].retry_count
    BY <1>1, <1>3 DEF FailureRows, JobsAreOpen, Pending, RowsKept
  <2>2. request_attempt'[job[u]].subscription = request_attempt[job[u]].subscription
    BY <2>1 DEF SameChain, ChainOf
  <2>3. request_attempt[job[u]].retry_count >= MaxRetries
    BY <1>3, <2>2 DEF FailureRows, DecisionsFit, DecisionFits, Grows
  <2>4. request_attempt[job[u]].retry_count \in Nat /\ MaxRetries \in Nat
    BY <2>1, StoredRows, OutputWorkerAssumption DEF AttemptRow, MaxRetries
  <2>. QED
    BY <1>3, <2>1, <2>3, <2>4
<1>4. ASSUME NEW u \in Unit, NEW id \in RequestAttempt, RetryRows(u, id)
      PROVE  \E b \in Stored' :
               /\ SameChain(request_attempt'[b], request_attempt'[job[u]])
               /\ request_attempt'[b].retry_count = request_attempt'[job[u]].retry_count + 1
  <2>1. id \in Stored' /\ request_attempt'[id] = retry[u]
    BY <1>4 DEF RetryRows, Becomes
  <2>2. job[u] \in Stored
    BY <1>4 DEF RetryRows, JobsAreOpen, Pending
  <2>3. /\ SameChain(retry[u], request_attempt[job[u]])
        /\ retry[u].retry_count = request_attempt[job[u]].retry_count + 1
    BY <1>4 DEF RetryRows, DecisionsFit, DecisionFits
  <2>. QED
    BY <1>1, <2>1, <2>2, <2>3 DEF RowsKept, SameChain
<1>5. \/ Failed' = Failed
      \/ \E u \in Unit : FailureRows(u) /\ Failed' = Failed \cup {job[u]}
      \/ \E u \in Unit, id \in RequestAttempt : RetryRows(u, id) /\ Failed' = Failed \cup {job[u]}
  BY DEF RowsStep, QuietRows, DispatchRows, SuccessRows, FailureRows, RetryRows, Becomes
<1>. QED
  BY <1>2, <1>3, <1>4, <1>5 DEF ChainsDoNotBreakOff

LEMMA KnownStep ==
  ASSUME TypeOK, TypeOK', JobsAreOpen, DecisionsFit, RowsAreKnown, RowsStep, Grows
  PROVE  RowsAreKnown'
<1>. DEFINE Known(a) == /\ request_attempt'[a].dispatch <= event'[request_attempt'[a].event]
                        /\ subscription'[request_attempt'[a].subscription] # NoRow
                        /\ request_attempt'[a].retry_count <= MaxRetries
<1>1. RowsKept
  BY DEF RowsStep, QuietRows, DispatchRows, SuccessRows, FailureRows, RetryRows, Becomes
<1>2. ASSUME NEW a \in Stored, NEW b \in Stored',
             SameChain(request_attempt'[b], request_attempt[a]),
             request_attempt'[b].retry_count <= MaxRetries
      PROVE  Known(b)
  <2>1. /\ request_attempt'[b].event = request_attempt[a].event
        /\ request_attempt'[b].subscription = request_attempt[a].subscription
        /\ request_attempt'[b].dispatch = request_attempt[a].dispatch
    BY <1>2 DEF SameChain, ChainOf
  <2>2. /\ request_attempt[a].event \in Event
        /\ request_attempt[a].subscription \in Subscription
        /\ request_attempt[a].dispatch \in Nat
    BY StoredRows DEF AttemptRow
  <2>3. /\ event[request_attempt[a].event] \in Nat
        /\ event'[request_attempt[a].event] \in Nat
    BY <2>2 DEF TypeOK, TablesTypeOK
  <2>. QED
    BY <1>2, <2>1, <2>2, <2>3 DEF RowsAreKnown, Grows
<1>3. ASSUME NEW a \in Stored PROVE Known(a)
  BY <1>1, <1>2 DEF RowsKept, RowsAreKnown
<1>4. ASSUME NEW e \in Event, DispatchRows(e), NEW a \in Stored' \ Stored PROVE Known(a)
  <2>1. PICK s \in Matching(e) : request_attempt'[a] = FirstAttempt(e, s)
    BY <1>4 DEF DispatchRows
  <2>2. s \in Subscription /\ subscription[s] # NoRow
    BY DEF Matching, IsActive
  <2>3. event'[e] = event[e] + 1 /\ event'[e] \in Nat
    BY <1>4 DEF DispatchRows, TypeOK, TablesTypeOK
  <2>4. 0 <= MaxRetries
    BY OutputWorkerAssumption DEF MaxRetries
  <2>. QED
    BY <2>1, <2>2, <2>3, <2>4, FirstAttemptFacts DEF Grows
<1>5. ASSUME NEW u \in Unit, NEW id \in RequestAttempt, RetryRows(u, id) PROVE Known(id)
  <2>1. id \in Stored' /\ request_attempt'[id] = retry[u]
    BY <1>5 DEF RetryRows, Becomes
  <2>2. job[u] \in Stored
    BY <1>5 DEF RetryRows, JobsAreOpen, Pending
  <2>3. /\ SameChain(retry[u], request_attempt[job[u]])
        /\ retry[u].retry_count = request_attempt[job[u]].retry_count + 1
        /\ request_attempt[job[u]].retry_count < MaxRetries
    BY <1>5 DEF RetryRows, DecisionsFit, DecisionFits
  <2>4. request_attempt[job[u]].retry_count \in Nat /\ MaxRetries \in Nat
    BY <2>2, StoredRows, OutputWorkerAssumption DEF AttemptRow, MaxRetries
  <2>5. retry[u].retry_count <= MaxRetries
    BY <2>3, <2>4
  <2>. QED
    BY <1>2, <2>1, <2>2, <2>3, <2>5
<1>6. \/ Stored' = Stored
      \/ \E e \in Event : DispatchRows(e)
      \/ \E u \in Unit, id \in RequestAttempt : RetryRows(u, id) /\ Stored' = Stored \cup {id}
  BY DEF RowsStep, QuietRows, SuccessRows, FailureRows, RetryRows, Becomes
<1>7. \A a \in Stored' : Known(a)
  BY <1>3, <1>4, <1>5, <1>6
<1>. QED
  BY <1>7 DEF RowsAreKnown

LEMMA InterruptedStep ==
  ASSUME TypeOK, InactiveWereInterrupted, [Next]_vars
  PROVE  InactiveWereInterrupted'
<1>1. CASE UNCHANGED <<subscription, interrupted>>
  BY <1>1 DEF InactiveWereInterrupted, IsActive
<1>2. ASSUME NEW s \in Subscription, NEW body \in Body, Written(s, body)
      PROVE  InactiveWereInterrupted'
  <2>1. /\ subscription'[s].is_enabled = body.is_enabled /\ ~subscription'[s].deleted
        /\ \A x \in Subscription \ {s} : subscription'[x] = subscription[x]
    BY <1>2 DEF Written, TypeOK, TablesTypeOK
  <2>2. interrupted \subseteq interrupted' /\ (~body.is_enabled => s \in interrupted')
    BY <1>2 DEF Written
  <2>. QED
    BY <2>1, <2>2 DEF InactiveWereInterrupted, IsActive
<1>3. ASSUME NEW s \in Subscription, DeleteSubscription(s) PROVE InactiveWereInterrupted'
  BY <1>1, <1>3 DEF DeleteSubscription, InactiveWereInterrupted, IsActive, TypeOK, TablesTypeOK
<1>4. ASSUME ApiNext PROVE InactiveWereInterrupted'
  BY <1>1, <1>2, <1>3, <1>4
     DEF ApiNext, Authorize, Refuse, Ingest, Replay, CreateSubscription, EditSubscription,
         DeleteApplication, tables
<1>5. ASSUME WorkersNext, UNCHANGED api PROVE InactiveWereInterrupted'
  BY <1>1, <1>5
     DEF WorkersNext, UnitStep, Pick, CallSucceeds, CallFails, AnswerCannotBeStored,
         DecideRetry, CommitSuccess, CommitFailure, Rollback, ProcessExit, DelayElapses,
         tables, api
<1>6. CASE UNCHANGED vars
  BY <1>1, <1>6 DEF vars, tables, api
<1>. QED
  BY <1>4, <1>5, <1>6 DEF Next

-----------------------------------------------------------------------------
(* The units.                                                               *)

(* The policy gives up exactly when the retries are used up: the limits are *)
(* small enough for their sum not to wrap.                                  *)
LEMMA PolicyDecides ==
  ASSUME NEW n \in Nat
  PROVE  compute_next_retry_duration(MaxFastRetries, MaxSlowRetries, n) = GiveUp <=> n >= MaxRetries
<1>1. MaxFastRetries \in Nat /\ MaxSlowRetries \in Nat /\ U32Modulus \in Nat \ {0}
  BY OutputWorkerAssumption, WidthAssumption
<1>2. U32Add(MaxFastRetries, MaxSlowRetries) = MaxFastRetries + MaxSlowRetries
  BY <1>1, OutputWorkerAssumption DEF U32Add, MaxRetries
<1>3. FastRetryDelay(n) # GiveUp
  BY DEF FastRetryDelay, GiveUp, MINIMUM_FAST_RETRY_DELAY, MAXIMUM_FAST_RETRY_DELAY
<1>. QED
  BY <1>1, <1>2, <1>3 DEF compute_next_retry_duration, GiveUp, SLOW_RETRY_DELAY, MaxRetries

LEMMA Deciding ==
  ASSUME TypeOK, JobsAreOpen, RowsAreKnown, InactiveWereInterrupted,
         NEW u \in Unit, DecideRetry(u), UNCHANGED api
  PROVE  /\ retry' \in [Unit -> AttemptRow \cup {NoRow}]
         /\ \A v \in Unit \ {u} : retry'[v] = retry[v]
         /\ DecisionFits(u, request_attempt[job[u]])'
<1>. DEFINE row == request_attempt[job[u]]
            delay == NextDelay(row.subscription, row.retry_count)
<1>1. /\ pc[u] = "failed" /\ job[u] \in Pending /\ job[u] \in Stored
      /\ row \in AttemptRow /\ row.status = "pending" /\ retry[u] = NoRow
  BY StoredRows DEF DecideRetry, JobsAreOpen, Pending
<1>2. row.retry_count \in Nat /\ row.subscription \in Subscription
  BY <1>1 DEF AttemptRow
<1>3. UNCHANGED <<request_attempt, job, interrupted>>
  BY DEF DecideRetry, api
<1>4. retry \in [Unit -> AttemptRow \cup {NoRow}]
  BY DEF TypeOK, WorkersTypeOK
<1>5. CASE delay # GiveUp
  <2>1. retry' = [retry EXCEPT ![u] = RetryOf(row, delay)]
    BY <1>5 DEF DecideRetry
  <2>2. RetryOf(row, delay) \in AttemptRow /\ RetryOf(row, delay) # NoRow
    BY <1>1, RetryOfFacts, NoRowIsNone
  <2>3. IsActive(row.subscription) /\ ~(row.retry_count >= MaxRetries)
    BY <1>2, <1>5, PolicyDecides DEF NextDelay
  <2>4. row.retry_count < MaxRetries
    BY <1>2, <2>3, OutputWorkerAssumption DEF MaxRetries
  <2>5. /\ SameChain(RetryOf(row, delay), row)
        /\ RetryOf(row, delay).retry_count = row.retry_count + 1
        /\ RetryOf(row, delay).status = "pending"
    BY <1>1, RetryOfFacts
  <2>6. retry'[u] = RetryOf(row, delay) /\ request_attempt'[job'[u]] = row
    BY <1>3, <1>4, <2>1
  <2>7. DecisionFits(u, request_attempt[job[u]])'
    BY <2>2, <2>4, <2>5, <2>6 DEF DecisionFits, SameChain
  <2>. QED
    BY <1>4, <2>1, <2>2, <2>7
<1>6. CASE delay = GiveUp
  <2>1. retry' = retry
    BY <1>6 DEF DecideRetry
  <2>2. row.retry_count >= MaxRetries \/ row.subscription \in interrupted
    <3>1. CASE IsActive(row.subscription)
      BY <1>2, <1>6, <3>1, PolicyDecides DEF NextDelay
    <3>2. CASE ~IsActive(row.subscription)
      BY <1>1, <1>2, <3>2 DEF RowsAreKnown, InactiveWereInterrupted
    <3>. QED
      BY <3>1, <3>2
  <2>. QED
    BY <1>1, <1>3, <1>4, <2>1, <2>2 DEF DecisionFits
<1>. QED
  BY <1>5, <1>6

LEMMA UnitMoves ==
  ASSUME TypeOK, JobsAreOpen, RowsAreKnown, InactiveWereInterrupted,
         NEW u \in Unit, UnitStep(u), UNCHANGED api
  PROVE  /\ \A v \in Unit \ {u} : Still(v) \/ Released(v)
         /\ Moved(u) \/ Released(u)
<1>1. /\ pc \in [Unit -> {"idle", "picked", "succeeded", "failed", "decided"}]
      /\ job \in [Unit -> RequestAttempt \cup {NoRow}]
      /\ retry \in [Unit -> AttemptRow \cup {NoRow}]
  BY DEF TypeOK, WorkersTypeOK
<1>2. ASSUME Release(u) PROVE Released(u) /\ \A v \in Unit \ {u} : Still(v)
  BY <1>1, <1>2 DEF Release, Released, Still
<1>3. ASSUME ReleaseProcess(ProcessOf[u])
      PROVE  Released(u) /\ \A v \in Unit \ {u} : Still(v) \/ Released(v)
  BY <1>3 DEF ReleaseProcess, Reset, Released, Still
<1>4. CASE Pick(u)
  <2>1. job'[u] \in Pending \ Locked /\ \A v \in Unit \ {u} : job'[v] = job[v]
    BY <1>1, <1>4 DEF Pick, Pickable
  <2>. QED
    BY <1>1, <1>4, <2>1 DEF Pick, Moved, Still
<1>5. CASE CallSucceeds(u)
  <2>1. job[u] \in RequestAttempt
    BY <1>5, StoredRows DEF CallSucceeds, CallReturns, JobsAreOpen
  <2>2. answers'[job[u]] > 0
    BY <1>5, <2>1 DEF CallSucceeds, TypeOK, WorkersTypeOK
  <2>. QED
    BY <1>1, <1>5, <2>2 DEF CallSucceeds, CallReturns, Moved, Still
<1>6. CASE CallFails(u)
  BY <1>1, <1>6 DEF CallFails, CallReturns, Moved, Still
<1>7. CASE DecideRetry(u)
  <2>1. DecisionFits(u, request_attempt[job[u]])' /\ \A v \in Unit \ {u} : retry'[v] = retry[v]
    BY <1>7, Deciding
  <2>2. /\ pc[u] = "failed" /\ pc' = [pc EXCEPT ![u] = "decided"] /\ job' = job
    BY <1>7 DEF DecideRetry
  <2>. QED
    BY <1>1, <2>1, <2>2 DEF Moved, Still
<1>8. CASE AnswerCannotBeStored(u)
  BY <1>2, <1>3, <1>8 DEF AnswerCannotBeStored
<1>9. CASE CommitSuccess(u)
  BY <1>2, <1>9 DEF CommitSuccess
<1>10. CASE CommitFailure(u)
  BY <1>2, <1>10 DEF CommitFailure
<1>. QED
  BY <1>4, <1>5, <1>6, <1>7, <1>8, <1>9, <1>10 DEF UnitStep

LEMMA EveryUnitMoves ==
  ASSUME TypeOK, JobsAreOpen, RowsAreKnown, InactiveWereInterrupted, [Next]_vars
  PROVE  \/ \A v \in Unit : Still(v) \/ Released(v)
         \/ \E u \in Unit : Moved(u) /\ \A v \in Unit \ {u} : Still(v) \/ Released(v)
<1>1. ASSUME UNCHANGED <<pc, job, retry>> PROVE \A v \in Unit : Still(v)
  BY <1>1 DEF Still
<1>2. ASSUME NEW u \in Unit, Rollback(u) PROVE \A v \in Unit : Still(v) \/ Released(v)
  BY <1>2 DEF Rollback, Release, Released, Still, TypeOK, WorkersTypeOK
<1>3. ASSUME NEW p \in Process, ProcessExit(p) PROVE \A v \in Unit : Still(v) \/ Released(v)
  BY <1>3 DEF ProcessExit, ReleaseProcess, Reset, Released, Still
<1>4. ASSUME NEW a \in RequestAttempt, DelayElapses(a) PROVE \A v \in Unit : Still(v)
  BY <1>1, <1>4 DEF DelayElapses, workers
<1>5. ASSUME NEW u \in Unit, UnitStep(u), UNCHANGED api
      PROVE  \/ \A v \in Unit : Still(v) \/ Released(v)
             \/ Moved(u) /\ \A v \in Unit \ {u} : Still(v) \/ Released(v)
  BY <1>5, UnitMoves
<1>6. CASE WorkersNext /\ UNCHANGED api
  BY <1>2, <1>3, <1>4, <1>5, <1>6 DEF WorkersNext
<1>7. CASE UNCHANGED workers
  BY <1>1, <1>7 DEF workers
<1>. QED
  BY <1>6, <1>7 DEF Next, vars

(* Only the unit that has a row as its job can settle it.                   *)
LEMMA PendingRows ==
  ASSUME RowsStep, NEW a \in Pending,
         \A u \in Unit : pc[u] # "idle" /\ Released(u) => job[u] # a
  PROVE  a \in Pending'
  BY DEF RowsStep, QuietRows, DispatchRows, SuccessRows, FailureRows, RetryRows, Becomes

LEMMA JobsStep ==
  ASSUME TypeOK, JobsAreOpen, JobsDiffer, RowsStep,
         \/ \A v \in Unit : Still(v) \/ Released(v)
         \/ \E u \in Unit : Moved(u) /\ \A v \in Unit \ {u} : Still(v) \/ Released(v)
  PROVE  JobsAreOpen' /\ JobsDiffer'
<1>1. \A v \in Unit : Still(v) \/ Released(v) \/ Moved(v)
  OBVIOUS
<1>2. NoRow \notin Pending
  BY NoRowIsNone DEF Pending, Stored
<1>3. ASSUME NEW v \in Unit, Still(v), pc[v] # "idle" PROVE job[v] \in Pending'
  <2>1. job[v] \in Pending
    BY <1>3 DEF JobsAreOpen
  <2>2. \A u \in Unit : pc[u] # "idle" /\ Released(u) => job[u] # job[v]
    BY <1>2, <1>3, <2>1 DEF JobsDiffer, Still, Released
  <2>. QED
    BY <2>1, <2>2, PendingRows
<1>4. ASSUME NEW v \in Unit, Moved(v), pc[v] # "idle" PROVE job[v] \in Pending'
  <2>1. job[v] \in Pending
    BY <1>4 DEF JobsAreOpen
  <2>2. \A u \in Unit : pc[u] # "idle" /\ Released(u) => job[u] # job[v]
    BY <1>2, <1>4, <2>1 DEF JobsDiffer, Moved, Released
  <2>. QED
    BY <2>1, <2>2, PendingRows
<1>5. ASSUME NEW v \in Unit, Moved(v), pc[v] = "idle"
      PROVE  job'[v] \in Pending' /\ job'[v] \notin Locked
  <2>1. job'[v] \in Pending /\ job'[v] \notin Locked
    BY <1>5 DEF Moved
  <2>2. \A u \in Unit : pc[u] # "idle" => job[u] # job'[v]
    BY <2>1, <1>2 DEF JobsAreOpen, Locked
  <2>. QED
    BY <2>1, <2>2, PendingRows
<1>6. ASSUME NEW v \in Unit
      PROVE  /\ (pc'[v] = "idle" <=> job'[v] = NoRow)
             /\ (pc'[v] # "idle" => job'[v] \in Pending')
             /\ (retry'[v] # NoRow => pc'[v] = "decided")
  <2>1. \/ job'[v] \in Pending' \/ Released(v)
        \/ Still(v) /\ pc[v] = "idle" /\ job[v] = NoRow /\ retry[v] = NoRow
    BY <1>1, <1>3, <1>4, <1>5 DEF Still, Moved, JobsAreOpen
  <2>2. NoRow \notin Pending'
    BY NoRowIsNone DEF Pending, Stored
  <2>. QED
    BY <1>1, <1>2, <2>1, <2>2 DEF Still, Moved, Released, JobsAreOpen
<1>7. ASSUME NEW u \in Unit, NEW v \in Unit, job'[u] = job'[v], job'[u] # NoRow
      PROVE  u = v
  <2>1. ASSUME NEW x \in Unit, job'[x] # NoRow, job'[x] # job[x]
        PROVE  /\ Moved(x) /\ pc[x] = "idle" /\ job'[x] \notin Locked
               /\ \A y \in Unit \ {x} : job'[y] \in {job[y], NoRow}
    BY <1>1, <1>5, <2>1 DEF Still, Released, Moved
  <2>2. \A x \in Unit : job[x] # NoRow => job[x] \in Locked
    BY DEF Locked
  <2>. QED
    BY <1>7, <2>1, <2>2 DEF JobsDiffer
<1>8. JobsAreOpen'
  BY <1>6 DEF JobsAreOpen
<1>. QED
  BY <1>7, <1>8 DEF JobsDiffer

LEMMA DecisionsStep ==
  ASSUME TypeOK, JobsAreOpen, DecisionsFit, RowsStep, Grows,
         \A v \in Unit : Still(v) \/ Released(v) \/ Moved(v)
  PROVE  DecisionsFit'
<1>1. RowsKept
  BY DEF RowsStep, QuietRows, DispatchRows, SuccessRows, FailureRows, RetryRows, Becomes
<1>2. ASSUME NEW u \in Unit, Still(u), pc[u] = "decided"
      PROVE  DecisionFits(u, request_attempt[job[u]])'
  <2>1. /\ job[u] \in Stored /\ job'[u] = job[u] /\ retry'[u] = retry[u]
        /\ DecisionFits(u, request_attempt[job[u]])
    BY <1>2 DEF JobsAreOpen, Pending, Still, DecisionsFit
  <2>2. /\ SameChain(request_attempt'[job[u]], request_attempt[job[u]])
        /\ request_attempt'[job[u]].retry_count = request_attempt[job[u]].retry_count
    BY <1>1, <2>1 DEF RowsKept
  <2>3. request_attempt'[job[u]].subscription = request_attempt[job[u]].subscription
    BY <2>2 DEF SameChain, ChainOf
  <2>. QED
    BY <2>1, <2>2, <2>3 DEF DecisionFits, SameChain, Grows
<1>3. ASSUME NEW u \in Unit, pc'[u] = "decided"
      PROVE  DecisionFits(u, request_attempt[job[u]])'
  BY <1>2, <1>3 DEF Still, Released, Moved
<1>. QED
  BY <1>3 DEF DecisionsFit

LEMMA AnswersStep ==
  ASSUME TypeOK, TypeOK', JobsAreOpen, AnswersAreReal, RowsStep, Grows,
         \A v \in Unit : Still(v) \/ Released(v) \/ Moved(v)
  PROVE  AnswersAreReal'
<1>1. \A a \in RequestAttempt : answers[a] > 0 => answers'[a] > 0
  BY DEF Grows, TypeOK, WorkersTypeOK
<1>2. Pending \subseteq RequestAttempt /\ Succeeded \subseteq RequestAttempt
  BY StoredRows
<1>3. \/ Succeeded' = Succeeded
      \/ \E u \in Unit : pc[u] = "succeeded" /\ Succeeded' = Succeeded \cup {job[u]}
  BY DEF RowsStep, QuietRows, DispatchRows, SuccessRows, FailureRows, RetryRows, Becomes
<1>4. SuccessWasAnswered'
  BY <1>1, <1>2, <1>3 DEF SuccessWasAnswered, AnswersAreReal, JobsAreOpen
<1>5. ASSUME NEW u \in Unit, pc'[u] = "succeeded" PROVE answers'[job'[u]] > 0
  BY <1>1, <1>2, <1>5 DEF Still, Released, Moved, AnswersAreReal, JobsAreOpen
<1>. QED
  BY <1>4, <1>5 DEF AnswersAreReal

-----------------------------------------------------------------------------
(* The invariant is inductive.                                              *)

LEMMA InitEstablishes == Init => IInv
<1>. SUFFICES ASSUME Init PROVE IInv
  OBVIOUS
<1>. USE DEF Init, TablesInit, WorkersInit, ApiInit
<1>1. TypeOK
  BY DEF TypeOK, TablesTypeOK, WorkersTypeOK, ApiTypeOK
<1>2. Stored = {} /\ Pending = {} /\ Failed = {} /\ Succeeded = {}
  BY DEF Stored, Pending, Failed, Succeeded
<1>3. JobsAreOpen /\ JobsDiffer /\ DecisionsFit
  BY DEF JobsAreOpen, JobsDiffer, DecisionsFit
<1>4. RowsAreKnown /\ InactiveWereInterrupted /\ AnswersAreReal
  BY <1>2 DEF RowsAreKnown, InactiveWereInterrupted, AnswersAreReal, SuccessWasAnswered
<1>5. ChainsAreLinear /\ ChainsDoNotBreakOff
  BY <1>2 DEF ChainsAreLinear, ChainsDoNotBreakOff
<1>. QED
  BY <1>1, <1>3, <1>4, <1>5 DEF IInv

LEMMA StepPreserves == IInv /\ [Next]_vars => IInv'
<1>. SUFFICES ASSUME IInv, [Next]_vars PROVE IInv'
  OBVIOUS
<1>. USE DEF IInv
<1>1. TypeOK'
  BY TypeStep
<1>2. RowsStep
  BY EveryRowsStep
<1>3. Grows
  BY EveryStepGrows
<1>4. \/ \A v \in Unit : Still(v) \/ Released(v)
      \/ \E u \in Unit : Moved(u) /\ \A v \in Unit \ {u} : Still(v) \/ Released(v)
  BY EveryUnitMoves
<1>5. \A v \in Unit : Still(v) \/ Released(v) \/ Moved(v)
  BY <1>4
<1>6. JobsAreOpen' /\ JobsDiffer'
  BY <1>2, <1>4, JobsStep
<1>7. DecisionsFit'
  BY <1>2, <1>3, <1>5, DecisionsStep
<1>8. RowsAreKnown'
  BY <1>1, <1>2, <1>3, KnownStep
<1>9. InactiveWereInterrupted'
  BY InterruptedStep
<1>10. AnswersAreReal'
  BY <1>1, <1>2, <1>3, <1>5, AnswersStep
<1>11. ChainsAreLinear'
  BY <1>1, <1>2, LinearStep
<1>12. ChainsDoNotBreakOff'
  BY <1>2, <1>3, UnbrokenStep
<1>. QED
  BY <1>1, <1>6, <1>7, <1>8, <1>9, <1>10, <1>11, <1>12

(* IInv holds in every state the pipeline reaches.                          *)
THEOREM Invariant == Spec => []IInv
  BY InitEstablishes, StepPreserves, PTL DEF Spec

(* The tables and the units keep their types: retry counts never leave      *)
(* their column, however attempts are retried.                              *)
THEOREM TypeCorrect == Spec => []TypeOK
<1>1. IInv => TypeOK
  BY DEF IInv
<1>. QED
  BY <1>1, Invariant, PTL

(* No two units ever carry out the same attempt, and the attempt a unit     *)
(* carries out is pending.                                                  *)
THEOREM ExclusivePickHolds == Spec => []ExclusivePick
<1>1. IInv => ExclusivePick
  BY DEF IInv, JobsAreOpen, JobsDiffer, ExclusivePick
<1>. QED
  BY <1>1, Invariant, PTL

(* Retries never fork, skip or repeat a count, nor follow a success.        *)
THEOREM ChainsAreLinearHolds == Spec => []ChainsAreLinear
<1>1. IInv => ChainsAreLinear
  BY DEF IInv
<1>. QED
  BY <1>1, Invariant, PTL

(* No crash and no rollback makes the system forget a retry it owes.        *)
THEOREM ChainsDoNotBreakOffHolds == Spec => []ChainsDoNotBreakOff
<1>1. IInv => ChainsDoNotBreakOff
  BY DEF IInv
<1>. QED
  BY <1>1, Invariant, PTL

(* A success is only recorded for a target that answered with one.          *)
THEOREM SuccessWasAnsweredHolds == Spec => []SuccessWasAnswered
<1>1. IInv => SuccessWasAnswered
  BY DEF IInv, AnswersAreReal
<1>. QED
  BY <1>1, Invariant, PTL

(* A settled row is never written again.                                    *)
LEMMA RowsStaySettled ==
  ASSUME TypeOK, JobsAreOpen, [Next]_vars,
         NEW a \in Succeeded \cup Failed
  PROVE  request_attempt'[a] = request_attempt[a]
<1>1. a \in Stored /\ a \notin Pending /\ a \notin Free /\ a \in RequestAttempt
  BY DEF Succeeded, Failed, Pending, Stored, Free
<1>2. ASSUME UNCHANGED request_attempt PROVE request_attempt'[a] = request_attempt[a]
  BY <1>2
<1>3. ASSUME NEW u \in Unit, job[u] \in Pending, NEW status
      PROVE  Settle(u, status)[a] = request_attempt[a]
  BY <1>1, <1>3 DEF Settle, TypeOK, TablesTypeOK
<1>4. ASSUME NEW u \in Unit, CommitSuccess(u) PROVE request_attempt'[a] = request_attempt[a]
  BY <1>3, <1>4 DEF CommitSuccess, JobsAreOpen
<1>5. ASSUME NEW u \in Unit, CommitFailure(u) PROVE request_attempt'[a] = request_attempt[a]
  <2>1. Settle(u, "failed")[a] = request_attempt[a]
    BY <1>3, <1>5 DEF CommitFailure, JobsAreOpen
  <2>2. \/ request_attempt' = Settle(u, "failed")
        \/ \E id \in Free : request_attempt' = [Settle(u, "failed") EXCEPT ![id] = retry[u]]
    BY <1>5 DEF CommitFailure
  <2>3. \A id \in Free : [Settle(u, "failed") EXCEPT ![id] = retry[u]][a] = request_attempt[a]
    BY <1>1, <2>1 DEF Settle, TypeOK, TablesTypeOK
  <2>. QED
    BY <2>1, <2>2, <2>3
<1>6. ASSUME NEW u \in Unit, UnitStep(u) PROVE request_attempt'[a] = request_attempt[a]
  BY <1>2, <1>4, <1>5, <1>6
     DEF UnitStep, Pick, CallSucceeds, CallFails, AnswerCannotBeStored, DecideRetry, tables
<1>7. ASSUME NEW b \in RequestAttempt, DelayElapses(b) PROVE request_attempt'[a] = request_attempt[a]
  BY <1>1, <1>7 DEF DelayElapses, TypeOK, TablesTypeOK
<1>8. ASSUME ApiNext PROVE request_attempt'[a] = request_attempt[a]
  <2>1. ASSUME NEW e \in Event, Ingest(e) \/ Replay(e)
        PROVE  request_attempt'[a] = request_attempt[a]
    BY <1>1, <2>1, DispatchFacts DEF Ingest, Replay
  <2>. QED
    BY <1>2, <1>8, <2>1
       DEF ApiNext, Authorize, Refuse, CreateSubscription, EditSubscription, DeleteSubscription,
           DeleteApplication, tables
<1>9. CASE UNCHANGED vars
  BY <1>2, <1>9 DEF vars, tables
<1>. QED
  BY <1>2, <1>6, <1>7, <1>8, <1>9 DEF Next, WorkersNext, Rollback, ProcessExit, tables

(* The history of attempts is never rewritten.                              *)
THEOREM SettledIsFinalHolds == Spec => SettledIsFinal
<1>1. IInv /\ [Next]_vars =>
        [\A a \in Succeeded \cup Failed : request_attempt'[a] = request_attempt[a]]_vars
  BY RowsStaySettled DEF IInv
<1>. QED
  BY <1>1, Invariant, PTL DEF Spec, SettledIsFinal

-----------------------------------------------------------------------------
(* Routing: a subscription never has workers that its organization cannot   *)
(* use, and a unit keeps the attempt it was given.                          *)

WorkersAreAllowed ==
  \A s \in Subscription :
    subscription[s] # NoRow => subscription[s].workers \subseteq AllowedWorkers[ApplicationOf[s]]

LEMMA AllowedStep ==
  ASSUME TypeOK, WorkersAreAllowed, [Next]_vars
  PROVE  WorkersAreAllowed'
<1>1. CASE UNCHANGED subscription
  BY <1>1 DEF WorkersAreAllowed
<1>2. ASSUME NEW s \in Subscription, NEW body \in Body, Acceptable(s, body), Written(s, body)
      PROVE  WorkersAreAllowed'
  <2>1. /\ subscription'[s].workers = body.workers
        /\ \A x \in Subscription \ {s} : subscription'[x] = subscription[x]
    BY <1>2 DEF Written, TypeOK, TablesTypeOK
  <2>. QED
    BY <1>2, <2>1 DEF Acceptable, WorkersAreAllowed
<1>3. ASSUME NEW s \in Subscription, DeleteSubscription(s) PROVE WorkersAreAllowed'
  <2>1. CASE subscription[s] # NoRow
    <3>1. /\ subscription'[s].workers = subscription[s].workers
          /\ \A x \in Subscription \ {s} : subscription'[x] = subscription[x]
      BY <1>3, <2>1 DEF DeleteSubscription, SubscriptionRow, TypeOK, TablesTypeOK
    <3>. QED
      BY <2>1, <3>1 DEF WorkersAreAllowed
  <2>. QED
    BY <1>1, <1>3, <2>1 DEF DeleteSubscription
<1>4. ASSUME ApiNext PROVE WorkersAreAllowed'
  BY <1>1, <1>2, <1>3, <1>4
     DEF ApiNext, Authorize, Refuse, Ingest, Replay, CreateSubscription, EditSubscription,
         DeleteApplication, tables
<1>5. ASSUME WorkersNext PROVE WorkersAreAllowed'
  BY <1>1, <1>5
     DEF WorkersNext, UnitStep, Pick, CallSucceeds, CallFails, AnswerCannotBeStored,
         DecideRetry, CommitSuccess, CommitFailure, Rollback, ProcessExit, DelayElapses, tables
<1>6. CASE UNCHANGED vars
  BY <1>1, <1>6 DEF vars, tables
<1>. QED
  BY <1>4, <1>5, <1>6 DEF Next

LEMMA ServingIsAllowed ==
  ASSUME WorkersAreAllowed, NEW u \in Unit, NEW s \in Subscription,
         subscription[s] # NoRow, Serves(u, s), WorkerOf[ProcessOf[u]] \in PrivateWorker
  PROVE  WorkerOf[ProcessOf[u]] \in AllowedWorkers[ApplicationOf[s]]
<1>1. WorkerOf[ProcessOf[u]] \in AssignedWorkers(s)
  BY DEF Serves
<1>2. ApplicationOf[s] \in Application
  BY TablesAssumption
<1>. QED
  BY <1>1, <1>2, TablesAssumption DEF AssignedWorkers, WorkersAreAllowed

LEMMA ReservedStep ==
  ASSUME IInv, WorkersAreAllowed, PrivateWorkersAreReserved, [Next]_vars
  PROVE  PrivateWorkersAreReserved'
<1>. USE DEF IInv
<1>1. RowsKept
  BY EveryRowsStep
     DEF RowsStep, QuietRows, DispatchRows, SuccessRows, FailureRows, RetryRows, Becomes
<1>2. ASSUME NEW a \in Stored
      PROVE  request_attempt'[a].subscription = request_attempt[a].subscription
  BY <1>1 DEF RowsKept, SameChain, ChainOf
<1>3. ASSUME NEW u \in Unit, Pick(u), WorkerOf[ProcessOf[u]] \in PrivateWorker
      PROVE  /\ job'[u] \in Stored
             /\ WorkerOf[ProcessOf[u]]
                  \in AllowedWorkers[ApplicationOf[request_attempt[job'[u]].subscription]]
  <2>1. PICK a \in Pickable(u) : job' = [job EXCEPT ![u] = a]
    BY <1>3 DEF Pick
  <2>2. job'[u] = a /\ a \in Stored /\ Serves(u, request_attempt[a].subscription)
    BY <2>1 DEF Pickable, Pending, TypeOK, WorkersTypeOK
  <2>3. /\ request_attempt[a].subscription \in Subscription
        /\ subscription[request_attempt[a].subscription] # NoRow
    BY <2>2, StoredRows DEF AttemptRow, RowsAreKnown
  <2>. QED
    BY <1>3, <2>2, <2>3, ServingIsAllowed
<1>4. ASSUME NEW u \in Unit, pc'[u] # "idle"
      PROVE  \/ Pick(u)
             \/ pc[u] # "idle" /\ job'[u] = job[u]
  <2>1. ASSUME NEW v \in Unit, UnitStep(v) PROVE Pick(u) \/ (pc[u] # "idle" /\ job'[u] = job[u])
    BY <1>4, <2>1
       DEF UnitStep, Pick, CallSucceeds, CallFails, CallReturns, AnswerCannotBeStored,
           DecideRetry, CommitSuccess, CommitFailure, Release, ReleaseProcess, Reset,
           TypeOK, WorkersTypeOK
  <2>2. ASSUME NEW v \in Unit, Rollback(v) PROVE pc[u] # "idle" /\ job'[u] = job[u]
    BY <1>4, <2>2 DEF Rollback, Release, TypeOK, WorkersTypeOK
  <2>3. ASSUME NEW p \in Process, ProcessExit(p) PROVE pc[u] # "idle" /\ job'[u] = job[u]
    BY <1>4, <2>3 DEF ProcessExit, ReleaseProcess, Reset
  <2>4. CASE UNCHANGED workers
    BY <1>4, <2>4 DEF workers
  <2>. QED
    BY <2>1, <2>2, <2>3, <2>4 DEF Next, WorkersNext, DelayElapses, vars
<1>5. ASSUME NEW u \in Unit, pc'[u] # "idle", WorkerOf[ProcessOf[u]] \in PrivateWorker
      PROVE  WorkerOf[ProcessOf[u]]
               \in AllowedWorkers[ApplicationOf[request_attempt'[job'[u]].subscription]]
  <2>1. CASE Pick(u)
    BY <1>2, <1>3, <1>5, <2>1
  <2>2. CASE pc[u] # "idle" /\ job'[u] = job[u]
    <3>1. job[u] \in Stored
      BY <2>2 DEF JobsAreOpen, Pending
    <3>. QED
      BY <1>2, <1>5, <2>2, <3>1 DEF PrivateWorkersAreReserved
  <2>. QED
    BY <1>4, <1>5, <2>1, <2>2
<1>. QED
  BY <1>5 DEF PrivateWorkersAreReserved

(* A private worker only ever carries out attempts of organizations that    *)
(* may use it, however subscriptions are edited in between.                 *)
THEOREM PrivateWorkersAreReservedHolds == Spec => []PrivateWorkersAreReserved
<1>1. Init => WorkersAreAllowed /\ PrivateWorkersAreReserved
  BY DEF Init, TablesInit, WorkersInit, WorkersAreAllowed, PrivateWorkersAreReserved
<1>2. IInv /\ WorkersAreAllowed /\ PrivateWorkersAreReserved /\ [Next]_vars
        => WorkersAreAllowed' /\ PrivateWorkersAreReserved'
  BY AllowedStep, ReservedStep DEF IInv
<1>. QED
  BY <1>1, <1>2, Invariant, PTL DEF Spec

-----------------------------------------------------------------------------
(* Duplicates.  An answer is either lost with the transaction that got it,  *)
(* which is counted, or it is the last of its chain.                        *)

Deliveries == Event \X Subscription \X Nat

ChainRows(d) == {a \in Stored : ChainOf(request_attempt[a]) = d}

(* The delivery was answered, and the answer is recorded or about to be. *)
IsAnswered(d) ==
  \/ \E a \in Succeeded : ChainOf(request_attempt[a]) = d
  \/ \E u \in Unit : pc[u] = "succeeded" /\ ChainOf(request_attempt[job[u]]) = d

AnswersAllowed(d) == IF IsAnswered(d) THEN aborts + 1 ELSE aborts

DuplicatesInv ==
  /\ \A a \in Free : answers[a] = 0
  /\ \A d \in Deliveries :
       /\ IsFiniteSet(AnswersOf(ChainRows(d)))
       /\ Cardinality(AnswersOf(ChainRows(d))) <= AnswersAllowed(d)

LEMMA ChainsAreDeliveries ==
  ASSUME TypeOK, NEW a \in Stored
  PROVE  ChainOf(request_attempt[a]) \in Deliveries
  BY StoredRows DEF ChainOf, AttemptRow, Deliveries

(* Who loses an answer is counted. *)
LEMMA LossesAreCounted ==
  ASSUME TypeOK, JobsAreOpen, [Next]_vars
  PROVE  /\ aborts' \in {aborts, aborts + 1}
         /\ \A u \in Unit : pc[u] = "succeeded" =>
              \/ Still(u)
              \/ aborts' = aborts + 1
              \/ CommitSuccess(u)
<1>. DEFINE Lost(u) == pc[u] = "succeeded" => Still(u) \/ aborts' = aborts + 1 \/ CommitSuccess(u)
<1>1. ASSUME UNCHANGED <<pc, job, retry>> PROVE \A u \in Unit : Lost(u)
  BY <1>1 DEF Still
<1>2. ASSUME NEW v \in Unit, Release(v) PROVE \A u \in Unit \ {v} : Still(u)
  BY <1>2 DEF Release, Still, TypeOK, WorkersTypeOK
<1>3. ASSUME NEW v \in Unit, UnitStep(v)
      PROVE  aborts' \in {aborts, aborts + 1} /\ \A u \in Unit : Lost(u)
  <2>1. CASE Pick(v) \/ CallSucceeds(v) \/ CallFails(v) \/ DecideRetry(v)
    <3>1. pc[v] # "succeeded" /\ aborts' = aborts
      BY <2>1 DEF Pick, CallSucceeds, CallFails, CallReturns, DecideRetry
    <3>2. \A u \in Unit \ {v} : Still(u)
      BY <2>1 DEF Pick, CallSucceeds, CallFails, DecideRetry, Still, TypeOK, WorkersTypeOK
    <3>. QED
      BY <3>1, <3>2
  <2>2. CASE CommitSuccess(v) \/ CommitFailure(v)
    <3>1. aborts' = aborts /\ Release(v) /\ (CommitSuccess(v) \/ pc[v] = "decided")
      BY <2>2 DEF CommitSuccess, CommitFailure
    <3>. QED
      BY <1>2, <3>1
  <2>3. CASE AnswerCannotBeStored(v)
    <3>1. pc[v] = "picked"
      BY <2>3 DEF AnswerCannotBeStored
    <3>2. CASE Release(v) /\ UNCHANGED aborts
      BY <1>2, <3>1, <3>2
    <3>3. CASE /\ ReleaseProcess(ProcessOf[v])
               /\ IF \E u \in Unit \ {v} : ProcessOf[u] = ProcessOf[v] /\ pc[u] # "idle"
                  THEN aborts < MaxAborts /\ aborts' = aborts + 1
                  ELSE UNCHANGED aborts
      <4>1. \A u \in Unit : ProcessOf[u] # ProcessOf[v] => Still(u)
        BY <3>3 DEF ReleaseProcess, Reset, Still
      <4>. QED
        BY <3>1, <3>3, <4>1
    <3>. QED
      BY <2>3, <3>2, <3>3 DEF AnswerCannotBeStored
  <2>. QED
    BY <1>3, <2>1, <2>2, <2>3 DEF UnitStep
<1>4. CASE WorkersNext
  BY <1>1, <1>3, <1>4 DEF WorkersNext, Rollback, ProcessExit, DelayElapses, workers
<1>5. CASE UNCHANGED workers
  BY <1>1, <1>5 DEF workers
<1>. QED
  BY <1>4, <1>5 DEF Next, vars

(* Two attempts of a delivery are never open, nor one open and one done. *)
LEMMA OpenIsNotAnswered ==
  ASSUME IInv, NEW u \in Unit, pc[u] = "picked"
  PROVE  ~IsAnswered(ChainOf(request_attempt[job[u]]))
<1>. DEFINE d == ChainOf(request_attempt[job[u]])
<1>1. job[u] \in Pending
  BY DEF IInv, JobsAreOpen
<1>2. ASSUME NEW a \in Stored, ChainOf(request_attempt[a]) = d, a # job[u]
      PROVE  a \in Failed
  BY <1>1, <1>2, LinearRows DEF IInv, SameChain
<1>3. ASSUME NEW a \in Succeeded, ChainOf(request_attempt[a]) = d PROVE FALSE
  BY <1>1, <1>2, <1>3 DEF Succeeded, Pending, Failed
<1>4. ASSUME NEW v \in Unit, pc[v] = "succeeded", ChainOf(request_attempt[job[v]]) = d
      PROVE  FALSE
  <2>1. job[v] \in Pending /\ job[v] \in Stored /\ job[v] \notin Failed
    BY <1>4 DEF IInv, JobsAreOpen, Pending, Failed
  <2>2. job[v] # job[u]
    BY <1>4, <2>1, NoRowIsNone DEF IInv, JobsDiffer, Stored
  <2>. QED
    BY <1>2, <1>4, <2>1, <2>2
<1>. QED
  BY <1>3, <1>4 DEF IsAnswered

LEMMA AnswerAdds ==
  ASSUME IInv, DuplicatesInv, NEW u \in Unit, CallSucceeds(u)
  PROVE  DuplicatesInv'
<1>. DEFINE answer == <<job[u], answers[job[u]] + 1>>
<1>1. /\ pc[u] = "picked" /\ UNCHANGED <<request_attempt, job, aborts>>
      /\ answers' = [answers EXCEPT ![job[u]] = @ + 1]
      /\ pc' = [pc EXCEPT ![u] = "succeeded"]
  BY DEF CallSucceeds, CallReturns, tables
<1>2. job[u] \in Pending /\ job[u] \in Stored /\ job[u] \in RequestAttempt /\ job[u] \notin Free
  BY <1>1 DEF IInv, JobsAreOpen, Pending, Stored, Free
<1>3. /\ answers \in [RequestAttempt -> Nat] /\ aborts \in Nat
      /\ pc \in [Unit -> {"idle", "picked", "succeeded", "failed", "decided"}]
  BY DEF IInv, TypeOK, WorkersTypeOK
<1>4. Stored' = Stored /\ Free' = Free /\ Succeeded' = Succeeded
      /\ \A d : ChainRows(d)' = ChainRows(d)
  BY <1>1 DEF Stored, Free, Succeeded, ChainRows
<1>0. PICK d0 \in Deliveries : d0 = ChainOf(request_attempt[job[u]])
  BY <1>2, ChainsAreDeliveries DEF IInv
<1>5. \A a \in Free' : answers'[a] = 0
  BY <1>1, <1>2, <1>3, <1>4 DEF DuplicatesInv, Free
<1>6. ASSUME NEW d \in Deliveries, d # d0
      PROVE  /\ IsFiniteSet(AnswersOf(ChainRows(d))')
             /\ Cardinality(AnswersOf(ChainRows(d))') <= AnswersAllowed(d)'
  <2>1. \A a \in ChainRows(d) : answers'[a] = answers[a]
    BY <1>0, <1>1, <1>3, <1>6 DEF ChainRows, Stored
  <2>2. AnswersOf(ChainRows(d))' = AnswersOf(ChainRows(d))
    BY <1>4, <2>1 DEF AnswersOf
  <2>3. IsAnswered(d) => IsAnswered(d)'
    BY <1>1, <1>3, <1>4 DEF IsAnswered
  <2>4. AnswersAllowed(d) <= AnswersAllowed(d)'
    BY <1>1, <1>3, <2>3 DEF AnswersAllowed
  <2>5. /\ IsFiniteSet(AnswersOf(ChainRows(d)))
        /\ Cardinality(AnswersOf(ChainRows(d))) <= AnswersAllowed(d)
    BY DEF DuplicatesInv
  <2>6. Cardinality(AnswersOf(ChainRows(d))) \in Nat /\ AnswersAllowed(d) \in Nat
        /\ AnswersAllowed(d)' \in Nat
    BY <1>1, <1>3, <2>5, FS_CardinalityType DEF AnswersAllowed
  <2>. QED
    BY <2>2, <2>4, <2>5, <2>6
<1>7. /\ IsFiniteSet(AnswersOf(ChainRows(d0))')
      /\ Cardinality(AnswersOf(ChainRows(d0))') <= aborts + 1
  <2>2. ~IsAnswered(d0)
    BY <1>0, <1>1, OpenIsNotAnswered
  <2>3. /\ IsFiniteSet(AnswersOf(ChainRows(d0)))
        /\ Cardinality(AnswersOf(ChainRows(d0))) <= aborts
    BY <2>2 DEF DuplicatesInv, AnswersAllowed
  <2>4. job[u] \in ChainRows(d0) /\ ChainRows(d0) \subseteq RequestAttempt
    BY <1>0, <1>2 DEF ChainRows, Stored
  <2>5. AnswersOf(ChainRows(d0))' = AnswersOf(ChainRows(d0)) \cup {answer}
    <3>1. \A a \in ChainRows(d0) :
            {a} \X (1 .. answers'[a]) =
              IF a = job[u] THEN ({a} \X (1 .. answers[a])) \cup {answer} ELSE {a} \X (1 .. answers[a])
      <4>1. \A a \in ChainRows(d0) \ {job[u]} : answers'[a] = answers[a]
        BY <1>1, <1>3, <2>4
      <4>2. answers[job[u]] \in Nat /\ answers'[job[u]] = answers[job[u]] + 1
        BY <1>1, <1>2, <1>3
      <4>3. 1 .. answers'[job[u]] = (1 .. answers[job[u]]) \cup {answers[job[u]] + 1}
        BY <4>2
      <4>. QED
        BY <4>1, <4>3
    <3>2. AnswersOf(ChainRows(d0))' = UNION {{a} \X (1 .. answers'[a]) : a \in ChainRows(d0)}
      BY <1>4 DEF AnswersOf
    <3>. QED
      BY <2>4, <3>1, <3>2 DEF AnswersOf
  <2>6. /\ IsFiniteSet(AnswersOf(ChainRows(d0)) \cup {answer})
        /\ Cardinality(AnswersOf(ChainRows(d0)) \cup {answer})
             \in {Cardinality(AnswersOf(ChainRows(d0))), Cardinality(AnswersOf(ChainRows(d0))) + 1}
    BY <2>3, FS_AddElement
  <2>7. Cardinality(AnswersOf(ChainRows(d0))) \in Nat
    BY <2>3, FS_CardinalityType
  <2>. QED
    BY <1>3, <1>4, <2>3, <2>5, <2>6, <2>7
<1>8. IsAnswered(d0)'
  BY <1>0, <1>1, <1>3 DEF IsAnswered
<1>9. ASSUME NEW d \in Deliveries
      PROVE  /\ IsFiniteSet(AnswersOf(ChainRows(d))')
             /\ Cardinality(AnswersOf(ChainRows(d))') <= AnswersAllowed(d)'
  <2>1. CASE d # d0
    BY <1>6, <2>1
  <2>2. CASE d = d0
    <3>1. AnswersAllowed(d)' = aborts + 1
      BY <1>1, <1>8, <2>2 DEF AnswersAllowed
    <3>. QED
      BY <1>7, <2>2, <3>1
  <2>. QED
    BY <2>1, <2>2
<1>. QED
  BY <1>5, <1>9 DEF DuplicatesInv

(* Every other step only adds attempts that were never tried.               *)
LEMMA AnswersKept ==
  ASSUME IInv, DuplicatesInv, [Next]_vars, answers' = answers
  PROVE  DuplicatesInv'
<1>. USE DEF IInv
<1>1. RowsStep
  BY EveryRowsStep
<1>2. RowsKept /\ Stored \subseteq Stored' /\ Succeeded \subseteq Succeeded'
  BY <1>1 DEF RowsStep, QuietRows, DispatchRows, SuccessRows, FailureRows, RetryRows, Becomes,
     RowsKept
<1>3. \A a \in Stored : ChainOf(request_attempt'[a]) = ChainOf(request_attempt[a])
  BY <1>2 DEF RowsKept, SameChain
<1>4. \A a \in Stored' \ Stored : answers[a] = 0
  BY DEF DuplicatesInv, Free, Stored
<1>5. \A a \in Free' : answers'[a] = 0
  BY <1>2 DEF DuplicatesInv, Free
<1>6. aborts \in Nat /\ aborts' \in {aborts, aborts + 1}
  BY LossesAreCounted DEF TypeOK, WorkersTypeOK
<1>7. ASSUME NEW d \in Deliveries
      PROVE  /\ IsFiniteSet(AnswersOf(ChainRows(d))')
             /\ Cardinality(AnswersOf(ChainRows(d))') <= AnswersAllowed(d)'
  <2>1. /\ ChainRows(d) \subseteq ChainRows(d)'
        /\ \A a \in ChainRows(d)' \ ChainRows(d) : answers[a] = 0
    BY <1>2, <1>3, <1>4 DEF ChainRows
  <2>2. AnswersOf(ChainRows(d))' = AnswersOf(ChainRows(d))
    <3>1. AnswersOf(ChainRows(d))' = UNION {{a} \X (1 .. answers[a]) : a \in ChainRows(d)'}
      BY DEF AnswersOf
    <3>2. \A a \in ChainRows(d)' \ ChainRows(d) : {a} \X (1 .. answers[a]) = {}
      BY <2>1
    <3>. QED
      BY <2>1, <3>1, <3>2 DEF AnswersOf
  <2>3. IsAnswered(d) => IsAnswered(d)' \/ aborts' = aborts + 1
    <3>1. ASSUME NEW a \in Succeeded, ChainOf(request_attempt[a]) = d PROVE IsAnswered(d)'
      BY <1>2, <1>3, <3>1 DEF IsAnswered, Succeeded
    <3>2. ASSUME NEW u \in Unit, pc[u] = "succeeded", ChainOf(request_attempt[job[u]]) = d,
                 aborts' # aborts + 1
          PROVE  IsAnswered(d)'
      <4>1. job[u] \in Pending /\ job[u] \in Stored
        BY <3>2 DEF JobsAreOpen, Pending
      <4>2. CASE Still(u)
        BY <1>3, <3>2, <4>1, <4>2 DEF Still, IsAnswered
      <4>3. CASE CommitSuccess(u)
        <5>1. Succeeded' = Succeeded \cup {job[u]}
          BY <4>1, <4>3, SettledRows DEF CommitSuccess
        <5>. QED
          BY <1>3, <3>2, <4>1, <5>1 DEF IsAnswered
      <4>. QED
        BY <3>2, <4>2, <4>3, LossesAreCounted
    <3>. QED
      BY <3>1, <3>2 DEF IsAnswered
  <2>4. AnswersAllowed(d) \in Nat /\ AnswersAllowed(d)' \in Nat
        /\ AnswersAllowed(d) <= AnswersAllowed(d)'
    <3>1. AnswersAllowed(d) \in {aborts, aborts + 1}
      BY DEF AnswersAllowed
    <3>2. AnswersAllowed(d)' \in {aborts', aborts' + 1}
      BY DEF AnswersAllowed
    <3>3. \/ AnswersAllowed(d) = aborts
          \/ AnswersAllowed(d)' = aborts' + 1
          \/ aborts' = aborts + 1
      BY <2>3, Zenon DEF AnswersAllowed
    <3>. QED
      BY <1>6, <3>1, <3>2, <3>3
  <2>5. /\ IsFiniteSet(AnswersOf(ChainRows(d)))
        /\ Cardinality(AnswersOf(ChainRows(d))) <= AnswersAllowed(d)
        /\ Cardinality(AnswersOf(ChainRows(d))) \in Nat
    BY FS_CardinalityType DEF DuplicatesInv
  <2>. QED
    BY <2>2, <2>4, <2>5
<1>. QED
  BY <1>5, <1>7 DEF DuplicatesInv

(* At most one answer of a delivery is not paid for by a lost transaction:  *)
(* retries, replays, crashes and answers that cannot be stored do not add   *)
(* to it.                                                                   *)
THEOREM DuplicatesAreAccountedForHolds == Spec => []DuplicatesAreAccountedFor
<1>1. Init => DuplicatesInv
  <2>. SUFFICES ASSUME Init PROVE DuplicatesInv
    OBVIOUS
  <2>1. \A d : ChainRows(d) = {}
    BY DEF Init, TablesInit, Stored, ChainRows
  <2>2. \A d : AnswersOf(ChainRows(d)) = {}
    BY <2>1 DEF AnswersOf
  <2>3. aborts = 0 /\ \A a \in RequestAttempt : answers[a] = 0
    BY DEF Init, WorkersInit
  <2>4. \A d : AnswersAllowed(d) \in {0, 1}
    BY <2>3 DEF AnswersAllowed
  <2>. QED
    BY <2>2, <2>3, <2>4, FS_EmptySet DEF DuplicatesInv, Free
<1>2. IInv /\ DuplicatesInv /\ [Next]_vars => DuplicatesInv'
  <2>. SUFFICES ASSUME IInv, DuplicatesInv, [Next]_vars PROVE DuplicatesInv'
    OBVIOUS
  <2>1. answers' = answers \/ \E u \in Unit : CallSucceeds(u)
    BY DEF Next, WorkersNext, UnitStep, Pick, CallFails, AnswerCannotBeStored, DecideRetry,
       CommitSuccess, CommitFailure, Rollback, ProcessExit, DelayElapses, workers, vars
  <2>. QED
    BY <2>1, AnswerAdds, AnswersKept
<1>3. IInv /\ DuplicatesInv => DuplicatesAreAccountedFor
  <2>. SUFFICES ASSUME IInv, DuplicatesInv, NEW a \in Stored
                PROVE  Cardinality(AnswersOf({b \in Stored :
                         SameChain(request_attempt[a], request_attempt[b])})) <= 1 + aborts
    BY DEF DuplicatesAreAccountedFor
  <2>. DEFINE d == ChainOf(request_attempt[a])
  <2>1. d \in Deliveries
    BY ChainsAreDeliveries DEF IInv
  <2>2. {b \in Stored : SameChain(request_attempt[a], request_attempt[b])} = ChainRows(d)
    BY DEF SameChain, ChainRows
  <2>3. /\ Cardinality(AnswersOf(ChainRows(d))) \in Nat
        /\ Cardinality(AnswersOf(ChainRows(d))) <= AnswersAllowed(d)
    BY <2>1, FS_CardinalityType DEF DuplicatesInv
  <2>4. aborts \in Nat /\ AnswersAllowed(d) <= 1 + aborts /\ AnswersAllowed(d) \in Nat
    BY DEF IInv, TypeOK, WorkersTypeOK, AnswersAllowed
  <2>. QED
    BY <2>2, <2>3, <2>4
<1>. QED
  BY <1>1, <1>2, <1>3, Invariant, PTL DEF Spec
=============================================================================
