----------------------------- MODULE OutputWorker -----------------------------
(***************************************************************************)
(* The output workers: processes (instances of output-worker/src/main.rs), *)
(* each with units that take request attempts from the table one at a      *)
(* time, call the subscription's target and settle the attempt.            *)
(*                                                                         *)
(* A unit handles an attempt in one database transaction that stays open   *)
(* across the HTTP call: the row is locked when it is picked, and nothing  *)
(* the unit writes is visible before the commit.  If the transaction is    *)
(* rolled back after the call, the target has been called all the same.    *)
(***************************************************************************)
EXTENDS Tables, RetryPolicy

CONSTANTS
  Unit, Process,
  ProcessOf,           \* the process a unit belongs to
  WorkerOf,            \* the worker a process runs as, NoRow when it has no row
  PrivateWorker,       \* workers whose "public" is false
  Unstorable,          \* subscriptions whose target's answers cannot be stored
  MaxFastRetries, MaxSlowRetries,
  MaxAborts            \* bound: transactions lost to errors and crashes

MaxRetries == MaxFastRetries + MaxSlowRetries

ASSUME OutputWorkerAssumption ==
  /\ ProcessOf \in [Unit -> Process]
  /\ WorkerOf \in [Process -> Worker \cup {NoRow}]
  /\ NoRow \notin Worker
  /\ PrivateWorker \subseteq Worker
  /\ Unstorable \subseteq Subscription
  /\ MaxFastRetries \in Nat /\ MaxSlowRetries \in Nat
  /\ MaxRetries < U32Modulus /\ MaxRetries <= I16Max
  /\ MaxAborts \in Nat

VARIABLES
  pc,          \* where a unit is in look_for_work
  job,         \* the request attempt it has locked
  retry,       \* the retry it has inserted and not committed
  answers,     \* history: how often a unit got a success for an attempt
  aborts       \* how many transactions were lost; bounded by MaxAborts

workers == <<pc, job, retry, answers, aborts>>

WorkersTypeOK ==
  /\ pc \in [Unit -> {"idle", "picked", "succeeded", "failed", "decided"}]
  /\ job \in [Unit -> RequestAttempt \cup {NoRow}]
  /\ retry \in [Unit -> AttemptRow \cup {NoRow}]
  /\ answers \in [RequestAttempt -> Nat]
  /\ aborts \in Nat

WorkersInit ==
  /\ pc = [u \in Unit |-> "idle"]
  /\ job = [u \in Unit |-> NoRow]
  /\ retry = [u \in Unit |-> NoRow]
  /\ answers = [a \in RequestAttempt |-> 0]
  /\ aborts = 0

-----------------------------------------------------------------------------
(* COALESCE(sw.worker__id, ow.worker__id): the default workers of the       *)
(* organization only count when the subscription has no worker of its own.  *)
AssignedWorkers(s) ==
  IF subscription[s].workers # {}
  THEN subscription[s].workers
  ELSE DefaultWorkers[ApplicationOf[s]]

(* Routing, as the WHERE clauses of the public and the private query do it. *)
Serves(u, s) ==
  LET me == WorkerOf[ProcessOf[u]]
  IN \/ me \in AssignedWorkers(s)
     \/ me \notin PrivateWorker /\ AssignedWorkers(s) = {}

Locked == {job[u] : u \in Unit} \ {NoRow}

(* Without FOR UPDATE ... SKIP LOCKED. *)
DueUnlocked(u) ==
  {a \in Pending :
     /\ request_attempt[a].due
     /\ ApplicationOf[request_attempt[a].subscription] \notin deleted_applications
     /\ Serves(u, request_attempt[a].subscription)}

(* Forgets failed_at IS NULL. *)
PickableFailed(u) ==
  {a \in (Pending \cup Failed) \ Locked :
     /\ request_attempt[a].due
     /\ ApplicationOf[request_attempt[a].subscription] \notin deleted_applications
     /\ Serves(u, request_attempt[a].subscription)}

Pickable(u) ==
  {a \in Pending \ Locked :
     /\ request_attempt[a].due
     /\ ApplicationOf[request_attempt[a].subscription] \notin deleted_applications
     /\ Serves(u, request_attempt[a].subscription)}

Pick(u) ==
  /\ pc[u] = "idle"
  /\ \E a \in Pickable(u) :
       /\ \A b \in Pickable(u) :
            request_attempt[a].created_at <= request_attempt[b].created_at
       /\ job' = [job EXCEPT ![u] = a]
  /\ pc' = [pc EXCEPT ![u] = "picked"]
  /\ UNCHANGED <<tables, retry, answers, aborts>>

(* work(): every error of the call, its timeouts included, is a failure     *)
(* that is stored; only the target's answer tells.                          *)
CallReturns(u) ==
  /\ pc[u] = "picked"
  /\ request_attempt[job[u]].subscription \notin Unstorable

CallSucceeds(u) ==
  /\ CallReturns(u)
  /\ pc' = [pc EXCEPT ![u] = "succeeded"]
  /\ answers' = [answers EXCEPT ![job[u]] = @ + 1]
  /\ UNCHANGED <<tables, job, retry, aborts>>

(* An error of the call is taken for an answer. *)
CallFailsUnnoticed(u) ==
  /\ CallReturns(u)
  /\ pc' = [pc EXCEPT ![u] = "succeeded"]
  /\ UNCHANGED <<tables, job, retry, answers, aborts>>

CallFails(u) ==
  /\ CallReturns(u)
  /\ pc' = [pc EXCEPT ![u] = "failed"]
  /\ UNCHANGED <<tables, job, retry, answers, aborts>>

(* compute_next_retry, and the INSERT of the retry that follows from it.    *)
NextDelay(s, count) ==
  IF IsActive(s)
  THEN compute_next_retry_duration(MaxFastRetries, MaxSlowRetries, count)
  ELSE GiveUp

(* The retry starts over instead of counting. *)
RestartedRetryOf(row, delay) ==
  [row EXCEPT !.retry_count = 0, !.due = delay = 0, !.created_at = clock + 1]

(* The retry counts what is left. *)
CountdownRetryOf(row, delay) ==
  [row EXCEPT !.retry_count = @ - 1, !.due = delay = 0, !.created_at = clock + 1]

RetryOf(row, delay) ==
  [row EXCEPT !.retry_count = @ + 1, !.due = delay = 0, !.created_at = clock + 1]

DecideRetry(u) ==
  LET row == request_attempt[job[u]]
      delay == NextDelay(row.subscription, row.retry_count)
  IN /\ pc[u] = "failed"
     /\ pc' = [pc EXCEPT ![u] = "decided"]
     /\ \/ /\ delay # GiveUp
           /\ retry' = [retry EXCEPT ![u] = RetryOf(row, delay)]
           /\ clock' = clock + 1
        \/ /\ delay = GiveUp
           /\ UNCHANGED <<retry, clock>>
     /\ UNCHANGED <<deleted_applications, subscription, event, request_attempt,
                    job, answers, aborts>>

-----------------------------------------------------------------------------
(* Unit u's transaction is over, whichever way. *)
Release(u) ==
  /\ pc' = [pc EXCEPT ![u] = "idle"]
  /\ job' = [job EXCEPT ![u] = NoRow]
  /\ retry' = [retry EXCEPT ![u] = NoRow]

(* For the units of process p. *)
Reset(p, f, v) == [u \in Unit |-> IF ProcessOf[u] = p THEN v ELSE f[u]]

(* The locks of the process survive it. *)
KeepLocks(p) ==
  /\ pc' = Reset(p, pc, "idle")
  /\ retry' = Reset(p, retry, NoRow)
  /\ UNCHANGED job

ReleaseProcess(p) ==
  /\ pc' = Reset(p, pc, "idle")
  /\ job' = Reset(p, job, NoRow)
  /\ retry' = Reset(p, retry, NoRow)

Settle(u, status) == [request_attempt EXCEPT ![job[u]].status = status]

CommitSuccess(u) ==
  /\ pc[u] = "succeeded"
  /\ request_attempt' = Settle(u, "succeeded")
  /\ Release(u)
  /\ UNCHANGED <<deleted_applications, subscription, event, clock, answers, aborts>>

(* The retry is inserted by a transaction of its own, which does not make it. *)
CommitFailureOnly(u) ==
  /\ pc[u] = "decided"
  /\ request_attempt' = Settle(u, "failed")
  /\ Release(u)
  /\ UNCHANGED <<deleted_applications, subscription, event, clock, answers, aborts>>

(* The failure and the retry become visible together. *)
CommitFailure(u) ==
  /\ pc[u] = "decided"
  /\ \/ /\ retry[u] = NoRow
        /\ request_attempt' = Settle(u, "failed")
     \/ /\ retry[u] # NoRow
        /\ \E id \in Free :
             request_attempt' = [Settle(u, "failed") EXCEPT ![id] = retry[u]]
  /\ Release(u)
  /\ UNCHANGED <<deleted_applications, subscription, event, clock, answers, aborts>>

(* A statement or the commit fails: look_for_work returns an error, the     *)
(* transaction is rolled back and the unit starts over.                     *)
Rollback(u) ==
  /\ pc[u] # "idle"
  /\ aborts < MaxAborts
  /\ aborts' = aborts + 1
  /\ Release(u)
  /\ UNCHANGED <<tables, answers>>

(* The process ends, by a crash or because a task panicked and main left    *)
(* its loop; the transactions of all its units are rolled back.             *)
ProcessExit(p) ==
  /\ \E u \in Unit : ProcessOf[u] = p /\ pc[u] # "idle"
  /\ aborts < MaxAborts
  /\ aborts' = aborts + 1
  /\ ReleaseProcess(p)
  /\ UNCHANGED <<tables, answers>>

(* The answer has a header value that Response::headers() cannot turn into  *)
(* a string: its expect panics and main leaves its loop.  Or the database   *)
(* refuses the body, a text that may not hold a NUL.  Whichever it is, the  *)
(* attempt is as it was before it was picked; other units of the process    *)
(* lose their transactions.                                                 *)
AnswerCannotBeStored(u) ==
  /\ pc[u] = "picked"
  /\ request_attempt[job[u]].subscription \in Unstorable
  /\ \/ /\ ReleaseProcess(ProcessOf[u])
        /\ IF \E v \in Unit \ {u} : ProcessOf[v] = ProcessOf[u] /\ pc[v] # "idle"
           THEN aborts < MaxAborts /\ aborts' = aborts + 1
           ELSE UNCHANGED aborts
     \/ Release(u) /\ UNCHANGED aborts
  /\ UNCHANGED <<tables, answers>>

(* delay_until passes. *)
DelayElapses(a) ==
  /\ a \in Pending
  /\ ~request_attempt[a].due
  /\ request_attempt' = [request_attempt EXCEPT ![a].due = TRUE]
  /\ UNCHANGED <<deleted_applications, subscription, event, clock, workers>>

UnitStep(u) ==
  \/ Pick(u)
  \/ CallSucceeds(u)
  \/ CallFails(u)
  \/ AnswerCannotBeStored(u)
  \/ DecideRetry(u)
  \/ CommitSuccess(u)
  \/ CommitFailure(u)

WorkersNext ==
  \/ \E u \in Unit : UnitStep(u) \/ Rollback(u)
  \/ \E p \in Process : ProcessExit(p)
  \/ \E a \in RequestAttempt : DelayElapses(a)

(* A unit loops for ever: main restarts it when it returns, and every call  *)
(* ends because reqwest has a timeout.                                      *)
WorkersFairness ==
  /\ \A u \in Unit : WF_<<tables, workers>>(UnitStep(u))
  /\ \A a \in RequestAttempt : WF_<<tables, workers>>(DelayElapses(a))
=============================================================================
