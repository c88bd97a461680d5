# Hook0, modelled in TLA+

Hook0 receives events from applications through an HTTP API and delivers them
as webhooks to the targets of the subscriptions that match.  This directory
holds TLA+ models of that system, translated from the Rust and SQL sources, the
TLC configurations that check them on small instances, and TLAPS proofs of the
results that matter for every instance.

## Inventory

| Component | Code | State | Operations |
|---|---|---|---|
| Output workers | `output-worker/src/main.rs`, `work.rs` | the transaction each unit has open; the configuration of its process | pick, call, settle, retry, give up, roll back, crash |
| Retry policy | `main.rs` 135-148, 542-589 | the `retry_count` (i16) of an attempt, two limits (u32) | delay of the next retry, or none |
| Heartbeat | `monitoring.rs`, `main.rs` 218-239, 483-486 | a channel of capacity 10, the time of the last heartbeat | send, receive, call the monitoring URL |
| Dispatch trigger | `api/migrations/*dispatch*`, last `20250806151141` | `event.event`, `webhook.request_attempt` | turn an event into attempts |
| Events API | `api/src/handlers/events.rs` | `event.event` | ingest, replay |
| Subscriptions API | `handlers/subscriptions.rs` | `webhook.subscription` and its detail tables | create, edit, delete |
| Applications API | `handlers/applications.rs` | `event.application.deleted_at` | create, edit, delete |
| Quotas and daily counts | `quotas.rs`, `materialized_views.rs`, `events.rs` 330-371 | `event.events_per_day` (a materialized view), notifications sent | check, refresh, notify |
| Retention | `old_events_cleanup.rs`, `soft_deleted_applications_cleanup.rs` | `event.event`, `event.all_time_events_per_day` | back up counts, delete old events, purge applications |
| Sessions | `handlers/auth.rs`, `middleware_biscuit.rs`, `expired_tokens_cleanup.rs` | `iam.token`, `iam.user` | login, refresh, logout, reset and change a password, clean up |
| Authorization | `iam.rs` | none; what a biscuit says | mint a biscuit, evaluate the policy for an action |
| Organizations | `handlers/organizations.rs`, `registrations.rs`, `unverified_users_cleanup.rs` | `iam.organization`, `iam.user__organization` | create, invite, revoke, change roles, delete, clean up |
| Event types, secrets, service tokens | `handlers/event_types.rs`, `application_secrets.rs`, `service_token.rs` | their tables | create, edit, deactivate, revoke |
| Request attempts, responses | `handlers/request_attempts.rs`, `responses.rs` | read-only | status of an attempt |
| The instance's own Hook0 client | `api/src/hook0_client.rs`, `clients/rust/src/lib.rs` | the remaining retries | upsert event types |
| Signature | `clients/rust/src/signature.rs`, `work.rs` | none | sign, verify |

The API and the output workers never call each other: they meet in PostgreSQL.
An event row fires the dispatch trigger, which inserts request attempts; the
workers poll for attempts that are due.  What makes the system hard:

* a unit keeps one transaction open across its HTTP call, so the call is made
  before anything of it is visible, and a lost transaction forgets it;
* any number of units and processes compete for the same rows with
  `FOR UPDATE ... SKIP LOCKED`;
* every API handler authorizes in one statement and acts in later ones;
* what a caller may do is written in their token when it is minted, while only
  the database knows what has been revoked since;
* a client that has lost an answer does not know what its request has done;
* subscriptions are edited, disabled and deleted while attempts wait for hours;
* counters have the widths of their columns, limits those of the configuration;
* a periodic task works from a materialized view that is stale by design.

Most correctness questions are about rows that outlive the request that wrote
them.  `PROJECT.json` lists the hazards, at their lines, with the properties
that cover them.

## The modules

| Module | What it is |
|---|---|
| `RetryPolicy` | `compute_next_retry_duration` and the arithmetic of u32 and i16, with the widths as constants |
| `RetrySchedule` | the chain of attempts that fail one after the other: what the policy adds up to |
| `RetryScheduleProofs` | the bounds of such a chain, for all widths and limits |
| `Tables` | the shared tables, the queries that both sides make, the dispatch trigger |
| `OutputWorker` | processes and units: one action per step of `look_for_work` that others can observe |
| `EventApi` | the handlers that change what is to be delivered |
| `Pipeline` | `OutputWorker` and `EventApi` over `Tables`; the properties of the whole |
| `Delivery` | the abstract specification: dispatches open deliveries, deliveries end delivered or abandoned |
| `PipelineProofs` | the inductive invariant of the pipeline and what follows from it |
| `DeliveryProofs` | the refinement mapping from the pipeline to `Delivery`, step by step, and what the promise amounts to for one delivery |
| `Quotas` | the limits that apply to an application, and the retention that the clean-up computes for itself in SQL |
| `DailyEvents` | the daily count of events and what hangs on it: the view, the daily quota, its notifications, the backup, the clean-up of old events |
| `DailyEventsProofs` | the inductive invariant of the daily counts and what follows from it |
| `Organizations` | users, memberships, organizations and their applications, with the clean-up of what nobody uses |
| `OrganizationsProofs` | the inductive invariants of the organizations and what follows from them |
| `Authorization` | biscuits, and the policy of `iam.rs` as predicates over them: who may do what |
| `Credentials` | sessions with their tokens, service tokens, application secrets and roles: what is minted when, and what ends it |
| `CredentialsProofs` | the inductive invariants of the credentials and what follows from them |
| `EventTypes` | event types and subscriptions under their quotas, and the instance's client that upserts its event types |
| `EventTypesProofs` | the inductive invariants of the event types and what follows from them |
| `Heartbeat` | the units of a process, the channel and the task that calls the monitoring |
| `HeartbeatProofs` | the inductive invariant of the channel |
| `MCRetrySchedule`, `MCPipeline`, `MCDailyEvents`, `MCOrganizations`, `MCCredentials`, `MCEventTypes`, `MCHeartbeat` | instances for TLC |

`Pipeline` composes `OutputWorker` and `EventApi` over `Tables`, and is shown to
implement `Delivery`.  `DailyEvents` stands beside it: it shares the table of
events with the pipeline, but its questions are about numbers and days, and the
pipeline's are about rows and transactions.  In `EventApi` a quota is therefore
a refusal that may happen at any time, and `DailyEvents` says when it does.
`Organizations` is what the pipeline takes for granted, the applications and
who owns them; both meet only in `application`, which one module creates and
purges and the other one uses.  `Credentials` says which requests get as far as
those modules' actions: it takes memberships from the handlers that
`Organizations` models with their foreign keys, adds the roles, and leaves out
what the requests do then.  `EventTypes` is a client and the API on its other
side: the requests that the client sends are handled by the same actions as
everybody else's.  `Heartbeat` is what couples the units of a process that
otherwise meet in the database only.

### From the code to the models

*Transactions.*  `Tables` holds committed rows only.  A unit's transaction is
its `pc`, its `job` (the row it locked) and its `retry` (the row it has inserted
and not committed).  `Pick` is the `SELECT ... FOR UPDATE OF ra SKIP LOCKED`
with the update of `picked_at`, which nobody sees before the commit;
`CallSucceeds` and `CallFails` are the HTTP call together with the statements up
to `is_success`; `DecideRetry` reads the subscription again and inserts the
retry; `CommitSuccess` and `CommitFailure` make everything visible at once.
`Rollback` is any statement that fails (`look_for_work` returns an error and
`main` starts it over), `ProcessExit` a crash: `main` leaves its loop as soon as
one task panics, and the transactions of all units of the process are lost.

*The answer.*  Every outcome of `work()` is an answer that is stored, timeouts
included, except the ones in `AnswerCannotBeStored`: a header value that is not
visible ASCII panics in `Response::headers()`, and the text column refuses a
body with a NUL.  `Unstorable` is the set of subscriptions whose target answers
so.  Their attempts are called again and again (`starvation`), nothing of it is
counted in `answers`, and `DuplicatesAreAccountedFor` does not speak of them.

*Time.*  `delay_until` is a flag, `due`, that `DelayElapses` raises; `created_at`
is a logical clock that orders insertions, which is all `ORDER BY` needs.  The
delays themselves are in `RetrySchedule`.

*Requests.*  `Authorize` is the lookup of the application by
`authorize_for_application`; the granted request stays in `granted` until its
handler acts or refuses it, so that anything may happen in between.  `Refuse`
stands for the early returns (validation, quotas, failing statements).  A
handler that writes in one transaction is one action.  An event type together
with the labels of an event is a `Kind`, and a subscription accepts a set of
kinds: the trigger's join and the operator `@>` on labels are this membership.

*Days.*  `today` is `CURRENT_DATE`, and the only clock of `DailyEvents`.  An
ingestion is split where the code waits: reading the view (`ReadCount`, with the
decisions that follow from what it read), looking for the day's notification
(`LookUp`), the transaction that mails and inserts it (`Notify`), and the
`INSERT` of the event, whose `received_at` is the start of the statement
(`StartInsert`) and which is visible later (`CommitInsert`).  Days pass between
any two of these.  A row that a table or the view does not have is a count of 0.
`Refresh`, `BackUp` and `DeleteOldEvents` are the periodic tasks; the backup is
made outside the transaction of the deletion, so a clean-up can stop, fail or
only report between the two.  Quotas are i32 of width `I32Max`, and the
percentage wraps as release builds do.

*Organizations.*  Each statement is atomic, and so is a handler that makes one
transaction (`Register`, `CreateOrganization`) or whose second statement is
right whatever happened since the first (`Revoke`, `DeleteApplication`,
`VerifyEmail`, which is also what a reset of the password does to a user).  The
other handlers are a `Query`, whose answer stays in `requests`, and a second
statement that may come at any time or `Fail`.  The transaction of the clean-up
has `cleaning` for its progress, `chosen` for the organizations that its second
`DELETE` is about to delete, and `doomed` for the rows it has deleted and not
committed: they are still there for everybody else, and whoever wants to change
or refer to one waits (the guards on `doomed`).  A handler that waited
goes on after the commit with what it then finds, or after the rollback.  The
cascades of the foreign keys are `MembershipsWithout` and
`ApplicationsWithout`.  `aged` is the passing of the grace periods.

Which statements are one step, and which are two.  An `INSERT` is one step, at
its commit.  From its start it holds a key lock on the rows it refers to, so
that whoever deletes one of them waits for it; to a deletion that decides and
locks in one instant it therefore comes before or after.  The second `DELETE` of
the clean-up does not: in PostgreSQL's read committed mode it decides on the
snapshot of its start, waits for running inserts, and does not look again at
what they have inserted, because the organization's own row has not changed.  It
is two steps, `FindUnreachableOrganizations` and
`DeleteUnreachableOrganizations`.  An `INSERT` that it cannot see is one that
commits between the two, and goes to `missed`; the commit then cascades over it.
The first `DELETE` asks for columns of the user's own row only, which are looked
at again after a wait, so it stays one step.

*Credentials.*  A biscuit is a record of the facts that the policy looks at;
attenuation appends a block, so it can only add the two checks `application`
and `expires`.  `Authorized` is the Datalog policy of `authorize()` read as a
predicate: `valid_type` and the checks of appended blocks are `IsValid`,
`valid_role` with `organization_id` is `HasRole`, and the handlers that call
`authorize_only_user` are the `Personal` actions but one.  A request is
`authenticated` when the middleware has found its token alive (`Accepted` is
what it lets through, the secrets turned into attenuated biscuits included),
`granted` when its handler has authorized it, and then acts in a later
statement (`EditRole`, `DeleteKey`, ...) or starts one (`Logout`, `ChangePassword`) or returns without an
effect (`Return`); everything may happen in between.  A login is `verified` with
the right password and `minted` when the roles are read and the biscuits made;
a refresh goes to `minted` with the `UPDATE` of its token (`Exchange`), which is
in the same transaction as the insertion (`Issue`): it holds the row until then,
and a refresh with the same token or the clean-up wait for it (`Locked`, `Held`).
A logout, or a change or a reset of a password, is an `UPDATE` of several rows
and takes two steps.  At its start, `update` keeps the rows that are live then,
its snapshot.  `EndSessions` is its end, a step that waits until no refresh holds
one of these rows, looks at each of them again, and commits.  Rows that a refresh
inserted while it waited are not among them and stay live.  Which of its rows it
has locked before it waits for the next one is left out: a refresh or a clean-up
that would wait for it comes later.  That two changes of the same password wait
for each other at the user's row is left out, too: the model allows more.  A refresh that
finds no live token to update goes on all the same, as the code does.  Both
biscuits of a pair share a revocation id in the model, one per table.  Time is
`now`; lifetimes keep their order, not their length.  Links in mails are not
stored: one that is valid exists whenever one could have been sent.

*Event types.*  A handler's first statement is `Create` or `Delete`, its second
`CommitCreate` or `CommitDelete`.  The upsert of an instance is a small program:
`List`, then a `Post` for each event type that was missing, one at a time, whose
answer is its `CommitCreate`.  `FailForNow` is a lost connection, a timeout or a
5xx: the client waits and starts over while the request, if it got through, goes
on without anybody waiting for it (`by` becomes `NoRow`).  `FailForGood` and
`Refuse` are the errors that are not retried, the 429 of the quota among them.
`Restart` is a new process.

*Heartbeat.*  The channel is a count, and the units that wait for room in it
are a queue, as tokio's semaphore keeps them: whoever came first gets the room
that a `Receive` makes.  `Receive` and the start of a call are one action, since
the sender does nothing between them; a call ends with `Answer`, whatever the
answer was.

*History.*  `left_at`, `revoked_at`, `ended`, `escaped`, `forked` and the
`sessions` and `late` of an `update` in `Credentials`, `missed` in
`Organizations`, `seen` in `EventTypes`, `rounds` in `Heartbeat`, `received` and
`late` in `DailyEvents`, `dispatch` in a row, `answers` and `interrupted` are
history: what they hold decides nothing but other history (and that a login
takes a session of its own).  `dispatch` tells the replays of an event apart,
so that a chain is an event, a subscription and a dispatch.

## What is checked

| Run | Instance | What it shows |
|---|---|---|
| `retry_schedule` | u32 scaled to 200, i16 to 127; limits at 0, around i16's and u32's edge | chains end, have the exact length the limits allow (also when the sum wraps or the counter does), never exceed it, and back off |
| `delivery` | 2 subscriptions, one with answers that cannot be stored, 1 event, 2 units of one process, 3 attempts, 2 dispatches, 1 lost transaction, 2 retries | types, exclusive picks, linear chains that never break off, honest successes, bounded duplicates, settled rows final, and the refinement of `Delivery` |
| `settle` | 1 subscription that is enabled, disabled, deleted and moved between workers; a public, a private and somebody else's private worker, 3 attempts, 2 retries | every attempt that is served is settled once clients stop editing the subscription; nothing gets to the foreign worker |
| `pick_after_deletion` | 1 unit | violation: a pending attempt is delivered after its subscription's deletion |
| `starvation` | 2 subscriptions, one with answers that cannot be stored, 1 unit | violation: the other subscription's attempt is never picked |
| `daily_quota` | 1 application with 2 events a day, a threshold of 40 %, 2 requests at a time, 2 days | once the view shows the quota reached only requests under way pass it; a notification goes out as often as requests looked it up together, never undeserved, and before events above the threshold get in |
| `retention` | 1 application, 5 days, 2 events a day, events kept for 4 days | counts never exceed what was received, no event is deleted before its day is in the backup, and every day gets there |
| `organizations` | 2 users, 2 organizations, one of them paid with a plan of 0 applications, a limit of 1 for the other, 3 applications, 2 requests at a time | an organization passes its quota by less than the requests under way, nothing refers to a row that is gone, the clean-up takes no verified user, and nothing of theirs and no application but what its second `DELETE` could not see, and organizations without price in which nobody is verified go in the end |
| `credentials` | 1 user, 1 organization, 1 application, 1 session, 2 pairs of tokens, a service token and a secret, 2 logins or refreshes, 2 other requests and 1 `UPDATE` of several tokens at a time, access tokens for 1 and refresh tokens for 2 units of time | sessions that ended have no live token and get none, unless a login or a refresh met the `UPDATE`, refresh tokens rotate, rights are recent, and secrets fade once revoked |
| `password_change` | 2 users, 2 sessions | violation: the sessions of another user end, too |
| `event_types` | 4 event types, 2 of them required, room for 2; 1 subscription with room for 1; 1 instance with 1 retry, 2 requests at a time | quotas are passed by less than the requests under way, upserts that succeed were complete, and upserts end |
| `heartbeat` | 4 units, a channel for 3 | during one call the units finish at most 7 rounds together, each comes through, the monitoring hears of a worker that works and not of one that hangs |

### Bounds

`MaxAborts` bounds the lost transactions, `MaxInFlight` the requests between
authorization and action, `MaxDispatches` the dispatches of an event, and the
set `RequestAttempt` the rows.  In `delivery` three rows are a chain with all
its retries, or chains of two dispatches or two subscriptions side by side; one
lost transaction can hit every step of either unit, and the two units contend
for every row; in `settle` a chain can reach its last retry with the
subscription disabled, or moved to another worker, at each step.
A third unit or attempt only repeats what two do to each other: units have no
state beyond one row, and attempts of different chains share nothing but the
order in which they are picked.  The proofs remove the bounds for safety.

Attempts and units are symmetric in `delivery`, clients in `daily_quota`, pairs,
sessions and requests of a kind in `credentials`; runs with liveness use no
symmetry.

`LastDay` bounds the days and `MaxEvents` the events of an application on a day.
In `daily_quota` five events are a quota of two, two requests under way and one
too many; the second day makes every step of a request fall before or after a
midnight.  `I32Max` is 1000 there, far from where a percentage wraps: that
notifications are deserved even then is the proof's result and not the run's.
In `retention` events are kept for four days, so that on the fifth
the first day's events are deleted in part or altogether, with every order of
the refreshes, backups and deletions on the way.  `Midnight` assumes two things
about time: the view is refreshed at least once a day (the default period is a
minute), and what is under way at a midnight, a clean-up or an `INSERT`, is over
before the next one.  Four days are what the properties need: events can be
committed up to a day late, the view can be a day old when they are, and the
clean-up can work from a backup of the day before.  The defaults are 7 days of
retention and 30 of grace.

In `organizations` two applications compete for a limit of one, with another
handler or the clean-up between the statements of each; the paid organization's
plan allows none, which is the edge where nothing may get through.  Two users
are a verified and an unverified member of one organization, or members of two.
`Related` leaves out two invitations at a time, a second request while the
clean-up is open and, in the organization that pays, every request but the
creation of applications and one of the two members: two requests meet the
clean-up each for itself, or each other without it.  For the liveness property
this means that it is checked over behaviours without them; what matters there are the two periodic tasks and a user who is verified,
invited or revoked, or an application that is created, between their steps.

In `credentials` time runs from 0 to 2 (`MaxTime`): tokens are minted, expire,
are refreshed once and cleaned up.  Of the four requests two can log in or
refresh, with the same token or with the one that the other has just made; the
other two (`Calls`) are logouts and changes of passwords that race them, one at
a time and none while the `UPDATE` of another is running, or requests with a key
that race its deletion.  Two constraints keep sessions and
keys apart, which share no state but the clock, and `FewEdits` lets one role be
lost, before any session ends: regaining a role, or losing a second one, only
makes rights more recent.  `AskedFor` lets every type of token ask for a few
actions that its holders are allowed or refused.  What the bounds leave out is
proved: the properties hold for every number of everything.

In `event_types` the two event types that nobody requires can take the room of
the required ones at any moment; with one retry an answer is lost once before
the one that counts, and `Restart` brings retries back without a bound.  In
`heartbeat` four units are one more than the channel holds, so that one has to
wait behind another; `MaxRounds` is one more than the bound of `BackPressure`.

### Fairness

`FairSpec` makes each unit's steps and the passing of time weakly fair.  `main`
runs `look_for_work` in an endless loop and starts it over when it returns, the
HTTP client has a timeout, and a process that ends is restarted by its
deployment (`self-hosting/kubernetes`).  Nothing is assumed of API clients, and
lost transactions are bounded: with a fault at every attempt nothing can settle.
`AttemptsSettle` asks that the subscriptions are left alone in the end: a client
that moves one back and forth between two workers for ever can keep both from
ever seeing its attempt.

In `DailyEvents`, `FairSpec` makes the refresh, the two halves of the clean-up
and midnights weakly fair: the periodic tasks are endless loops that log errors
and go on, and time passes.  Nobody has to ingest anything.

In `Organizations`, `FairSpec` makes the grace periods, the purge and the start
of the clean-up weakly fair, and both steps of its second statement and its
commit strongly fair: both tasks are endless loops, and one that fails starts over, but it does
not fail for ever.  Both have to be enabled in the configuration, and the
clean-up has to delete (`ReportAndDelete`).  No request has to come.

In `EventTypes`, `FairSpec` makes the steps of each upsert weakly fair: each of
its requests is answered, or its connection breaks in the end.  The client sets
no timeout of its own, so this is the network's doing and not the program's.
`UpsertsEnd` asks that the process is not started again for ever.  In
`Heartbeat` the sender and the clock are weakly fair, and nothing makes a call
end, because it has no timeout either: `UnitsComeThrough` and
`HeartbeatsKeepComing` say what they need (`CallsEnd`, `RoundsEnd`), and
`BackPressure` says what happens without it.  `Credentials` has no fairness:
nobody has to do anything.

## What is proved

`PipelineProofs` proves safety for every number of units, processes,
subscriptions, events, attempts and limits, from three assumptions on the
constants (`TablesAssumption`, `OutputWorkerAssumption`, `EventApiAssumption`)
and `WidthAssumption`: routing tables are functions, the body of a request is
well formed, and the sum of the two limits fits u32 and i16.

No property of the pipeline is inductive.  `IInv` adds what ties the three
places where an attempt lives together:

* `JobsAreOpen`, `JobsDiffer`: a unit has a job exactly while its transaction
  is open, the job is pending, and no other unit has it (row locks);
* `DecisionsFit`: what a unit decided about its job is still right when it
  commits, even if the subscription has changed in between;
* `RowsAreKnown`: rows belong to dispatches that happened, so that a replay
  opens new chains;
* `InactiveWereInterrupted`: giving up early has a reason;
* `AnswersAreReal`: success is only claimed for answers.

The proof describes a step twice, by what it makes of the rows (`RowsStep`:
nothing, new chains, or the settlement of one unit's job) and by what it makes
of the units (`Still`, `Released`, `Moved`), and derives each conjunct from
these.  `ExclusivePickHolds`, `ChainsAreLinearHolds`,
`ChainsDoNotBreakOffHolds`, `SuccessWasAnsweredHolds` and `SettledIsFinalHolds`
follow; `PrivateWorkersAreReservedHolds` needs the further invariant
`WorkersAreAllowed`.

`DuplicatesAreAccountedForHolds` counts the answers of a whole chain.  They are
a set of pairs, an attempt and a number (`AnswersOf`), so that an answer more is
an element more and no sum has to be taken.  `DuplicatesInv` says when the chain
may have one answer more than transactions were lost (`IsAnswered`): while an
attempt of it is recorded as succeeded, or a unit that was answered is about to
commit.  A unit can only be answered where neither is the case, because a chain
is linear and its open attempt is in one unit's hands (`OpenIsNotAnswered`), and
a unit leaves "succeeded" by its commit or by a lost transaction, which is
counted (`LossesAreCounted`).  The other half of the invariant, that ids without
a row have no answers, lets a retry join its chain and a replay begin one.

`DeliveryProofs` proves the refinement, `DeliveryIsImplemented`.  A delivery is
a chain; it is opened when it has a row, delivered when a row of it succeeded,
and abandoned when its rows have all failed.  `OneThingAtATime` splits a step:
it dispatches one event, or interrupts one subscription and leaves the attempts
alone, or does neither and is one of the `RowsStep`s.  Each kind has a lemma
that says what it makes of the mapping (`QuietMaps`, `DispatchMaps`,
`SuccessMaps`, `FailureMaps`, `RetryMaps`).  That a settlement is a step which
`Delivery` allows is `PendingIsNextTry`: the open attempt of a chain is its only
one, and its failed ones carry all smaller counts.  That a chain which ends in
failure may end there is `DecisionsFit`.

From the refinement follows `EndsForAReasonHolds` by an invariant of `Delivery`
alone (`TriesInv`, with the tries before a failed one): without an interruption,
only deliveries with 1 + `MaxRetries` failed tries are given up.
`AttemptsAreBoundedHolds` maps the rows of a chain to their retry counts, which
differ and go no further than `MaxRetries`.

`RetryScheduleProofs` proves the exact length of a chain (`ChainLengthHolds`),
its bound (`NeverTooManyHolds`), its back-off (`DelaysGrowHolds`) and the type
of the counter, for all widths and limits.

`DailyEventsProofs` proves, for every number of clients, applications, days and
limits, the types, that neither the view nor the backup shows more than was
received (`CountsAreRealHolds`), that notifications are deserved even where the
percentage wraps (`NotificationsAreDeservedHolds`), and that no event is deleted
before its day is in the backup (`NoDayIsForgottenHolds`).  The last one needs
`LongRetention`, that every application's events are kept for at least four
days, the grace period included.  Its invariant adds what is known of each day
by its age: when an event can still arrive, when the view has seen all of the
day, when the backup has.  The others rest on `NothingIsEarly` (no request,
clean-up or event is dated after today) and `RequestsAreJustified` (a request
about to notify has read a count that deserves it, and counts received only
grow).

Two results bound what slips through between two statements.  The bound itself is not
inductive; what is, is the sum of what has happened and of the requests that can
still make it happen, in which every step of a request moves one from one term
to the other:

* `FewInv`: the notifications of a type and a day, and the requests that looked
  for one, found none and can still date theirs to that day
  (`NotificationsAreFewHolds`);
* `LateInv`: the events that went in after the view showed the quota reached,
  and the requests that passed it and can still insert one that day
  (`QuotaClosesBehindRequestsHolds`).  It also says that nobody passes any more:
  until midnight the view keeps showing what it showed, since it never shows
  more of today than the table has and the table loses nothing of today.

The second needs `TodayIsKept`: if the clean-up deletes, retention and grace
period together are not 0 days.  With 0 it may delete events of today, the next
refresh counts fewer, and the quota opens again.

`AboveThresholdIsWarnedHolds` follows from the steps of a request: it only gets
to its insertion past the warning that it sent or found.  The numeric part is
`AboveThresholdIsNoticed`: the percentage of a count above the threshold is
above it, as long as `100 * current` stays in the i32, which is a part of the
property.

`OrganizationsProofs` proves, for every number of users, organizations,
applications and requests, the types, that nothing refers to a row that is gone
(`NoOrphansHolds`), that the clean-up is harmless (`CleanUpIsHarmlessHolds`) and
the bound on applications (`ApplicationsNearQuotaHolds`), from
`OrganizationsAssumption`.  `NoOrphans` and the clean-up need `DoomedAreUnused`:
what the open transaction has deleted is still unverified, and has no members
that stay and no applications but those in `missed`, which the row locks see to;
of what is chosen and not deleted yet, the same holds without any lock, because
whatever is committed in it goes to `missed`.  The bound is not
inductive as it stands: an insertion keeps the sum of an organization's
applications and of the requests about to add one, so `QuotaIsHeld` bounds that
sum.

`CredentialsProofs` proves the types and all properties of the credentials, for every
number of users, organizations, keys, sessions and requests and for all
lifetimes, from `AuthorizationAssumption` and `CredentialsAssumption`.  It first
shows that a step is one of few kinds (`Quiet` where nothing is minted, a
request that goes on, `Exchange`, `Issue`), with `Inv`: the types, the biscuits
that requests carry are well formed and authorized (`AllProper`, which alone
gives `KeysStayInScopeHolds`: a key acts in its scope only), and a refresh still holds the row it has updated
(`Holding`).  Then each property has its own strengthening:

* `SecretInv`: what stands for a secret ends within `SecretLifetime` of its
  revocation, known as soon as the biscuit is made (`SecretsFadeHolds`);
* `RightsInv`: every stored token, biscuit and minted login carries roles that
  their user still has, or lost less than the access token's lifetime before it
  expires; the property itself only speaks of granted requests
  (`RightsAreRecentHolds`);
* `SessionInv`: a session belongs to one user, and a login in flight has one of
  its own; without it a logout, which expires the tokens of a user *and* a
  session, could miss some;
* `UpdatesAreComplete`: of a session that a running `UPDATE` is to end, no row is
  live but those of its snapshot, and nobody is about to insert one
  (`Closed(s, rows)`), unless the session is `late`.  It holds at the start
  because of `SessionInv`, and stays true because a refresh that comes in makes
  the session late.  When the `UPDATE` is done its rows are dead, and
  `Closed(s, {})` is `EndedSessionsStayEnded` (`EndedSessionsStayEndedHolds`);
* `RotationInv`: of a session that has not forked there is one live refresh
  token, or one request that holds it and is about to replace it
  (`RefreshTokensRotateHolds`).

`EventTypesProofs` proves the types, `UpsertsAreCompleteHolds` (`Accounted`: what
is not missing any more was seen since the last list) and
`DeclaredNearQuotaHolds` (`QuotaInv`: active rows and requests about to create
one fit together).
`HeartbeatProofs` proves `BackPressureHolds` from `Queued`: units only wait while
the channel is full, each of them once, and every round that ended during a call
is in the channel or waits for it.

Only model-checked are the liveness properties: `ChainEnds`, `AttemptsSettle`,
`EveryDayIsBackedUp`, `UnreachableOrganizationsGo`, `UpsertsEnd`,
`UnitsComeThrough`, `HeartbeatsKeepComing` and `SilenceIsNoticed`.  Liveness
under fairness needs `ENABLED`, which is out of the prover's reach.  Every
invariant, every action property and the refinement that a passing run checks is
proved, too.

## Findings

* A user who changes or resets their password ends the sessions of every user
  of the instance: in the statement that expires tokens, `AND` binds tighter
  than `OR` (`password_change`; `auth.rs` 763-768).
* Pending attempts of a deleted subscription are still delivered
  (`pick_after_deletion`).
* An answer that cannot be stored blocks the queue of a lone unit for ever
  (`starvation`).

Noticed while modelling, without a run of their own:

* The first fast retry waits 0 s: its delay is the minimum of 5 s times a count
  that is 0 (`output-worker/src/main.rs` 580; the comment at 141 says "How long
  to wait before first fast retry").
* The retention quota deletes events even where quotas are not enforced
  (`api/src/main.rs` 584 and 223).
* An application that is created between the check and the deletion of its
  organization is deleted with it (`organizations.rs` 784), although "Organization
  must not contain any application otherwise this will fail" (749).
* From 21,474,837 events a day on, the percentage of the daily quota wraps in
  release builds and the warning is not sent.
* An ingestion that was authorized before its application was deleted still
  stores its event, which is then never delivered.
* The quota of members of an organization is shown to its users and never
  enforced: nothing raises `TooManyMembersPerOrganization`.
* An invitation adds an account that is not verified yet, and the clean-up of
  unverified users then takes the membership with the account.
* A logout, or a change of password, with a refresh or a login in flight leaves
  live tokens, although logout is described as "Revoke all tokens associated to
  the current session." (`auth.rs` 456).  Its `UPDATE` waits for the row that the
  refresh has updated and then looks at that row again, but not for the pair that
  the refresh has inserted (`auth.rs` 473-486, 412-447).
  `EndedSessionsStayEnded` has to except these sessions (`escaped`).  Two
  refreshes with the same token can both succeed (`forked`), because nobody looks
  whether the `UPDATE` found a row.
* The clean-up of unreachable organizations can delete an application, or the
  membership of a verified user, whose `INSERT` was running while its second
  `DELETE` took its snapshot (`unverified_users_cleanup.rs` 95-108):
  `CleanUpIsHarmless` has to except them (`missed`).
* A link to reset a password can be used again until it expires.
* The `token_id` in a service token's biscuit is not the id of its row, which the
  database chooses (`service_token.rs` 74 and 85).
* Events of a deactivated event type are still accepted, although the deletion of
  an event type is described as "preventing it from being used for new event
  emissions" (`event_types.rs` 281): the foreign key looks at the row, and nothing
  at `deactivated_at`.
* An upsert of event types gives up on a 429, of the rate limiter or of the quota;
  the quota also refuses an event type that is there already, when another
  instance, or a request whose answer was lost, has created it since the list.
* A status "in progress" of a request attempt cannot be seen: `picked_at` is set
  in the transaction that settles the attempt.
* A monitoring that accepts the connection and never answers stops all units of
  the process, once the channel is full: the call has no timeout.
* The clean-up of old events and a unit that inserts a retry can wait for each
  other, one for the attempt, the other for the event; PostgreSQL aborts one.

## Not modelled, and why

* The front end, the website and the mediakit only call the API.
* Mails, Cloudflare's Turnstile, the extraction of the user's IP and the OpenAPI
  description are input and output without state that other parts read; the
  rate limiters are configured from a library (actix-governor) and keep no state
  that a handler reads.
* The import of users from Keycloak is a migration behind a build feature.
* `signature.rs` is a pure function: a comparison of an HMAC over bytes, with a
  tolerance on a timestamp.  What could be wrong in it is the encoding of
  strings, which a model would abstract.
* `request_attempts.rs` and `responses.rs` only read, as all listing handlers do;
  the status of an attempt is a case distinction on the dates of one row.
* Renaming handlers (`edit` of applications, organizations, secrets and service
  tokens) change nothing that another part reads.
* The deletion of dangling responses, and the row locks between the clean-up of
  old events and the units, are left out of `DailyEvents` and `Tables`, which
  deletes no rows.
* The content of payloads, headers and signatures is abstracted: no property
  depends on it.  `sentry-integration` and logging are left out.
