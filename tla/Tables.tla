-------------------------------- MODULE Tables --------------------------------
(***************************************************************************)
(* The PostgreSQL tables that the API and the output worker share, with    *)
(* the queries and the trigger that both go through.  Only committed rows  *)
(* are here; what a transaction wrote and did not commit yet is local to   *)
(* the component that runs it.                                             *)
(***************************************************************************)
EXTENDS Naturals, FiniteSets, Functions

CONSTANTS
  Application, Subscription, Event,
  RequestAttempt,      \* the ids that rows of webhook.request_attempt can get
  Kind,                \* an event type together with the labels of an event
  Worker,              \* rows of infrastructure.worker
  NoRow,               \* an id with no row
  ApplicationOf,       \* the application of a subscription or of an event
  KindOf,              \* the kind of an event
  DefaultWorkers,      \* iam.organization__worker with "default", by application
  AllowedWorkers       \* public workers and those of the organization

SubscriptionRow ==
  [is_enabled : BOOLEAN, deleted : BOOLEAN,
   accepts : SUBSET Kind,      \* event types and labels it filters on
   workers : SUBSET Worker]    \* webhook.subscription__worker

(* succeeded_at and failed_at are one status, delay_until is a flag that    *)
(* says whether it has passed.  dispatch is history: the dispatch of the    *)
(* event that this row, or the row it retries, was inserted by.             *)
AttemptRow ==
  [event : Event, subscription : Subscription, dispatch : Nat,
   retry_count : Nat, due : BOOLEAN,
   status : {"pending", "succeeded", "failed"}, created_at : Nat]

ASSUME TablesAssumption ==
  /\ ApplicationOf \in [Subscription \cup Event -> Application]
  /\ KindOf \in [Event -> Kind]
  /\ DefaultWorkers \in [Application -> SUBSET Worker]
  /\ AllowedWorkers \in [Application -> SUBSET Worker]
  /\ \A a \in Application : DefaultWorkers[a] \subseteq AllowedWorkers[a]
  /\ NoRow \notin SubscriptionRow \cup AttemptRow \cup RequestAttempt

VARIABLES
  deleted_applications,  \* applications whose deleted_at is set
  subscription,          \* webhook.subscription and the tables that detail it
  event,                 \* how often an event was dispatched; 0 before its row exists
  request_attempt,       \* webhook.request_attempt
  clock                  \* orders the statements that insert request attempts

tables == <<deleted_applications, subscription, event, request_attempt, clock>>

TablesTypeOK ==
  /\ deleted_applications \subseteq Application
  /\ subscription \in [Subscription -> SubscriptionRow \cup {NoRow}]
  /\ event \in [Event -> Nat]
  /\ request_attempt \in [RequestAttempt -> AttemptRow \cup {NoRow}]
  /\ clock \in Nat

TablesInit ==
  /\ deleted_applications = {}
  /\ subscription = [s \in Subscription |-> NoRow]
  /\ event = [e \in Event |-> 0]
  /\ request_attempt = [a \in RequestAttempt |-> NoRow]
  /\ clock = 0

-----------------------------------------------------------------------------
Stored == {a \in RequestAttempt : request_attempt[a] # NoRow}
Free == RequestAttempt \ Stored

Pending == {a \in Stored : request_attempt[a].status = "pending"}
Failed == {a \in Stored : request_attempt[a].status = "failed"}
Succeeded == {a \in Stored : request_attempt[a].status = "succeeded"}

(* A retry belongs to the chain of the attempt it retries. *)
ChainOf(row) == <<row.event, row.subscription, row.dispatch>>
SameChain(row, other) == ChainOf(row) = ChainOf(other)

(* WHERE deleted_at IS NULL AND is_enabled *)
IsActive(s) ==
  /\ subscription[s] # NoRow
  /\ subscription[s].is_enabled
  /\ ~subscription[s].deleted

-----------------------------------------------------------------------------
(* event.dispatch(), the trigger that fires when an event is inserted or    *)
(* its dispatched_at is cleared.                                            *)
Matching(e) ==
  {s \in Subscription :
     /\ IsActive(s)
     /\ ApplicationOf[s] = ApplicationOf[e]
     /\ KindOf[e] \in subscription[s].accepts}

FirstAttempt(e, s) ==
  [event |-> e, subscription |-> s, dispatch |-> event[e] + 1,
   retry_count |-> 0, due |-> TRUE, status |-> "pending", created_at |-> clock + 1]

(* The trigger loses its guard against subscriptions with several filters   *)
(* and inserts twice for one of them.                                       *)
DispatchTwice(e) ==
  \E ids \in SUBSET Free :
    \E to \in Surjection(ids, Matching(e)) :
      /\ request_attempt' =
           [a \in RequestAttempt |->
              IF a \in ids THEN FirstAttempt(e, to[a]) ELSE request_attempt[a]]
      /\ event' = [event EXCEPT ![e] = @ + 1]
      /\ clock' = clock + 1

Dispatch(e) ==
  \E ids \in SUBSET Free :
    \E to \in Bijection(ids, Matching(e)) :
      /\ request_attempt' =
           [a \in RequestAttempt |->
              IF a \in ids THEN FirstAttempt(e, to[a]) ELSE request_attempt[a]]
      /\ event' = [event EXCEPT ![e] = @ + 1]
      /\ clock' = clock + 1
=============================================================================
