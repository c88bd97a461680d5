------------------------------- MODULE EventApi -------------------------------
(***************************************************************************)
(* The handlers of the API that change what is to be delivered: events,    *)
(* subscriptions and applications.  Each handler first authorizes the      *)
(* request, which needs an application that is not deleted, and acts in a  *)
(* later statement: an authorized request stays in flight in between.      *)
(***************************************************************************)
EXTENDS Tables

CONSTANTS
  Body,             \* the subscriptions that requests describe
  MaxInFlight,      \* bound: authorized requests at a time
  MaxDispatches     \* bound: dispatches of one event

Request ==
  [op : {"ingest", "replay"}, target : Event]
    \cup [op : {"create", "edit", "delete"}, target : Subscription]
    \cup [op : {"delete_application"}, target : Application]

ASSUME EventApiAssumption ==
  /\ Body \subseteq [is_enabled : BOOLEAN, accepts : SUBSET Kind, workers : SUBSET Worker]
  /\ MaxInFlight \in Nat
  /\ MaxDispatches \in Nat

VARIABLES
  granted,       \* authorized requests that did not act yet
  interrupted    \* history: subscriptions that were disabled or deleted once

api == <<granted, interrupted>>

ApiTypeOK ==
  /\ granted \subseteq Request
  /\ interrupted \subseteq Subscription

ApiInit == granted = {} /\ interrupted = {}

ApplicationOfRequest(r) ==
  IF r.op = "delete_application" THEN r.target ELSE ApplicationOf[r.target]

(* authorize_for_application *)
Authorize(r) ==
  /\ r \notin granted
  /\ Cardinality(granted) < MaxInFlight
  /\ ApplicationOfRequest(r) \notin deleted_applications
  /\ granted' = granted \cup {r}
  /\ UNCHANGED <<tables, interrupted>>

(* The request leaves the API. *)
Take(op, target) ==
  LET r == [op |-> op, target |-> target]
  IN r \in granted /\ granted' = granted \ {r}

(* It leaves without an effect: its body is not valid, a quota is reached,  *)
(* or a statement fails.                                                    *)
Refuse(r) ==
  /\ r \in granted
  /\ granted' = granted \ {r}
  /\ UNCHANGED <<tables, interrupted>>

-----------------------------------------------------------------------------
(* The insertion fires the trigger in the same statement.  An event__id     *)
(* that exists already is a unique violation.                               *)
Ingest(e) ==
  /\ Take("ingest", e)
  /\ \/ event[e] = 0 /\ MaxDispatches > 0 /\ Dispatch(e)
     \/ event[e] # 0 /\ UNCHANGED <<event, request_attempt, clock>>
  /\ UNCHANGED <<deleted_applications, subscription, interrupted>>

(* Clears dispatched_at, which fires the trigger; no row, nothing happens.  *)
Replay(e) ==
  /\ Take("replay", e)
  /\ \/ event[e] # 0 /\ event[e] < MaxDispatches /\ Dispatch(e)
     \/ event[e] = 0 /\ UNCHANGED <<event, request_attempt, clock>>
  /\ UNCHANGED <<deleted_applications, subscription, interrupted>>

(* A body that asks for workers the organization cannot use is refused      *)
(* inside the transaction, which is then rolled back.                       *)
Acceptable(s, body) == body.workers \subseteq AllowedWorkers[ApplicationOf[s]]

Written(s, body) ==
  /\ subscription' = [subscription EXCEPT ![s] =
       [is_enabled |-> body.is_enabled, deleted |-> FALSE,
        accepts |-> body.accepts, workers |-> body.workers]]
  /\ interrupted' = IF body.is_enabled THEN interrupted ELSE interrupted \cup {s}

CreateSubscription(s, body) ==
  /\ Take("create", s)
  /\ subscription[s] = NoRow
  /\ \/ Acceptable(s, body) /\ Written(s, body)
     \/ ~Acceptable(s, body) /\ UNCHANGED <<subscription, interrupted>>
  /\ UNCHANGED <<deleted_applications, event, request_attempt, clock>>

(* The check of the dedicated workers is forgotten. *)
EditUnchecked(s, body) ==
  /\ Take("edit", s)
  /\ \/ subscription[s] # NoRow /\ ~subscription[s].deleted /\ Written(s, body)
     \/ subscription[s] = NoRow /\ UNCHANGED <<subscription, interrupted>>
     \/ subscription[s] # NoRow /\ subscription[s].deleted
          /\ UNCHANGED <<subscription, interrupted>>
  /\ UNCHANGED <<deleted_applications, event, request_attempt, clock>>

(* UPDATE ... WHERE deleted_at IS NULL; NotFound otherwise. *)
EditSubscription(s, body) ==
  LET found == subscription[s] # NoRow /\ ~subscription[s].deleted
  IN /\ Take("edit", s)
     /\ \/ found /\ Acceptable(s, body) /\ Written(s, body)
        \/ ~(found /\ Acceptable(s, body)) /\ UNCHANGED <<subscription, interrupted>>
     /\ UNCHANGED <<deleted_applications, event, request_attempt, clock>>

(* Sets deleted_at, again if it was set. *)
DeleteSubscription(s) ==
  /\ Take("delete", s)
  /\ \/ /\ subscription[s] # NoRow
        /\ subscription' = [subscription EXCEPT ![s].deleted = TRUE]
        /\ interrupted' = interrupted \cup {s}
     \/ subscription[s] = NoRow /\ UNCHANGED <<subscription, interrupted>>
  /\ UNCHANGED <<deleted_applications, event, request_attempt, clock>>

(* Sets deleted_at and nothing else: subscriptions and attempts stay. *)
DeleteApplication(app) ==
  /\ Take("delete_application", app)
  /\ deleted_applications' = deleted_applications \cup {app}
  /\ UNCHANGED <<subscription, event, request_attempt, clock, interrupted>>

ApiNext ==
  \/ \E r \in Request : Authorize(r) \/ Refuse(r)
  \/ \E e \in Event : Ingest(e) \/ Replay(e)
  \/ \E s \in Subscription, body \in Body :
       CreateSubscription(s, body) \/ EditSubscription(s, body)
  \/ \E s \in Subscription : DeleteSubscription(s)
  \/ \E app \in Application : DeleteApplication(app)
=============================================================================
