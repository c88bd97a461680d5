------------------------------ MODULE EventTypes ------------------------------
(***************************************************************************)
(* What an application declares, its event types and its subscriptions,    *)
(* under quotas that are counted in one statement and used in another; and *)
(* the Hook0 client of other instances, which makes sure at every start    *)
(* that the event types it is going to send exist, and retries.            *)
(***************************************************************************)
EXTENDS Quotas, FiniteSets

CONSTANTS
  EventType, Subscription,
  Instance,             \* processes of the API that are linked to this application
  Required,             \* EVENT_TYPES
  Retries,              \* hook0_client_upserts_retries
  Request,              \* requests that can be under way at a time
  ApplicationLimits, PlanLimits, GlobalLimits,   \* by kind of declaration
  NoRow                 \* no value

Kind == {"event_type", "subscription"}
Declared == EventType \cup Subscription
KindOf(x) == IF x \in EventType THEN "event_type" ELSE "subscription"

(* by is the instance that waits for the answer, if one does. *)
RequestRow ==
  {q \in [op : {"create", "delete"}, about : Declared, by : Instance \cup {NoRow}] :
     q.by # NoRow => q.op = "create" /\ q.about \in EventType}

Upsert ==
  [pc : {"listing", "creating", "waiting", "done", "gave_up"},
   missing : SUBSET EventType, retries : 0 .. Retries]

ASSUME EventTypesAssumption ==
  /\ IsFiniteSet(EventType) /\ IsFiniteSet(Subscription) /\ IsFiniteSet(Request)
  /\ EventType \cap Subscription = {}
  /\ Required \subseteq EventType
  /\ Retries \in Nat
  /\ ApplicationLimits \in [Kind -> QuotaValue \cup {NoLimit}]
  /\ PlanLimits \in [Kind -> QuotaValue \cup {NoLimit}]
  /\ GlobalLimits \in [Kind -> QuotaValue]
  /\ NoRow \notin Instance \cup RequestRow

VARIABLES
  row,        \* event.event_type and webhook.subscription; their dates as a status
  request,    \* requests that were accepted by their first statement
  upsert,     \* the upsert task of an instance
  seen        \* history: required event types that were active since it last listed them

vars == <<row, request, upsert, seen>>

TypeOK ==
  /\ row \in [Declared -> {"absent", "active", "deactivated"}]
  /\ request \in [Request -> RequestRow \cup {NoRow}]
  /\ upsert \in [Instance -> Upsert]
  /\ seen \in [Instance -> SUBSET EventType]

Begun == [pc |-> "listing", missing |-> {}, retries |-> Retries]

Init ==
  /\ row = [x \in Declared |-> "absent"]
  /\ request = [r \in Request |-> NoRow]
  /\ upsert = [i \in Instance |-> Begun]
  /\ seen = [i \in Instance |-> {}]

-----------------------------------------------------------------------------
Active(kind) == {x \in Declared : KindOf(x) = kind /\ row[x] = "active"}

InFlight == {r \in Request : request[r] # NoRow}
Outstanding(i) == {r \in InFlight : request[r].by = i}

Limit(kind) ==
  get_limit_for_application(ApplicationLimits[kind], PlanLimits[kind], GlobalLimits[kind])

AtMostLimit(kind) == Cardinality(Active(kind)) <= Limit(kind)

(* SELECT COUNT: an event type that is there already, and would only be     *)
(* confirmed, is not told from a new one.                                   *)
BelowLimit(kind) == Cardinality(Active(kind)) < Limit(kind)

Put(r, value) == request' = [request EXCEPT ![r] = value]

(* create, up to its transaction.  Ids of subscriptions are new; an event   *)
(* type can be created by several requests, and again.                      *)
Create(r, x) ==
  /\ request[r] = NoRow
  /\ x \in Subscription =>
       row[x] = "absent" /\ \A s \in InFlight : request[s].about # x
  /\ BelowLimit(KindOf(x))
  /\ Put(r, [op |-> "create", about |-> x, by |-> NoRow])
  /\ UNCHANGED <<row, upsert, seen>>

(* Its transaction: an event type that was deactivated is active again.     *)
CommitCreate(r) ==
  LET x == request[r].about
      i == request[r].by
  IN /\ r \in InFlight /\ request[r].op = "create"
     /\ row' = [row EXCEPT ![x] = "active"]
     /\ Put(r, NoRow)
     /\ IF i = NoRow THEN UNCHANGED <<upsert, seen>>
        ELSE /\ upsert' = [upsert EXCEPT ![i].missing = @ \ {x}]
             /\ seen' = [seen EXCEPT ![i] = @ \cup {x}]

(* delete: an event type has to be active to be found, a subscription only  *)
(* has to exist ...                                                         *)
Delete(r, x) ==
  /\ request[r] = NoRow
  /\ row[x] \in IF x \in EventType THEN {"active"} ELSE {"active", "deactivated"}
  /\ Put(r, [op |-> "delete", about |-> x, by |-> NoRow])
  /\ UNCHANGED <<row, upsert, seen>>

(* ... and is deactivated by a second statement that does not look again.   *)
CommitDelete(r) ==
  /\ r \in InFlight /\ request[r].op = "delete"
  /\ row' = [row EXCEPT ![request[r].about] = "deactivated"]
  /\ Put(r, NoRow)
  /\ UNCHANGED <<upsert, seen>>

(* A statement fails, and nobody waits for the answer or it is an error.    *)
Fail(r) ==
  /\ r \in InFlight /\ request[r].by = NoRow
  /\ Put(r, NoRow)
  /\ UNCHANGED <<row, upsert, seen>>

-----------------------------------------------------------------------------
(* The list shows deactivated event types, too. *)
ListedAll == {x \in EventType : row[x] # "absent"}

(* upsert_event_types() of the client: what the list does not show ...      *)
Listed == Active("event_type")

List(i) ==
  /\ upsert[i].pc = "listing"
  /\ upsert' = [upsert EXCEPT ![i].pc = "creating", ![i].missing = Required \ Listed]
  /\ seen' = [seen EXCEPT ![i] = Required \cap Active("event_type")]
  /\ UNCHANGED <<row, request>>

(* ... is created, one after the other, each by a request.                  *)
Ready(i, x) ==
  upsert[i].pc = "creating" /\ Outstanding(i) = {} /\ x \in upsert[i].missing

Post(i, r, x) ==
  /\ Ready(i, x)
  /\ request[r] = NoRow
  /\ BelowLimit("event_type")
  /\ Put(r, [op |-> "create", about |-> x, by |-> i])
  /\ UNCHANGED <<row, upsert, seen>>

Finish(i) ==
  /\ upsert[i].pc = "creating" /\ upsert[i].missing = {}
  /\ upsert' = [upsert EXCEPT ![i].pc = "done"]
  /\ UNCHANGED <<row, request, seen>>

(* Nobody waits for its request any more, which goes on if it got through.  *)
Abandoned(i) ==
  [r \in Request |-> IF r \in Outstanding(i) THEN [request[r] EXCEPT !.by = NoRow]
                                             ELSE request[r]]

(* It has sent a request, or is about to. *)
Asking(i) ==
  \/ upsert[i].pc = "listing"
  \/ upsert[i].pc = "creating" /\ upsert[i].missing # {}

(* Retries are not counted. *)
FailForNowUncounted(i) ==
  /\ Asking(i)
  /\ request' = Abandoned(i)
  /\ upsert' = [upsert EXCEPT ![i].pc = "waiting"]
  /\ UNCHANGED <<row, seen>>

(* upsert_event_types() of the API: no connection, a timeout or a 5xx.      *)
(* Every retry starts over.                                                 *)
FailForNow(i) ==
  /\ Asking(i)
  /\ request' = Abandoned(i)
  /\ \/ /\ upsert[i].retries > 0
        /\ upsert' = [upsert EXCEPT ![i].pc = "waiting", ![i].retries = @ - 1]
     \/ /\ upsert[i].retries = 0
        /\ upsert' = [upsert EXCEPT ![i].pc = "gave_up"]
  /\ UNCHANGED <<row, seen>>

(* A 4xx or an answer that cannot be read.  Refusals for the quota are told *)
(* apart below.                                                             *)
FailForGood(i) ==
  /\ Asking(i)
  /\ request' = Abandoned(i)
  /\ upsert' = [upsert EXCEPT ![i].pc = "gave_up"]
  /\ UNCHANGED <<row, seen>>

Refuse(i) ==
  /\ \E x \in EventType : Ready(i, x)
  /\ ~BelowLimit("event_type")
  /\ upsert' = [upsert EXCEPT ![i].pc = "gave_up"]
  /\ UNCHANGED <<row, request, seen>>

(* After PERIOD_BETWEEN_EVENT_TYPES_UPSERTS_TRIES. *)
Retry(i) ==
  /\ upsert[i].pc = "waiting"
  /\ upsert' = [upsert EXCEPT ![i].pc = "listing"]
  /\ UNCHANGED <<row, request, seen>>

(* The process of the instance is started again. *)
Restart(i) ==
  /\ request' = Abandoned(i)
  /\ upsert' = [upsert EXCEPT ![i] = Begun]
  /\ UNCHANGED <<row, seen>>

-----------------------------------------------------------------------------
ApiStep ==
  \E r \in Request :
    \/ \E x \in Declared : Create(r, x) \/ Delete(r, x)
    \/ CommitCreate(r) \/ CommitDelete(r) \/ Fail(r)

UpsertStep(i) ==
  \/ List(i) \/ Finish(i) \/ FailForNow(i) \/ FailForGood(i) \/ Refuse(i) \/ Retry(i)
  \/ \E r \in Request, x \in EventType : Post(i, r, x)
  \/ \E r \in Outstanding(i) : CommitCreate(r)

Next == ApiStep \/ \E i \in Instance : UpsertStep(i) \/ Restart(i)

Spec == Init /\ [][Next]_vars

(* Every request is answered, or its connection breaks. *)
FairSpec == Spec /\ \A i \in Instance : WF_vars(UpsertStep(i))

-----------------------------------------------------------------------------
(* Requests that were counted together pass a quota, but only by as many as *)
(* there were, and never where nothing is allowed at all, however event     *)
(* types are deactivated and activated again.  (create in event_types.rs    *)
(* and subscriptions.rs)                                                    *)
DeclaredNearQuota ==
  \A kind \in Kind :
    LET n == Cardinality(Active(kind))
    IN n > 0 => Limit(kind) > 0 /\ n < Limit(kind) + Cardinality(Request)

(* When an upsert is reported successful, every required event type has     *)
(* been active at some moment since it last listed them, whatever other     *)
(* instances, deletions, lost answers and retries do.  (upsert_event_types) *)
UpsertsAreComplete ==
  \A i \in Instance : upsert[i].pc = "done" => Required \subseteq seen[i]

(* A task that is not restarted again and again comes to its end. *)
UpsertsEnd ==
  \A i \in Instance :
    <>[][upsert'[i] # Begun]_upsert => <>[](upsert[i].pc \in {"done", "gave_up"})
=============================================================================
