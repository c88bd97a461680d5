----------------------------- MODULE DailyEvents -----------------------------
(***************************************************************************)
(* How many events an application received each day, and everything that   *)
(* hangs on that number: the daily quota and its notifications, which read *)
(* a materialized view; the backup of the view; the clean-up of old events *)
(* which shrinks it.  The handlers run concurrently, the two periodic      *)
(* tasks run beside them, and days go by in the middle of everything.      *)
(***************************************************************************)
EXTENDS Quotas, FiniteSets

CONSTANTS
  Application, Organization,
  Client,                \* requests that the API handles at a time
  OrganizationOf,
  CanExceed,             \* applications whose organization has a price
  ApplicationEventsPerDay, PlanEventsPerDay,   \* events_per_day_limit
  GlobalEventsPerDay,    \* global_events_per_day_limit
  Threshold,             \* quota_notification_events_per_day_threshold
  EmailNotifications,    \* enable_quota_based_email_notifications
  ApplicationRetention, PlanRetention,   \* days_of_events_retention_limit
  GlobalRetention,       \* global_days_of_events_retention_limit
  GracePeriod,           \* old_events_cleanup_grace_period_in_day
  ReportAndDelete,       \* old_events_cleanup_report_and_delete
  LastDay,               \* bound: days
  MaxEvents              \* bound: events of an application on a day

Day == 0 .. LastDay
NotificationType == {"Warning", "Reached"}
NoRequest == [step |-> "none"]
Sleeping == -1       \* between two clean-ups

(* current is what the request read from the view, day when its last        *)
(* statement started.                                                       *)
Request ==
  [step : {"warn", "warning", "reach", "reaching", "insert", "inserting"},
   application : Application, current : Nat, day : Day]

ASSUME DailyEventsAssumption ==
  /\ OrganizationOf \in [Application -> Organization]
  /\ CanExceed \subseteq Application
  /\ IsFiniteSet(Client)
  /\ ApplicationEventsPerDay \in [Application -> QuotaValue \cup {NoLimit}]
  /\ PlanEventsPerDay \in [Application -> QuotaValue \cup {NoLimit}]
  /\ GlobalEventsPerDay \in QuotaValue
  /\ Threshold \in 0 .. 255
  /\ EmailNotifications \in BOOLEAN
  /\ ApplicationRetention \in [Application -> QuotaValue \cup {NoLimit}]
  /\ PlanRetention \in [Application -> QuotaValue \cup {NoLimit}]
  /\ GlobalRetention \in QuotaValue
  /\ GracePeriod \in Nat
  /\ ReportAndDelete \in BOOLEAN
  /\ LastDay \in Nat
  /\ MaxEvents \in Nat

VARIABLES
  today,                      \* CURRENT_DATE
  request,                    \* the ingestion that a client waits for
  event,                      \* rows of event.event, by application and day
  events_per_day,             \* the view; 0 where it has no row
  all_time_events_per_day,    \* the backup; 0 where it has no row
  quota_notifications,        \* rows by organization, type and day
  cleanup,                    \* the day on which the clean-up under way backed up
  refreshed,                  \* the view was refreshed today
  received,                   \* history: events ever received
  late                        \* history: events received after the view was at the limit

counts == <<event, events_per_day, all_time_events_per_day, received, late>>
vars == <<today, request, counts, quota_notifications, cleanup, refreshed>>

Counts == [Application -> [Day -> Nat]]
NoCounts == [a \in Application |-> [d \in Day |-> 0]]
Bump(count, a, d) == [count EXCEPT ![a][d] = @ + 1]

TypeOK ==
  /\ today \in Day
  /\ request \in [Client -> Request \cup {NoRequest}]
  /\ event \in Counts /\ received \in Counts /\ late \in Counts
  /\ events_per_day \in Counts /\ all_time_events_per_day \in Counts
  /\ quota_notifications \in [Organization -> [NotificationType -> [Day -> Nat]]]
  /\ cleanup \in Day \cup {Sleeping}
  /\ refreshed \in BOOLEAN

Init ==
  /\ today = 0
  /\ request = [c \in Client |-> NoRequest]
  /\ event = NoCounts
  /\ events_per_day = NoCounts
  /\ all_time_events_per_day = NoCounts
  /\ quota_notifications =
       [o \in Organization |-> [t \in NotificationType |-> [d \in Day |-> 0]]]
  /\ cleanup = Sleeping
  /\ refreshed = FALSE
  /\ received = NoCounts
  /\ late = NoCounts

-----------------------------------------------------------------------------
EventsPerDayLimit(a) ==
  get_limit_for_application(ApplicationEventsPerDay[a], PlanEventsPerDay[a], GlobalEventsPerDay)

(* 100 * current / limit, in i32; and with the division first *)
RoundedPercent(a, current) == I32(100 * (current \div EventsPerDayLimit(a)))
ConsumptionPercent(a, current) == I32(100 * current) \div EventsPerDayLimit(a)

(* And off by one, in both directions. *)
CanIngestAtLimit(a, current) == a \in CanExceed \/ current <= EventsPerDayLimit(a)
CanIngestBelowLimit(a, current) == a \in CanExceed \/ current + 1 < EventsPerDayLimit(a)
CanIngest(a, current) == a \in CanExceed \/ current < EventsPerDayLimit(a)

(* What the handler does once it has read the count.  A limit of 0 panics   *)
(* in the division, and the request is gone.                                *)
StepAfterRead(a, current) ==
  IF ~CanIngest(a, current)
  THEN IF EmailNotifications THEN "reach" ELSE "none"
  ELSE IF ~EmailNotifications THEN "insert"
  ELSE IF EventsPerDayLimit(a) = 0 THEN "none"
  ELSE IF ConsumptionPercent(a, current) > Threshold THEN "warn" ELSE "insert"

(* It reads the view's count of today; 0 for an application that may exceed *)
(* its quota.                                                               *)
ReadCount(c, a) ==
  LET current == IF a \in CanExceed THEN 0 ELSE events_per_day[a][today]
      step == StepAfterRead(a, current)
  IN /\ request[c] = NoRequest
     /\ step # "none"
     /\ request' = [request EXCEPT ![c] =
          [step |-> step, application |-> a, current |-> current, day |-> today]]
     /\ UNCHANGED <<today, counts, quota_notifications, cleanup, refreshed>>

(* send_organization_email_notification: one notification per type and day. *)
NeverNotified(c, type) == FALSE
Notified(c, type) ==
  quota_notifications[OrganizationOf[request[c].application]][type][today] > 0

(* The client's slot is not released at the end. *)
ContinueForEver(c, step) ==
  request' = [request EXCEPT ![c] = [@ EXCEPT !.step = step, !.day = today]]

Continue(c, step) ==
  request' = [request EXCEPT ![c] =
    IF step = "none" THEN NoRequest ELSE [@ EXCEPT !.step = step, !.day = today]]

LookUp(c, asked, type, sending, after) ==
  /\ request[c].step = asked
  /\ Continue(c, IF Notified(c, type) THEN after ELSE sending)
  /\ UNCHANGED <<today, counts, quota_notifications, cleanup, refreshed>>

(* The row is dated by the transaction's start, which lies between the      *)
(* look-up and the commit; whether the mails went out does not matter.      *)
Notify(c, sending, type, after) ==
  /\ request[c].step = sending
  /\ \E d \in request[c].day .. today :
       quota_notifications' = [quota_notifications EXCEPT
         ![OrganizationOf[request[c].application]][type][d] = @ + 1]
  /\ Continue(c, after)
  /\ UNCHANGED <<today, counts, cleanup, refreshed>>

LookUpWarning(c) == LookUp(c, "warn", "Warning", "warning", "insert")
NotifyWarning(c) == Notify(c, "warning", "Warning", "insert")
LookUpReached(c) == LookUp(c, "reach", "Reached", "reaching", "none")
NotifyReached(c) == Notify(c, "reaching", "Reached", "none")

(* received_at is the statement's start. *)
StartInsert(c) ==
  /\ request[c].step = "insert"
  /\ Continue(c, "inserting")
  /\ UNCHANGED <<today, counts, quota_notifications, cleanup, refreshed>>

CommitInsert(c) ==
  LET a == request[c].application
      d == request[c].day
  IN /\ request[c].step = "inserting"
     /\ received[a][d] < MaxEvents
     /\ event' = Bump(event, a, d)
     /\ received' = Bump(received, a, d)
     /\ late' =
          IF a \in CanExceed \/ events_per_day[a][d] < EventsPerDayLimit(a)
          THEN late ELSE Bump(late, a, d)
     /\ Continue(c, "none")
     /\ UNCHANGED <<today, events_per_day, all_time_events_per_day,
                    quota_notifications, cleanup, refreshed>>

(* A statement fails, or the payload cannot be decoded. *)
Fail(c) ==
  /\ request[c] # NoRequest
  /\ Continue(c, "none")
  /\ UNCHANGED <<today, counts, quota_notifications, cleanup, refreshed>>

IngestStep(c) ==
  \/ LookUpWarning(c) \/ NotifyWarning(c) \/ LookUpReached(c) \/ NotifyReached(c)
  \/ StartInsert(c) \/ CommitInsert(c) \/ Fail(c)

-----------------------------------------------------------------------------
(* REFRESH MATERIALIZED VIEW *)
Refresh ==
  /\ events_per_day' = event
  /\ refreshed' = TRUE
  /\ UNCHANGED <<today, request, event, all_time_events_per_day, received, late,
                 quota_notifications, cleanup>>

(* The backup adds up, or only looks at yesterday. *)
BackedUpAgain(a, d) ==
  IF d < today
  THEN all_time_events_per_day[a][d] + events_per_day[a][d] ELSE all_time_events_per_day[a][d]

BackedUpYesterday(a, d) ==
  IF d + 1 = today /\ all_time_events_per_day[a][d] = 0
  THEN events_per_day[a][d] ELSE all_time_events_per_day[a][d]

BackedUp(a, d) ==
  IF d < today /\ all_time_events_per_day[a][d] = 0
  THEN events_per_day[a][d] ELSE all_time_events_per_day[a][d]

(* clean_up_old_events_and_responses, first half, outside the transaction:  *)
(* INSERT ... WHERE date < CURRENT_DATE ON CONFLICT DO NOTHING.             *)
BackUp ==
  /\ cleanup = Sleeping
  /\ all_time_events_per_day' = [a \in Application |-> [d \in Day |-> BackedUp(a, d)]]
  /\ cleanup' = today
  /\ UNCHANGED <<today, request, event, events_per_day, received, late,
                 quota_notifications, refreshed>>

Retention(a) ==
  events_retention_limit(ApplicationRetention[a], PlanRetention[a], GlobalRetention, GracePeriod)

(* received_at + retention < now: all events of the days before that, some  *)
(* of the day that is that old.                                             *)
Remaining(a, d, kept) ==
  IF d + Retention(a) < today THEN 0
  ELSE IF d + Retention(a) = today /\ kept < event[a][d] THEN kept
  ELSE event[a][d]

(* Second half: the transaction commits, is rolled back, or fails. *)
DeleteOldEvents ==
  /\ cleanup # Sleeping
  /\ \/ /\ ReportAndDelete
        /\ \E kept \in [Application -> 0 .. MaxEvents] :
             event' = [a \in Application |-> [d \in Day |-> Remaining(a, d, kept[a])]]
     \/ UNCHANGED event
  /\ cleanup' = Sleeping
  /\ UNCHANGED <<today, request, events_per_day, all_time_events_per_day, received,
                 late, quota_notifications, refreshed>>

(* The view is refreshed every minute, so at least once on a day; and what  *)
(* was under way at a midnight, a clean-up or an insertion, is over before  *)
(* the next one.                                                            *)
Midnight ==
  /\ today < LastDay
  /\ refreshed
  /\ cleanup \in {Sleeping, today}
  /\ \A c \in Client : request[c].step = "inserting" => request[c].day = today
  /\ today' = today + 1
  /\ refreshed' = FALSE
  /\ UNCHANGED <<request, counts, quota_notifications, cleanup>>

Next ==
  \/ \E c \in Client, a \in Application : ReadCount(c, a)
  \/ \E c \in Client : IngestStep(c)
  \/ Refresh
  \/ BackUp
  \/ DeleteOldEvents
  \/ Midnight

Spec == Init /\ [][Next]_vars

(* The periodic tasks run for ever and time passes; nobody has to ingest.   *)
FairSpec ==
  /\ Spec
  /\ WF_vars(Refresh) /\ WF_vars(BackUp) /\ WF_vars(DeleteOldEvents) /\ WF_vars(Midnight)

-----------------------------------------------------------------------------
(* The quota is checked against a view that lags behind, but once the view  *)
(* shows that it is reached, only requests that were under way still pass.  *)
QuotaClosesBehindRequests ==
  \A a \in Application, d \in Day : late[a][d] <= Cardinality(Client)

(* A notification of each type goes out once a day, or once for each of the *)
(* requests that looked it up at the same time.                             *)
NotificationsAreFew ==
  \A o \in Organization, t \in NotificationType, d \in Day :
    quota_notifications[o][t][d] <= Cardinality(Client)

(* Nobody is told of a quota that no application of theirs ever came to;    *)
(* the day of the notification may be the next one.                         *)
Deserves(a, type, n) ==
  IF type = "Reached"
  THEN a \notin CanExceed /\ n >= EventsPerDayLimit(a)
  ELSE 100 * n > Threshold * EventsPerDayLimit(a)

NotificationsAreDeserved ==
  \A o \in Organization, t \in NotificationType, d \in Day :
    quota_notifications[o][t][d] > 0 =>
      \E a \in Application, e \in 0 .. d :
        OrganizationOf[a] = o /\ Deserves(a, t, received[a][e])

(* "threshold (in %) of events per day at which to send a warning           *)
(* notification" (api/src/main.rs:251): an event that was counted above the *)
(* threshold is not ingested unless the organization was warned, as long as *)
(* 100 * current does not leave the i32.                                    *)
AboveThresholdIsWarned ==
  \A c \in Client :
    LET a == request[c].application
    IN /\ EmailNotifications
       /\ request[c].step \in {"insert", "inserting"}
       /\ 100 * request[c].current \in (Threshold + 1) * EventsPerDayLimit(a) .. I32Max
       => \E d \in Day : quota_notifications[OrganizationOf[a]]["Warning"][d] > 0

(* Neither the view nor the backup ever shows more than was received. *)
CountsAreReal ==
  \A a \in Application, d \in Day :
    /\ event[a][d] <= received[a][d]
    /\ events_per_day[a][d] <= received[a][d]
    /\ all_time_events_per_day[a][d] <= received[a][d]

(* No event is deleted before its day is in the backup. *)
NoDayIsForgotten ==
  \A a \in Application, d \in Day :
    event[a][d] < received[a][d] => all_time_events_per_day[a][d] > 0

(* Every day with events gets into the backup, whenever the view was        *)
(* refreshed and whatever the clean-up deletes meanwhile.                   *)
EveryDayIsBackedUp ==
  \A a \in Application, d \in 0 .. LastDay - 1 :
    received[a][d] > 0 ~> all_time_events_per_day[a][d] > 0
=============================================================================
