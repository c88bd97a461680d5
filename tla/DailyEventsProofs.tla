-------------------------- MODULE DailyEventsProofs --------------------------
(***************************************************************************)
(* Proofs about the daily counts: they never show an event that was not    *)
(* received, a quota that is reached closes behind the requests under way, *)
(* notifications are deserved, few and in time, and no event is deleted    *)
(* before its day is in the backup.                                        *)
(***************************************************************************)
EXTENDS DailyEvents, FiniteSetTheorems, TLAPS

USE DailyEventsAssumption, QuotasAssumption DEF Day, NoLimit, Sleeping

(* Nobody is in the future. *)
NothingIsEarly ==
  /\ \A c \in Client : request[c] # NoRequest => request[c].day <= today
  /\ cleanup <= today
  /\ \A a \in Application, d \in Day :
       d > today => received[a][d] = 0

(* A request that is about to notify read a count that deserves it.         *)
Justified(r, type) ==
  \E e \in 0 .. r.day : Deserves(r.application, type, received[r.application][e])

RequestsAreJustified ==
  \A c \in Client :
    /\ request[c].step \in {"warn", "warning"} => Justified(request[c], "Warning")
    /\ request[c].step \in {"reach", "reaching"} => Justified(request[c], "Reached")

(* Insertions and clean-ups under way at a midnight are over at the next.   *)
NothingStraddlesTwoMidnights ==
  /\ \A c \in Client : request[c].step = "inserting" => request[c].day >= today - 1
  /\ cleanup # Sleeping => cleanup >= today - 1

(* The view shows a day from its second morrow on, unless the backup does.  *)
ViewCatchesUp ==
  \A a \in Application, d \in Day :
    received[a][d] > 0 /\ (IF refreshed THEN d + 2 <= today ELSE d + 3 <= today) =>
      events_per_day[a][d] > 0 \/ all_time_events_per_day[a][d] > 0

(* A clean-up finds the days it deletes in the backup.                      *)
CleanupBackedUp ==
  \A a \in Application, d \in Day :
    cleanup # Sleeping /\ received[a][d] > 0 /\ d + 3 <= cleanup =>
      all_time_events_per_day[a][d] > 0

IInv ==
  /\ TypeOK
  /\ CountsAreReal
  /\ NothingIsEarly
  /\ RequestsAreJustified
  /\ NotificationsAreDeserved

-----------------------------------------------------------------------------
LEMMA BumpAdds ==
  ASSUME NEW count \in Counts, NEW a \in Application, NEW d \in Day
  PROVE  /\ Bump(count, a, d) \in Counts
         /\ \A b \in Application, e \in Day :
              Bump(count, a, d)[b][e] = IF b = a /\ e = d THEN count[b][e] + 1 ELSE count[b][e]
  BY DEF Bump, Counts

LEMMA LimitIsANumber ==
  ASSUME NEW a \in Application
  PROVE  EventsPerDayLimit(a) \in Nat
  BY DEF EventsPerDayLimit, get_limit_for_application, Coalesce, QuotaValue

LEMMA RetentionIsANumber ==
  ASSUME NEW a \in Application
  PROVE  Retention(a) \in Nat
  BY DEF Retention, events_retention_limit, Coalesce, Least, QuotaValue

LEMMA CountsAreNumbers ==
  ASSUME NEW count \in Counts
  PROVE  \A a \in Application, d \in Day : count[a][d] \in Nat
  BY DEF Counts

(* The rows that remain are some of those that were there.                  *)
LEMMA RemainingShrinks ==
  ASSUME TypeOK, NEW a \in Application, NEW d \in Day, NEW kept \in Nat
  PROVE  /\ Remaining(a, d, kept) \in Nat
         /\ Remaining(a, d, kept) <= event[a][d]
         /\ d + Retention(a) > today => Remaining(a, d, kept) = event[a][d]
  <1>. event[a][d] \in Nat /\ today \in Nat
  BY CountsAreNumbers DEF TypeOK
<1>. QED
  BY RetentionIsANumber DEF Remaining

(* A percentage above the threshold is one of the real count, even when the *)
(* product wraps.                                                           *)
LEMMA PercentIsReal ==
  ASSUME NEW current \in Nat, NEW limit \in Nat \ {0},
         I32(100 * current) \div limit > Threshold
  PROVE  100 * current > Threshold * limit
<1>. DEFINE w == I32(100 * current)
            q == w \div limit
<1>1. w \in Int /\ w <= 100 * current
  BY DEF I32
<1>2. q \in Int /\ q * limit <= w
  BY <1>1
<1>3. q >= Threshold + 1 /\ Threshold \in Nat
  BY <1>2
<1>4. q * limit >= (Threshold + 1) * limit
  BY <1>2, <1>3
<1>5. (Threshold + 1) * limit > Threshold * limit
  BY <1>3
<1>. QED
  BY <1>1, <1>2, <1>3, <1>4, <1>5

-----------------------------------------------------------------------------
LEMMA InitEstablishes == Init => IInv
<1>. SUFFICES ASSUME Init PROVE IInv
  OBVIOUS
<1>1. NoCounts \in Counts /\ \A a \in Application, d \in Day : NoCounts[a][d] = 0
  BY DEF NoCounts, Counts
<1>2. TypeOK
  <2>1. request \in [Client -> Request \cup {NoRequest}]
    BY DEF Init
  <2>2. quota_notifications \in [Organization -> [NotificationType -> [Day -> Nat]]]
    BY DEF Init
  <2>3. today = 0 /\ cleanup = Sleeping /\ refreshed = FALSE
    BY DEF Init
  <2>4. 0 \in Day
    OBVIOUS
  <2>. QED
    BY <1>1, <2>1, <2>2, <2>3, <2>4 DEF Init, TypeOK
<1>3. CountsAreReal
  BY <1>1 DEF Init, CountsAreReal
<1>4. NothingIsEarly
  BY <1>1 DEF Init, NothingIsEarly
<1>5. RequestsAreJustified
  BY DEF Init, RequestsAreJustified, NoRequest
<1>6. NotificationsAreDeserved
  BY DEF Init, NotificationsAreDeserved, NotificationType
<1>. QED
  BY <1>2, <1>3, <1>4, <1>5, <1>6 DEF IInv

(* What deserves a notification keeps deserving it: receipts only grow.     *)
ReceiptsGrow ==
  \A a \in Application, d \in Day : received'[a][d] >= received[a][d]

LEMMA DeservesLasts ==
  ASSUME NEW a \in Application, NEW type \in NotificationType, NEW m \in Nat, NEW n \in Nat,
         n >= m, Deserves(a, type, m)
  PROVE  Deserves(a, type, n)
  BY LimitIsANumber DEF Deserves, NotificationType

LEMMA JustifiedLasts ==
  ASSUME TypeOK, TypeOK', ReceiptsGrow, NEW r \in Request, NEW type \in NotificationType,
         Justified(r, type)
  PROVE  Justified(r, type)'
<1>1. PICK e \in 0 .. r.day : Deserves(r.application, type, received[r.application][e])
  BY DEF Justified
<1>2. e \in Day /\ r.application \in Application
  BY DEF Request
<1>3. received[r.application][e] \in Nat /\ received'[r.application][e] \in Nat
  BY <1>2, CountsAreNumbers DEF TypeOK
<1>4. Deserves(r.application, type, received'[r.application][e])
  BY <1>1, <1>2, <1>3, DeservesLasts DEF ReceiptsGrow
<1>. QED
  BY <1>1, <1>4 DEF Justified

(* Days as they pass and receipts as they grow keep the notifications       *)
(* deserved, and the other requests justified.                              *)
LEMMA DeservedLasts ==
  ASSUME IInv, TypeOK', ReceiptsGrow, UNCHANGED quota_notifications
  PROVE  NotificationsAreDeserved'
<1>. SUFFICES ASSUME NEW o \in Organization, NEW t \in NotificationType, NEW d \in Day,
                     quota_notifications[o][t][d] > 0
              PROVE  \E a \in Application, e \in 0 .. d :
                       OrganizationOf[a] = o /\ Deserves(a, t, received'[a][e])
  BY DEF NotificationsAreDeserved, Deserves, EventsPerDayLimit
<1>1. PICK a \in Application, e \in 0 .. d :
        OrganizationOf[a] = o /\ Deserves(a, t, received[a][e])
  BY DEF IInv, NotificationsAreDeserved
<1>2. e \in Day
  BY DEF Day
<1>3. received \in Counts /\ received' \in Counts
  BY DEF IInv, TypeOK
<1>4. received[a][e] \in Nat /\ received'[a][e] \in Nat
  BY <1>2, <1>3, CountsAreNumbers
<1>5. Deserves(a, t, received'[a][e])
  BY <1>1, <1>2, <1>4, DeservesLasts DEF ReceiptsGrow
<1>. QED
  BY <1>1, <1>5

LEMMA RequestsStayJustified ==
  ASSUME IInv, TypeOK', ReceiptsGrow, NEW c \in Client, request'[c] = request[c]
  PROVE  /\ request'[c].step \in {"warn", "warning"} => Justified(request[c], "Warning")'
         /\ request'[c].step \in {"reach", "reaching"} => Justified(request[c], "Reached")'
<1>1. CASE request[c] = NoRequest
  BY <1>1 DEF NoRequest
<1>2. CASE request[c] # NoRequest
  <2>1. request[c] \in Request /\ request'[c] = request[c]
    BY <1>2 DEF IInv, TypeOK
  <2>2. ASSUME NEW type \in NotificationType, Justified(request[c], type)
        PROVE  Justified(request[c], type)'
    <3>. DEFINE r == request[c]
    <3>1. \E e \in 0 .. r.day : Deserves(r.application, type, received'[r.application][e])
      BY <2>1, <2>2, JustifiedLasts DEF Justified, IInv, Deserves, EventsPerDayLimit
    <3>. QED
      BY <3>1, <2>1 DEF Justified, Deserves, EventsPerDayLimit
  <2>. QED
    BY <2>1, <2>2 DEF IInv, RequestsAreJustified, NotificationType
<1>. QED
  BY <1>1, <1>2

LEMMA JustifiedStep ==
  ASSUME IInv, TypeOK', ReceiptsGrow, NEW c \in Client,
         \A b \in Client \ {c} : request'[b] = request[b],
         request'[c].step \in {"warn", "warning"} => Justified(request[c], "Warning")',
         request'[c].step \in {"reach", "reaching"} => Justified(request[c], "Reached")'
  PROVE  RequestsAreJustified'
<1>1. ASSUME NEW b \in Client \ {c}
      PROVE /\ request'[b].step \in {"warn", "warning"} => Justified(request[b], "Warning")'
            /\ request'[b].step \in {"reach", "reaching"} => Justified(request[b], "Reached")'
  BY <1>1, RequestsStayJustified
<1>. QED
  BY <1>1 DEF RequestsAreJustified

Step == {"warn", "warning", "reach", "reaching", "insert", "inserting", "none"}

(* What a request keeps when it continues. *)
LEMMA ContinueStep ==
  ASSUME TypeOK, NEW c \in Client, NEW step \in Step, request[c] # NoRequest,
         Continue(c, step)
  PROVE  /\ request' \in [Client -> Request \cup {NoRequest}]
         /\ \A b \in Client \ {c} : request'[b] = request[b]
         /\ step = "none" => request'[c] = NoRequest
         /\ step # "none" => /\ request'[c] \in Request
                             /\ request'[c].step = step
                             /\ request'[c].day = today
                             /\ request'[c].application = request[c].application
<1>. request[c] \in Request /\ today \in Day
  BY DEF TypeOK
<1>1. CASE step = "none"
  BY <1>1 DEF Continue, TypeOK
<1>2. CASE step # "none"
  <2>. DEFINE r == [request[c] EXCEPT !.step = step, !.day = today]
  <2>1. r \in Request /\ r.step = step /\ r.day = today /\ r.application = request[c].application
    BY <1>2 DEF Request, Step
  <2>2. request' = [request EXCEPT ![c] = r]
    BY <1>2 DEF Continue
  <2>. HIDE DEF r
  <2>. QED
    BY <1>2, <2>1, <2>2 DEF TypeOK
<1>. QED
  BY <1>1, <1>2

LEMMA EarlyStep ==
  ASSUME IInv, NEW c \in Client, UNCHANGED <<today, received, cleanup>>,
         \A b \in Client \ {c} : request'[b] = request[b],
         request'[c] # NoRequest => request'[c].day = today
  PROVE  NothingIsEarly'
<1>1. today \in Nat
  BY DEF IInv, TypeOK
<1>. QED
  BY <1>1 DEF IInv, NothingIsEarly

-----------------------------------------------------------------------------
LEMMA ReadCountPreserves ==
  ASSUME IInv, NEW c \in Client, NEW a \in Application, ReadCount(c, a)
  PROVE  IInv'
<1>. DEFINE current == IF a \in CanExceed THEN 0 ELSE events_per_day[a][today]
            step == StepAfterRead(a, current)
            r == [step |-> step, application |-> a, current |-> current, day |-> today]
<1>1. /\ step # "none"
      /\ request' = [request EXCEPT ![c] = r]
      /\ UNCHANGED <<today, counts, quota_notifications, cleanup, refreshed>>
  BY DEF ReadCount
<1>2. today \in Day /\ current \in Nat /\ received[a][today] \in Nat
  BY CountsAreNumbers DEF IInv, TypeOK
<1>3. r \in Request
  BY <1>1, <1>2 DEF Request, StepAfterRead
<1>4. TypeOK'
  BY <1>1, <1>3 DEF IInv, TypeOK, counts
<1>5. ReceiptsGrow
  BY <1>1, CountsAreNumbers DEF ReceiptsGrow, counts, IInv, TypeOK
<1>6. CountsAreReal'
  BY <1>1 DEF IInv, CountsAreReal, counts
<1>7. current <= received[a][today]
  BY <1>2 DEF IInv, CountsAreReal
<1>8. ASSUME step = "warn" PROVE Deserves(a, "Warning", current)
  <2>1. EventsPerDayLimit(a) \in Nat \ {0}
    BY <1>8, LimitIsANumber DEF StepAfterRead
  <2>2. I32(100 * current) \div EventsPerDayLimit(a) > Threshold
    BY <1>8 DEF StepAfterRead, ConsumptionPercent
  <2>3. 100 * current > Threshold * EventsPerDayLimit(a)
    BY <1>2, <2>1, <2>2, PercentIsReal
  <2>. QED
    BY <2>3 DEF Deserves
<1>9. ASSUME step = "reach" PROVE Deserves(a, "Reached", current)
  BY <1>9, <1>2, LimitIsANumber DEF StepAfterRead, CanIngest, Deserves
<1>10. request'[c] = r
  BY <1>1 DEF IInv, TypeOK
<1>11. step \in {"warn", "reach", "insert"}
  BY <1>1 DEF StepAfterRead
<1>12. step = "warn" => Justified(request[c], "Warning")'
  <2>. HAVE step = "warn"
  <2>1. Deserves(a, "Warning", received'[a][today])
    BY <1>8, <1>2, <1>7, <1>1, DeservesLasts DEF counts, NotificationType
  <2>2. today \in 0 .. today
    BY <1>2
  <2>. QED
    BY <2>1, <2>2, <1>10 DEF Justified, Deserves, EventsPerDayLimit
<1>13. step = "reach" => Justified(request[c], "Reached")'
  <2>. HAVE step = "reach"
  <2>1. Deserves(a, "Reached", received'[a][today])
    BY <1>9, <1>2, <1>7, <1>1, DeservesLasts DEF counts, NotificationType
  <2>2. today \in 0 .. today
    BY <1>2
  <2>. QED
    BY <2>1, <2>2, <1>10 DEF Justified, Deserves, EventsPerDayLimit
<1>14. RequestsAreJustified'
  BY <1>1, <1>4, <1>5, <1>10, <1>11, <1>12, <1>13, JustifiedStep DEF IInv, TypeOK
<1>15. NothingIsEarly'
  BY <1>1, <1>10, EarlyStep DEF counts, IInv, TypeOK
<1>16. NotificationsAreDeserved'
  BY <1>1, <1>4, <1>5, DeservedLasts
<1>. QED
  BY <1>4, <1>6, <1>14, <1>15, <1>16 DEF IInv

(* The steps that only move a request on. *)
LEMMA MoveOn ==
  ASSUME IInv, TypeOK', NEW c \in Client, request[c] # NoRequest,
         NEW step \in Step, Continue(c, step),
         UNCHANGED <<today, counts, quota_notifications, cleanup>>,
         step \in {"warn", "warning"} => Justified(request[c], "Warning"),
         step \in {"reach", "reaching"} => Justified(request[c], "Reached")
  PROVE  IInv'
<1>1. TypeOK /\ request[c] \in Request /\ today \in Nat
  BY DEF IInv, TypeOK
<1>2. /\ \A b \in Client \ {c} : request'[b] = request[b]
      /\ step = "none" => request'[c] = NoRequest
      /\ step # "none" => /\ request'[c] \in Request
                          /\ request'[c].step = step
                          /\ request'[c].day = today
                          /\ request'[c].application = request[c].application
  BY <1>1, ContinueStep
<1>3. ReceiptsGrow
  BY <1>1, CountsAreNumbers DEF ReceiptsGrow, counts, TypeOK
<1>4. CountsAreReal'
  BY DEF IInv, CountsAreReal, counts
<1>5. request[c].day \in 0 .. today
  BY <1>1 DEF IInv, NothingIsEarly, Request
<1>6. ASSUME NEW type \in NotificationType, Justified(request[c], type), step # "none"
      PROVE  Justified(request[c], type)'
  BY <1>1, <1>2, <1>5, <1>6 DEF Justified, Deserves, EventsPerDayLimit, counts
<1>7. request'[c].step \in {"warn", "warning", "reach", "reaching"} => step # "none" /\ request'[c].step = step
  BY <1>2 DEF NoRequest
<1>8. RequestsAreJustified'
  BY <1>2, <1>3, <1>6, <1>7, JustifiedStep DEF NotificationType
<1>9. NothingIsEarly'
  BY <1>2, EarlyStep DEF counts
<1>10. NotificationsAreDeserved'
  BY <1>3, DeservedLasts
<1>. QED
  BY <1>4, <1>8, <1>9, <1>10 DEF IInv

LEMMA LookUpPreserves ==
  ASSUME IInv, NEW c \in Client, LookUpWarning(c) \/ LookUpReached(c)
  PROVE  IInv'
<1>1. request[c] # NoRequest
  BY DEF LookUpWarning, LookUpReached, LookUp, NoRequest
<1>2. CASE LookUpWarning(c)
  <2>. DEFINE step == IF Notified(c, "Warning") THEN "insert" ELSE "warning"
  <2>1. /\ Continue(c, step)
        /\ UNCHANGED <<today, counts, quota_notifications, cleanup, refreshed>>
        /\ Justified(request[c], "Warning")
        /\ step \in Step /\ step \in {"insert", "warning"}
    BY <1>2 DEF LookUpWarning, LookUp, IInv, RequestsAreJustified, Step
  <2>. HIDE DEF step
  <2>2. TypeOK'
    BY <1>1, <2>1, ContinueStep DEF IInv, TypeOK, counts
  <2>. QED
    BY <1>1, <2>1, <2>2, MoveOn
<1>3. CASE LookUpReached(c)
  <2>. DEFINE step == IF Notified(c, "Reached") THEN "none" ELSE "reaching"
  <2>1. /\ Continue(c, step)
        /\ UNCHANGED <<today, counts, quota_notifications, cleanup, refreshed>>
        /\ Justified(request[c], "Reached")
        /\ step \in Step /\ step \in {"none", "reaching"}
    BY <1>3 DEF LookUpReached, LookUp, IInv, RequestsAreJustified, Step
  <2>. HIDE DEF step
  <2>2. TypeOK'
    BY <1>1, <2>1, ContinueStep DEF IInv, TypeOK, counts
  <2>. QED
    BY <1>1, <2>1, <2>2, MoveOn
<1>. QED
  BY <1>2, <1>3

LEMMA MovesPreserve ==
  ASSUME IInv, NEW c \in Client, StartInsert(c) \/ Fail(c)
  PROVE  IInv'
<1>. PICK step \in {"inserting", "none"} :
       /\ request[c] # NoRequest
       /\ Continue(c, step)
       /\ UNCHANGED <<today, counts, quota_notifications, cleanup, refreshed>>
  BY DEF StartInsert, Fail, NoRequest
<1>1. step \in Step
  BY DEF Step
<1>2. TypeOK'
  BY <1>1, ContinueStep DEF IInv, TypeOK, counts
<1>. QED
  BY <1>1, <1>2, MoveOn

LEMMA NotifyPreserves ==
  ASSUME IInv, NEW c \in Client, NotifyWarning(c) \/ NotifyReached(c)
  PROVE  IInv'
<1>. DEFINE o == OrganizationOf[request[c].application]
<1>1. PICK type \in NotificationType, step \in {"insert", "none"}, d \in request[c].day .. today :
        /\ request[c] # NoRequest
        /\ Justified(request[c], type)
        /\ quota_notifications' = [quota_notifications EXCEPT ![o][type][d] = @ + 1]
        /\ Continue(c, step)
        /\ UNCHANGED <<today, counts, cleanup, refreshed>>
  <2>1. CASE NotifyWarning(c)
    <3>1. PICK d \in request[c].day .. today :
            quota_notifications' = [quota_notifications EXCEPT ![o]["Warning"][d] = @ + 1]
      BY <2>1 DEF NotifyWarning, Notify
    <3>2. /\ request[c] # NoRequest
          /\ Continue(c, "insert")
          /\ UNCHANGED <<today, counts, cleanup, refreshed>>
      <4>1. request[c].step = "warning"
        BY <2>1 DEF NotifyWarning, Notify
      <4>2. request[c] # NoRequest
        BY <4>1 DEF NoRequest
      <4>3. Continue(c, "insert") /\ UNCHANGED <<today, counts, cleanup, refreshed>>
        BY <2>1 DEF NotifyWarning, Notify
      <4>. QED
        BY <4>2, <4>3
    <3>3. Justified(request[c], "Warning")
      BY <2>1 DEF NotifyWarning, Notify, IInv, RequestsAreJustified
    <3>. QED
      BY <3>1, <3>2, <3>3 DEF NotificationType
  <2>2. CASE NotifyReached(c)
    <3>1. PICK d \in request[c].day .. today :
            quota_notifications' = [quota_notifications EXCEPT ![o]["Reached"][d] = @ + 1]
      BY <2>2 DEF NotifyReached, Notify
    <3>2. /\ request[c] # NoRequest
          /\ Continue(c, "none")
          /\ UNCHANGED <<today, counts, cleanup, refreshed>>
      <4>1. request[c].step = "reaching"
        BY <2>2 DEF NotifyReached, Notify
      <4>2. request[c] # NoRequest
        BY <4>1 DEF NoRequest
      <4>3. Continue(c, "none") /\ UNCHANGED <<today, counts, cleanup, refreshed>>
        BY <2>2 DEF NotifyReached, Notify
      <4>. QED
        BY <4>2, <4>3
    <3>3. Justified(request[c], "Reached")
      BY <2>2 DEF NotifyReached, Notify, IInv, RequestsAreJustified
    <3>. QED
      BY <3>1, <3>2, <3>3 DEF NotificationType
  <2>. QED
    BY <2>1, <2>2
<1>2. TypeOK /\ request[c] \in Request /\ today \in Day /\ d \in Day /\ o \in Organization
  <2>1. TypeOK /\ request[c] \in Request /\ today \in Day
    BY <1>1 DEF IInv, TypeOK
  <2>2. request[c].day \in Day /\ request[c].application \in Application
    BY <2>1 DEF Request
  <2>. QED
    BY <2>1, <2>2
<1>3. /\ quota_notifications' \in [Organization -> [NotificationType -> [Day -> Nat]]]
      /\ \A p \in Organization, t \in NotificationType, e \in Day :
           quota_notifications'[p][t][e] > 0 =>
             quota_notifications[p][t][e] > 0 \/ (p = o /\ t = type /\ e = d)
  <2>1. quota_notifications \in [Organization -> [NotificationType -> [Day -> Nat]]]
    BY <1>2 DEF TypeOK
  <2>. HIDE DEF o, NotificationType
  <2>. QED
    BY <1>1, <1>2, <2>1, SMTT(30)
<1>4. TypeOK'
  BY <1>1, <1>2, <1>3, ContinueStep DEF TypeOK, counts, Step
<1>5. ReceiptsGrow
  <2>1. received \in Counts /\ received' = received
    BY <1>1, <1>2 DEF counts, TypeOK
  <2>. QED
    BY <2>1, CountsAreNumbers DEF ReceiptsGrow
<1>6. RequestsAreJustified' /\ NothingIsEarly'
  <2>1. /\ \A b \in Client \ {c} : request'[b] = request[b]
        /\ request'[c] # NoRequest => request'[c].day = today
        /\ request'[c].step \in {"insert", "none"}
    BY <1>1, <1>2, ContinueStep, SMTT(30) DEF Step, NoRequest
  <2>. QED
    BY <1>1, <1>4, <1>5, <2>1, JustifiedStep, EarlyStep DEF counts
<1>7. CountsAreReal'
  BY <1>1 DEF IInv, CountsAreReal, counts
<1>8. NotificationsAreDeserved'
  <2>. SUFFICES ASSUME NEW p \in Organization, NEW t \in NotificationType, NEW e \in Day,
                       quota_notifications'[p][t][e] > 0
                PROVE  \E a \in Application, f \in 0 .. e :
                         OrganizationOf[a] = p /\ Deserves(a, t, received[a][f])
    <3>. received' = received
      BY <1>1 DEF counts
    <3>. QED
      BY DEF NotificationsAreDeserved, Deserves, EventsPerDayLimit
  <2>1. CASE quota_notifications[p][t][e] > 0
    BY <2>1 DEF IInv, NotificationsAreDeserved
  <2>2. CASE p = o /\ t = type /\ e = d
    <3>1. PICK f \in 0 .. request[c].day :
            Deserves(request[c].application, type, received[request[c].application][f])
      BY <1>1 DEF Justified
    <3>2. f \in 0 .. d /\ request[c].application \in Application
      BY <1>2, <3>1 DEF Request
    <3>. QED
      BY <2>2, <3>1, <3>2
  <2>. QED
    BY <1>3, <2>1, <2>2
<1>. QED
  BY <1>4, <1>6, <1>7, <1>8 DEF IInv

LEMMA CommitPreserves ==
  ASSUME IInv, NEW c \in Client, CommitInsert(c)
  PROVE  IInv'
<1>. DEFINE a == request[c].application
            d == request[c].day
<1>1. /\ request[c] # NoRequest
      /\ event' = Bump(event, a, d)
      /\ received' = Bump(received, a, d)
      /\ late' \in {late, Bump(late, a, d)}
      /\ Continue(c, "none")
      /\ UNCHANGED <<today, events_per_day, all_time_events_per_day,
                     quota_notifications, cleanup, refreshed>>
  BY DEF CommitInsert, NoRequest
<1>2. TypeOK /\ request[c] \in Request /\ a \in Application /\ d \in Day /\ d <= today /\ today \in Nat
  BY <1>1 DEF IInv, TypeOK, Request, NothingIsEarly
<1>3. request' \in [Client -> Request \cup {NoRequest}] /\ request'[c] = NoRequest
      /\ \A b \in Client \ {c} : request'[b] = request[b]
  BY <1>1, <1>2, ContinueStep DEF Step
<1>. HIDE DEF a, d
<1>4. TypeOK'
  BY <1>1, <1>2, <1>3, BumpAdds DEF TypeOK
<1>5. \A b \in Application, e \in Day :
        /\ event[b][e] \in Nat /\ received[b][e] \in Nat
        /\ events_per_day[b][e] \in Nat /\ all_time_events_per_day[b][e] \in Nat
        /\ event'[b][e] = IF b = a /\ e = d THEN event[b][e] + 1 ELSE event[b][e]
        /\ received'[b][e] = IF b = a /\ e = d THEN received[b][e] + 1 ELSE received[b][e]
  <2>1. event \in Counts /\ received \in Counts
        /\ events_per_day \in Counts /\ all_time_events_per_day \in Counts
    BY <1>2 DEF TypeOK
  <2>2. \A b \in Application, e \in Day :
          event'[b][e] = IF b = a /\ e = d THEN event[b][e] + 1 ELSE event[b][e]
    <3>1. event' = Bump(event, a, d) /\ a \in Application /\ d \in Day
      BY <1>1, <1>2
    <3>2. event \in Counts
      BY <2>1
    <3>. QED
      BY <3>1, <3>2, BumpAdds
  <2>3. \A b \in Application, e \in Day :
          received'[b][e] = IF b = a /\ e = d THEN received[b][e] + 1 ELSE received[b][e]
    <3>1. received' = Bump(received, a, d) /\ a \in Application /\ d \in Day
      BY <1>1, <1>2
    <3>2. received \in Counts
      BY <2>1
    <3>. QED
      BY <3>1, <3>2, BumpAdds
  <2>4. \A b \in Application, e \in Day :
          /\ event[b][e] \in Nat /\ received[b][e] \in Nat
          /\ events_per_day[b][e] \in Nat /\ all_time_events_per_day[b][e] \in Nat
    BY <2>1, CountsAreNumbers
  <2>. QED
    BY <2>2, <2>3, <2>4
<1>6. ReceiptsGrow
  BY <1>5 DEF ReceiptsGrow
<1>7. CountsAreReal'
  BY <1>1, <1>5 DEF IInv, CountsAreReal
<1>8. NothingIsEarly'
  <2>1. NothingIsEarly /\ today' = today /\ cleanup' = cleanup
    BY <1>1 DEF IInv
  <2>2. \A b \in Client : request'[b] # NoRequest => request'[b].day <= today
    BY <1>3, <2>1 DEF NothingIsEarly
  <2>3. \A b \in Application, e \in Day : e > today => received'[b][e] = 0
    BY <1>2, <1>5, <2>1 DEF NothingIsEarly
  <2>. QED
    BY <2>1, <2>2, <2>3 DEF NothingIsEarly
<1>9. RequestsAreJustified'
  BY <1>3, <1>4, <1>6, JustifiedStep DEF NoRequest
<1>10. NotificationsAreDeserved'
  BY <1>1, <1>4, <1>6, DeservedLasts
<1>. QED
  BY <1>4, <1>7, <1>8, <1>9, <1>10 DEF IInv

(* The steps of the periodic tasks leave the requests alone.                *)
LEMMA TaskPreserves ==
  ASSUME IInv, TypeOK', CountsAreReal', UNCHANGED <<request, received, quota_notifications>>,
         today' \in {today, today + 1}, cleanup' <= today'
  PROVE  IInv'
<1>0. today \in Nat /\ today' \in Nat
  BY DEF IInv, TypeOK
<1>1. ReceiptsGrow
  BY CountsAreNumbers DEF ReceiptsGrow, IInv, TypeOK
<1>2. RequestsAreJustified'
  BY <1>1, RequestsStayJustified DEF RequestsAreJustified
<1>3. NothingIsEarly'
  <2>1. ASSUME NEW b \in Client, request[b] # NoRequest PROVE request[b].day \in Nat
    BY <2>1 DEF IInv, TypeOK, Request
  <2>. QED
    BY <1>0, <2>1 DEF IInv, NothingIsEarly
<1>4. NotificationsAreDeserved'
  BY <1>1, DeservedLasts
<1>. QED
  BY <1>2, <1>3, <1>4 DEF IInv

LEMMA RefreshPreserves == IInv /\ Refresh => IInv'
<1>. SUFFICES ASSUME IInv, Refresh PROVE IInv'
  OBVIOUS
<1>1. TypeOK'
  BY DEF IInv, TypeOK, Refresh
<1>2. CountsAreReal'
  BY DEF IInv, CountsAreReal, Refresh
<1>3. cleanup' <= today'
  BY DEF IInv, NothingIsEarly, Refresh
<1>. QED
  BY <1>1, <1>2, <1>3, TaskPreserves DEF Refresh

LEMMA BackUpPreserves == IInv /\ BackUp => IInv'
<1>. SUFFICES ASSUME IInv, BackUp PROVE IInv'
  OBVIOUS
<1>1. \A a \in Application, d \in Day :
        /\ all_time_events_per_day'[a][d] = BackedUp(a, d)
        /\ BackedUp(a, d) \in {events_per_day[a][d], all_time_events_per_day[a][d]}
  BY DEF BackUp, BackedUp
<1>2. all_time_events_per_day' \in Counts
  <2>1. \A a \in Application, d \in Day : BackedUp(a, d) \in Nat
    <3>1. events_per_day \in Counts /\ all_time_events_per_day \in Counts
      BY DEF IInv, TypeOK
    <3>. QED
      BY <1>1, <3>1, CountsAreNumbers
  <2>. QED
    BY <2>1 DEF BackUp, Counts
<1>3. TypeOK'
  BY <1>2 DEF IInv, TypeOK, BackUp
<1>4. CountsAreReal'
  BY <1>1 DEF IInv, CountsAreReal, BackUp
<1>5. cleanup' <= today'
  BY DEF IInv, TypeOK, BackUp
<1>. QED
  BY <1>3, <1>4, <1>5, TaskPreserves DEF BackUp

LEMMA DeletePreserves == IInv /\ DeleteOldEvents => IInv'
<1>. SUFFICES ASSUME IInv, DeleteOldEvents PROVE IInv'
  OBVIOUS
<1>1. event' \in Counts /\ \A a \in Application, d \in Day : event'[a][d] <= event[a][d]
  <2>1. CASE UNCHANGED event
    BY <2>1, CountsAreNumbers DEF IInv, TypeOK
  <2>2. CASE event' # event
    <3>1. PICK kept \in [Application -> 0 .. MaxEvents] :
            event' = [a \in Application |-> [d \in Day |-> Remaining(a, d, kept[a])]]
      BY <2>2 DEF DeleteOldEvents
    <3>2. \A a \in Application, d \in Day :
            Remaining(a, d, kept[a]) \in Nat /\ Remaining(a, d, kept[a]) <= event[a][d]
      BY RemainingShrinks DEF IInv
    <3>. QED
      BY <3>1, <3>2 DEF Counts
  <2>. QED
    BY <2>1, <2>2
<1>2. TypeOK'
  BY <1>1 DEF IInv, TypeOK, DeleteOldEvents
<1>3. CountsAreReal'
  <2>1. \A a \in Application, d \in Day :
          event[a][d] \in Nat /\ event'[a][d] \in Nat /\ received[a][d] \in Nat
    BY <1>1, CountsAreNumbers DEF IInv, TypeOK
  <2>. QED
    BY <1>1, <2>1 DEF IInv, CountsAreReal, DeleteOldEvents
<1>4. cleanup' <= today'
  BY DEF IInv, TypeOK, DeleteOldEvents
<1>. QED
  BY <1>2, <1>3, <1>4, TaskPreserves DEF DeleteOldEvents

LEMMA MidnightPreserves == IInv /\ Midnight => IInv'
<1>. SUFFICES ASSUME IInv, Midnight PROVE IInv'
  OBVIOUS
<1>1. today \in Nat /\ today' = today + 1 /\ today' \in Day
  BY DEF IInv, TypeOK, Midnight
<1>2. UNCHANGED <<request, counts, quota_notifications, cleanup>>
  BY DEF Midnight
<1>3. TypeOK'
  BY <1>1, <1>2 DEF IInv, TypeOK, Midnight, counts
<1>4. CountsAreReal'
  BY <1>2 DEF IInv, CountsAreReal, counts
<1>5. cleanup' <= today'
  BY <1>1, <1>2 DEF IInv, TypeOK, NothingIsEarly
<1>. QED
  BY <1>1, <1>2, <1>3, <1>4, <1>5, TaskPreserves DEF counts

LEMMA StepPreserves == IInv /\ [Next]_vars => IInv'
<1>. SUFFICES ASSUME IInv, [Next]_vars PROVE IInv'
  OBVIOUS
<1>1. CASE UNCHANGED vars
  BY <1>1 DEF vars, counts, IInv, TypeOK, CountsAreReal, NothingIsEarly, RequestsAreJustified,
       Justified, NotificationsAreDeserved, Deserves, EventsPerDayLimit
<1>2. ASSUME NEW c \in Client, NEW a \in Application, ReadCount(c, a) PROVE IInv'
  BY <1>2, ReadCountPreserves
<1>3. ASSUME NEW c \in Client, IngestStep(c) PROVE IInv'
  BY <1>3, LookUpPreserves, NotifyPreserves, CommitPreserves, MovesPreserve DEF IngestStep
<1>. QED
  BY <1>1, <1>2, <1>3, RefreshPreserves, BackUpPreserves, DeletePreserves, MidnightPreserves
     DEF Next

(* The invariant holds, for any number of applications, clients and days.   *)
THEOREM Invariant == Spec => []IInv
<1>. QED
  BY InitEstablishes, StepPreserves, PTL DEF Spec

(* Every variable keeps its type. *)
THEOREM TypeCorrect == Spec => []TypeOK
<1>1. IInv => TypeOK
  BY DEF IInv
<1>. QED
  BY <1>1, Invariant, PTL

(* Neither the view nor the backup ever shows more than was received.       *)
THEOREM CountsAreRealHolds == Spec => []CountsAreReal
<1>1. IInv => CountsAreReal
  BY DEF IInv
<1>. QED
  BY <1>1, Invariant, PTL

(* Nobody is told of a quota that no application of theirs ever came to.    *)
THEOREM NotificationsAreDeservedHolds == Spec => []NotificationsAreDeserved
<1>1. IInv => NotificationsAreDeserved
  BY DEF IInv
<1>. QED
  BY <1>1, Invariant, PTL

-----------------------------------------------------------------------------
(* Events are kept for four days at least; the defaults keep them for 37.   *)
LongRetention == \A a \in Application : Retention(a) >= 4

BackupInv ==
  /\ IInv
  /\ NothingStraddlesTwoMidnights
  /\ ViewCatchesUp
  /\ CleanupBackedUp
  /\ NoDayIsForgotten

LEMMA Numbers ==
  ASSUME IInv
  PROVE  /\ today \in Nat /\ cleanup \in Int /\ cleanup <= today
         /\ \A a \in Application, d \in Day :
              /\ event[a][d] \in Nat /\ received[a][d] \in Nat
              /\ events_per_day[a][d] \in Nat /\ all_time_events_per_day[a][d] \in Nat
              /\ event[a][d] <= received[a][d]
         /\ \A c \in Client : request[c] # NoRequest => request[c].day \in Nat
<1>1. today \in Nat /\ cleanup \in Int /\ cleanup <= today
  BY DEF IInv, TypeOK, NothingIsEarly
<1>2. \A a \in Application, d \in Day :
        /\ event[a][d] \in Nat /\ received[a][d] \in Nat
        /\ events_per_day[a][d] \in Nat /\ all_time_events_per_day[a][d] \in Nat
        /\ event[a][d] <= received[a][d]
  BY CountsAreNumbers DEF IInv, TypeOK, CountsAreReal
<1>3. \A c \in Client : request[c] # NoRequest => request[c].day \in Nat
  BY DEF IInv, TypeOK, Request
<1>. QED
  BY <1>1, <1>2, <1>3

LEMMA BackupInit == Init => BackupInv
<1>. SUFFICES ASSUME Init PROVE BackupInv
  OBVIOUS
<1>1. IInv
  BY InitEstablishes
<1>2. \A a \in Application, d \in Day : event[a][d] = 0 /\ received[a][d] = 0
  BY DEF Init, NoCounts
<1>3. \A c \in Client : request[c].step # "inserting"
  BY DEF Init, NoRequest
<1>4. cleanup = Sleeping
  BY DEF Init
<1>. QED
  BY <1>1, <1>2, <1>3, <1>4 DEF BackupInv, NothingStraddlesTwoMidnights, ViewCatchesUp,
     CleanupBackedUp, NoDayIsForgotten

(* Steps of a request that commit nothing: an insertion they start is of    *)
(* today.                                                                   *)
LEMMA BackupRequestStep ==
  ASSUME BackupInv, NEW c \in Client,
         UNCHANGED <<today, counts, cleanup, refreshed>>,
         \A b \in Client \ {c} : request'[b] = request[b],
         request'[c].step = "inserting" => request'[c].day = today
  PROVE  /\ NothingStraddlesTwoMidnights' /\ ViewCatchesUp'
         /\ CleanupBackedUp' /\ NoDayIsForgotten'
<1>1. NothingStraddlesTwoMidnights'
  BY Numbers DEF BackupInv, NothingStraddlesTwoMidnights
<1>2. ViewCatchesUp'
  BY DEF BackupInv, ViewCatchesUp, counts
<1>3. CleanupBackedUp'
  BY DEF BackupInv, CleanupBackedUp, counts
<1>4. NoDayIsForgotten'
  BY DEF BackupInv, NoDayIsForgotten, counts
<1>. QED
  BY <1>1, <1>2, <1>3, <1>4

LEMMA BackupIngest ==
  ASSUME BackupInv, NEW c \in Client,
         IngestStep(c) \/ \E a \in Application : ReadCount(c, a)
  PROVE  /\ NothingStraddlesTwoMidnights' /\ ViewCatchesUp'
         /\ CleanupBackedUp' /\ NoDayIsForgotten'
<1>. TypeOK
  BY DEF BackupInv, IInv
<1>1. ASSUME NEW a \in Application, ReadCount(c, a)
      PROVE  /\ UNCHANGED <<today, counts, cleanup, refreshed>>
             /\ \A b \in Client \ {c} : request'[b] = request[b]
             /\ request'[c].step # "inserting"
  BY <1>1 DEF ReadCount, StepAfterRead, TypeOK
<1>2. ASSUME request[c] # NoRequest, NEW step \in Step, Continue(c, step)
      PROVE  /\ \A b \in Client \ {c} : request'[b] = request[b]
             /\ request'[c].step = "inserting" => request'[c].day = today
  BY <1>2, ContinueStep DEF NoRequest
<1>3. CASE IngestStep(c) /\ ~CommitInsert(c)
  <2>1. /\ request[c] # NoRequest
        /\ UNCHANGED <<today, counts, cleanup, refreshed>>
    <3>1. UNCHANGED <<today, counts, cleanup, refreshed>>
      BY <1>3 DEF IngestStep, LookUpWarning, LookUpReached, LookUp, NotifyWarning,
         NotifyReached, Notify, StartInsert, Fail
    <3>2. CASE Fail(c)
      BY <3>1, <3>2 DEF Fail
    <3>3. CASE ~Fail(c)
      <4>1. request[c].step \in {"warn", "warning", "reach", "reaching", "insert"}
        BY <1>3, <3>3 DEF IngestStep, LookUpWarning, LookUpReached, LookUp, NotifyWarning,
           NotifyReached, Notify, StartInsert
      <4>. QED
        BY <3>1, <4>1 DEF NoRequest
    <3>. QED
      BY <3>2, <3>3
  <2>2. \E step \in Step : Continue(c, step)
    BY <1>3 DEF IngestStep, LookUpWarning, LookUpReached, LookUp, NotifyWarning,
       NotifyReached, Notify, StartInsert, Fail, Step
  <2>. QED
    BY <1>2, <2>1, <2>2, BackupRequestStep
<1>4. CASE CommitInsert(c)
  <2>. DEFINE a == request[c].application
              d == request[c].day
  <2>1. /\ request[c].step = "inserting"
        /\ event' = Bump(event, a, d)
        /\ received' = Bump(received, a, d)
        /\ Continue(c, "none")
        /\ UNCHANGED <<today, events_per_day, all_time_events_per_day, cleanup, refreshed>>
    BY <1>4 DEF CommitInsert
  <2>2. request[c] \in Request
    BY <2>1 DEF TypeOK, NoRequest
  <2>3. a \in Application /\ d \in Day
    BY <2>2 DEF Request
  <2>4. d >= today - 1 /\ today \in Nat /\ cleanup \in Int /\ cleanup <= today
    BY <2>1, Numbers DEF BackupInv, NothingStraddlesTwoMidnights
  <2>5. event \in Counts /\ received \in Counts
    BY DEF TypeOK
  <2>. HIDE DEF a, d
  <2>6. \A b \in Application, e \in Day :
          event'[b][e] = IF b = a /\ e = d THEN event[b][e] + 1 ELSE event[b][e]
    BY <2>1, <2>3, <2>5, BumpAdds
  <2>7. \A b \in Application, e \in Day :
          received'[b][e] = IF b = a /\ e = d THEN received[b][e] + 1 ELSE received[b][e]
    BY <2>1, <2>3, <2>5, BumpAdds
  <2>8. NothingStraddlesTwoMidnights'
    <3>1. \A b \in Client : request'[b].step = "inserting" => request'[b] = request[b]
      BY <2>1, <2>2, ContinueStep DEF Step, NoRequest
    <3>. QED
      BY <2>1, <3>1 DEF BackupInv, NothingStraddlesTwoMidnights
  <2>9. ViewCatchesUp'
    BY <2>1, <2>3, <2>4, <2>7 DEF BackupInv, ViewCatchesUp
  <2>10. CleanupBackedUp'
    BY <2>1, <2>3, <2>4, <2>7 DEF BackupInv, CleanupBackedUp
  <2>11. NoDayIsForgotten'
    <3>. SUFFICES ASSUME NEW b \in Application, NEW e \in Day, event'[b][e] < received'[b][e]
                  PROVE  all_time_events_per_day[b][e] > 0
      BY <2>1 DEF NoDayIsForgotten
    <3>1. event[b][e] \in Nat /\ received[b][e] \in Nat
      BY Numbers DEF BackupInv
    <3>2. event[b][e] < received[b][e]
      BY <2>6, <2>7, <3>1
    <3>. QED
      BY <3>2 DEF BackupInv, NoDayIsForgotten
  <2>. QED
    BY <2>8, <2>9, <2>10, <2>11
<1>. QED
  BY <1>1, <1>3, <1>4, BackupRequestStep

LEMMA BackupTasks ==
  ASSUME LongRetention, BackupInv, Refresh \/ BackUp \/ DeleteOldEvents \/ Midnight
  PROVE  /\ NothingStraddlesTwoMidnights' /\ ViewCatchesUp'
         /\ CleanupBackedUp' /\ NoDayIsForgotten'
<1>1. IInv /\ today \in Nat /\ cleanup \in Int /\ cleanup <= today
  BY Numbers DEF BackupInv
<1>2. CASE Refresh
  <2>1. NothingStraddlesTwoMidnights' /\ CleanupBackedUp' /\ NoDayIsForgotten'
    BY <1>2 DEF Refresh, BackupInv, NothingStraddlesTwoMidnights, CleanupBackedUp, NoDayIsForgotten
  <2>2. ASSUME NEW a \in Application, NEW d \in Day, received[a][d] > 0
        PROVE  event[a][d] > 0 \/ all_time_events_per_day[a][d] > 0
    <3>1. event[a][d] \in Nat /\ received[a][d] \in Nat
      BY <1>1, Numbers
    <3>2. CASE event[a][d] = 0
      BY <2>2, <3>1, <3>2 DEF BackupInv, NoDayIsForgotten
    <3>. QED
      BY <3>1, <3>2
  <2>3. ViewCatchesUp'
    BY <1>2, <2>2 DEF Refresh, ViewCatchesUp
  <2>. QED
    BY <2>1, <2>3
<1>3. CASE BackUp
  <2>1. \A a \in Application, d \in Day :
          all_time_events_per_day'[a][d] =
            IF d < today /\ all_time_events_per_day[a][d] = 0
            THEN events_per_day[a][d] ELSE all_time_events_per_day[a][d]
    BY <1>3 DEF BackUp, BackedUp
  <2>2. \A a \in Application, d \in Day :
          /\ received[a][d] \in Nat
          /\ events_per_day[a][d] \in Nat /\ all_time_events_per_day[a][d] \in Nat
    BY <1>1, Numbers
  <2>3. UNCHANGED <<today, request, event, events_per_day, received, refreshed>> /\ cleanup' = today
    BY <1>3 DEF BackUp
  <2>4. NothingStraddlesTwoMidnights'
    BY <1>1, <2>3 DEF BackupInv, NothingStraddlesTwoMidnights
  <2>5. ViewCatchesUp'
    BY <2>1, <2>2, <2>3 DEF BackupInv, ViewCatchesUp
  <2>6. CleanupBackedUp'
    <3>. SUFFICES ASSUME NEW a \in Application, NEW d \in Day, received[a][d] > 0, d + 3 <= today
                  PROVE  all_time_events_per_day'[a][d] > 0
      BY <2>3 DEF CleanupBackedUp
    <3>1. events_per_day[a][d] > 0 \/ all_time_events_per_day[a][d] > 0
      BY <1>1 DEF BackupInv, ViewCatchesUp
    <3>. QED
      BY <1>1, <2>1, <2>2, <3>1
  <2>7. NoDayIsForgotten'
    BY <2>1, <2>2, <2>3 DEF BackupInv, NoDayIsForgotten
  <2>. QED
    BY <2>4, <2>5, <2>6, <2>7
<1>4. CASE DeleteOldEvents
  <2>1. /\ UNCHANGED <<today, request, events_per_day, all_time_events_per_day, received, refreshed>>
        /\ cleanup # Sleeping /\ cleanup' = Sleeping
    BY <1>4 DEF DeleteOldEvents
  <2>2. NothingStraddlesTwoMidnights' /\ ViewCatchesUp' /\ CleanupBackedUp'
    BY <2>1 DEF BackupInv, NothingStraddlesTwoMidnights, ViewCatchesUp, CleanupBackedUp
  <2>3. \A a \in Application, d \in Day :
          event'[a][d] = event[a][d] \/ (event[a][d] > 0 /\ d + 4 <= today)
    <3>. SUFFICES ASSUME NEW a \in Application, NEW d \in Day, event'[a][d] # event[a][d]
                  PROVE  event[a][d] > 0 /\ d + 4 <= today
      OBVIOUS
    <3>1. PICK kept \in [Application -> 0 .. MaxEvents] :
            event' = [b \in Application |-> [e \in Day |-> Remaining(b, e, kept[b])]]
      BY <1>4 DEF DeleteOldEvents
    <3>2. event'[a][d] = Remaining(a, d, kept[a]) /\ kept[a] \in Nat
      BY <3>1
    <3>3. event[a][d] \in Nat /\ Retention(a) \in Nat /\ Retention(a) >= 4
      BY <1>1, Numbers, RetentionIsANumber DEF LongRetention
    <3>4. /\ Remaining(a, d, kept[a]) \in Nat
          /\ Remaining(a, d, kept[a]) <= event[a][d]
          /\ d + Retention(a) > today => Remaining(a, d, kept[a]) = event[a][d]
      BY <1>1, <3>2, RemainingShrinks DEF IInv
    <3>. QED
      BY <1>1, <3>2, <3>3, <3>4
  <2>4. NoDayIsForgotten'
    <3>. SUFFICES ASSUME NEW a \in Application, NEW d \in Day, event'[a][d] < received[a][d]
                  PROVE  all_time_events_per_day[a][d] > 0
      BY <2>1 DEF NoDayIsForgotten
    <3>1. CASE event'[a][d] = event[a][d]
      BY <3>1 DEF BackupInv, NoDayIsForgotten
    <3>2. CASE event[a][d] > 0 /\ d + 4 <= today
      <4>1. received[a][d] > 0
        BY <1>1, <3>2, Numbers
      <4>2. cleanup >= today - 1
        BY <2>1 DEF BackupInv, NothingStraddlesTwoMidnights
      <4>. QED
        BY <1>1, <2>1, <3>2, <4>1, <4>2 DEF BackupInv, CleanupBackedUp
    <3>. QED
      BY <2>3, <3>1, <3>2
  <2>. QED
    BY <2>2, <2>4
<1>5. CASE Midnight
  <2>1. /\ today' = today + 1 /\ refreshed /\ refreshed' = FALSE
        /\ UNCHANGED <<request, counts, cleanup>>
        /\ cleanup \in {Sleeping, today}
        /\ \A c \in Client : request[c].step = "inserting" => request[c].day = today
    BY <1>5 DEF Midnight
  <2>2. NothingStraddlesTwoMidnights'
    BY <1>1, <2>1 DEF NothingStraddlesTwoMidnights
  <2>3. ViewCatchesUp'
    BY <1>1, <2>1 DEF BackupInv, ViewCatchesUp, counts
  <2>4. CleanupBackedUp' /\ NoDayIsForgotten'
    BY <2>1 DEF BackupInv, CleanupBackedUp, NoDayIsForgotten, counts
  <2>. QED
    BY <2>2, <2>3, <2>4
<1>. QED
  BY <1>2, <1>3, <1>4, <1>5

(* No event is deleted before its day is in the backup, however late the    *)
(* view is refreshed within a day and wherever midnight falls.              *)
THEOREM NoDayIsForgottenHolds == LongRetention => (Spec => []NoDayIsForgotten)
<1>. SUFFICES ASSUME LongRetention PROVE Spec => []NoDayIsForgotten
  OBVIOUS
<1>1. BackupInv /\ [Next]_vars => BackupInv'
  <2>. SUFFICES ASSUME BackupInv, [Next]_vars PROVE BackupInv'
    OBVIOUS
  <2>1. IInv'
    BY StepPreserves DEF BackupInv
  <2>2. CASE UNCHANGED vars
    BY <2>1, <2>2 DEF vars, counts, BackupInv, NothingStraddlesTwoMidnights, ViewCatchesUp,
       CleanupBackedUp, NoDayIsForgotten
  <2>3. CASE Next
    BY <2>1, <2>3, BackupIngest, BackupTasks DEF Next, BackupInv
  <2>. QED
    BY <2>2, <2>3
<1>2. BackupInv => NoDayIsForgotten
  BY DEF BackupInv
<1>. QED
  BY <1>1, <1>2, BackupInit, PTL DEF Spec

-----------------------------------------------------------------------------
(* Counters that clients push up, each at most once.  The clients that can  *)
(* still do it take the room that is left below the number of clients.      *)

(* A client that counts leaves those that can still count; before the first *)
(* count, any client may join them.                                         *)
LEMMA Room ==
  ASSUME NEW S \in SUBSET Client, NEW T \in SUBSET Client, NEW m \in Nat, NEW n \in Nat,
         m + Cardinality(S) <= Cardinality(Client),
         \/ n = m /\ T \subseteq S
         \/ n = 0
         \/ n = m + 1 /\ \E c \in S : T \subseteq S \ {c}
  PROVE  n + Cardinality(T) <= Cardinality(Client)
<1>1. IsFiniteSet(Client) /\ IsFiniteSet(S) /\ IsFiniteSet(T)
  BY FS_Subset
<1>2. /\ Cardinality(Client) \in Nat /\ Cardinality(S) \in Nat /\ Cardinality(T) \in Nat
      /\ Cardinality(T) <= Cardinality(Client)
  BY <1>1, FS_CardinalityType, FS_Subset
<1>3. CASE n = m /\ T \subseteq S
  <2>1. Cardinality(T) <= Cardinality(S)
    BY <1>1, <1>3, FS_Subset
  <2>. QED
    BY <1>2, <1>3, <2>1
<1>4. CASE n = m + 1 /\ \E c \in S : T \subseteq S \ {c}
  <2>1. PICK c \in S : T \subseteq S \ {c}
    BY <1>4
  <2>2. IsFiniteSet(S \ {c}) /\ Cardinality(S \ {c}) = Cardinality(S) - 1
    BY <1>1, FS_RemoveElement
  <2>3. Cardinality(T) <= Cardinality(S \ {c})
    BY <2>1, <2>2, FS_Subset
  <2>. QED
    BY <1>2, <1>4, <2>2, <2>3
<1>. QED
  BY <1>2, <1>3, <1>4

(* A step of a request's handler moves that request and no other.           *)
LEMMA IngestMoves ==
  ASSUME IInv, NEW c \in Client, IngestStep(c)
  PROVE  /\ request[c] \in Request
         /\ UNCHANGED <<today, events_per_day, cleanup, refreshed>>
         /\ \A b \in Client \ {c} : request'[b] = request[b]
         /\ \/ request'[c] = NoRequest
            \/ /\ request'[c] \in Request
               /\ request'[c].day = today
               /\ request'[c].application = request[c].application
               /\ request'[c].current = request[c].current
<1>1. request[c] # NoRequest
  <2>1. CASE LookUpWarning(c) \/ LookUpReached(c)
    BY <2>1 DEF LookUpWarning, LookUpReached, LookUp, NoRequest
  <2>2. CASE NotifyWarning(c) \/ NotifyReached(c)
    <3>1. request[c].step \in {"warning", "reaching"}
      BY <2>2 DEF NotifyWarning, NotifyReached, Notify
    <3>. QED
      BY <3>1 DEF NoRequest
  <2>3. CASE StartInsert(c) \/ CommitInsert(c) \/ Fail(c)
    BY <2>3 DEF StartInsert, CommitInsert, Fail, NoRequest
  <2>. QED
    BY <2>1, <2>2, <2>3 DEF IngestStep
<1>2. TypeOK /\ request[c] \in Request
  BY <1>1 DEF IInv, TypeOK
<1>3. PICK step \in Step : Continue(c, step)
  <2>1. CASE LookUpWarning(c) \/ LookUpReached(c)
    BY <2>1 DEF LookUpWarning, LookUpReached, LookUp, Step
  <2>2. CASE NotifyWarning(c) \/ NotifyReached(c)
    BY <2>2 DEF NotifyWarning, NotifyReached, Notify, Step
  <2>3. CASE StartInsert(c) \/ CommitInsert(c) \/ Fail(c)
    BY <2>3 DEF StartInsert, CommitInsert, Fail, Step
  <2>. QED
    BY <2>1, <2>2, <2>3 DEF IngestStep
<1>4. UNCHANGED <<today, events_per_day, cleanup, refreshed>>
  <2>1. CASE LookUpWarning(c) \/ LookUpReached(c)
    BY <2>1 DEF LookUpWarning, LookUpReached, LookUp, counts
  <2>2. CASE NotifyWarning(c) \/ NotifyReached(c)
    BY <2>2 DEF NotifyWarning, NotifyReached, Notify, counts
  <2>3. CASE StartInsert(c) \/ CommitInsert(c) \/ Fail(c)
    BY <2>3 DEF StartInsert, CommitInsert, Fail, counts
  <2>. QED
    BY <2>1, <2>2, <2>3 DEF IngestStep
<1>5. step # "none" => request'[c].current = request[c].current
  BY <1>2, <1>3 DEF Continue, TypeOK, Request
<1>6. /\ request' \in [Client -> Request \cup {NoRequest}]
      /\ \A b \in Client \ {c} : request'[b] = request[b]
      /\ step = "none" => request'[c] = NoRequest
      /\ step # "none" => /\ request'[c] \in Request
                          /\ request'[c].day = today
                          /\ request'[c].application = request[c].application
  BY <1>1, <1>2, <1>3, ContinueStep
<1>. QED
  BY <1>2, <1>4, <1>5, <1>6

-----------------------------------------------------------------------------
(* The notifications of a type and a day.                                   *)

Sending(type) == IF type = "Warning" THEN "warning" ELSE "reaching"

(* Requests that found no notification and can still date theirs to day d.  *)
Senders(o, t, d) ==
  {c \in Client : /\ request[c].step = Sending(t)
                  /\ OrganizationOf[request[c].application] = o
                  /\ request[c].day <= d}

FewInv ==
  \A o \in Organization, t \in NotificationType, d \in Day :
    /\ quota_notifications[o][t][d] + Cardinality(Senders(o, t, d)) <= Cardinality(Client)
    /\ quota_notifications[o][t][d] > 0 => d <= today

LEMMA NotificationsAreNumbers ==
  ASSUME TypeOK, NEW o \in Organization, NEW t \in NotificationType, NEW d \in Day
  PROVE  quota_notifications[o][t][d] \in Nat
  BY DEF TypeOK

LEMMA ClientsAreCounted ==
  /\ Cardinality(Client) \in Nat
  /\ Cardinality({}) = 0
  /\ \A S \in SUBSET Client : Cardinality(S) \in Nat /\ Cardinality(S) <= Cardinality(Client)
  BY FS_CardinalityType, FS_Subset, FS_EmptySet

LEMMA FewInit == Init => FewInv
<1>. SUFFICES ASSUME Init, NEW o \in Organization, NEW t \in NotificationType, NEW d \in Day
              PROVE  /\ quota_notifications[o][t][d] = 0
                     /\ Senders(o, t, d) = {}
  BY ClientsAreCounted DEF FewInv
<1>1. quota_notifications[o][t][d] = 0
  BY DEF Init
<1>2. Senders(o, t, d) = {}
  BY DEF Init, Senders, Sending, NoRequest
<1>. QED
  BY <1>1, <1>2

(* Nobody sends who did not before, and nothing is sent. *)
LEMMA FewKept ==
  ASSUME IInv, FewInv, TypeOK', UNCHANGED quota_notifications, today' \in {today, today + 1},
         \A o \in Organization, t \in NotificationType, d \in Day :
           \/ Senders(o, t, d)' \subseteq Senders(o, t, d)
           \/ quota_notifications[o][t][d] = 0
  PROVE  FewInv'
<1>. SUFFICES ASSUME NEW o \in Organization, NEW t \in NotificationType, NEW d \in Day
              PROVE  /\ quota_notifications[o][t][d] + Cardinality(Senders(o, t, d)')
                          <= Cardinality(Client)
                     /\ quota_notifications[o][t][d] > 0 => d <= today'
  BY DEF FewInv
<1>1. quota_notifications[o][t][d] \in Nat /\ today \in Nat
  BY NotificationsAreNumbers DEF IInv, TypeOK
<1>2. Senders(o, t, d) \in SUBSET Client /\ Senders(o, t, d)' \in SUBSET Client
  BY DEF Senders
<1>3. quota_notifications[o][t][d] + Cardinality(Senders(o, t, d)) <= Cardinality(Client)
  BY DEF FewInv
<1>4. quota_notifications[o][t][d] + Cardinality(Senders(o, t, d)') <= Cardinality(Client)
  BY <1>1, <1>2, <1>3, Room
<1>. QED
  BY <1>1, <1>4 DEF FewInv

LEMMA FewReadCount ==
  ASSUME IInv, IInv', FewInv, NEW c \in Client, NEW a \in Application, ReadCount(c, a)
  PROVE  FewInv'
<1>1. /\ \A b \in Client \ {c} : request'[b] = request[b]
      /\ request'[c].step \in {"warn", "reach", "insert"}
      /\ UNCHANGED <<today, quota_notifications>>
  BY DEF ReadCount, StepAfterRead, IInv, TypeOK
<1>2. \A o \in Organization, t \in NotificationType, d \in Day :
        Senders(o, t, d)' \subseteq Senders(o, t, d)
  BY <1>1 DEF Senders, Sending
<1>. QED
  BY <1>1, <1>2, FewKept DEF IInv

(* Who looks up a notification of today and finds none starts to send one.  *)
LEMMA FewLookUp ==
  ASSUME IInv, IInv', FewInv, NEW c \in Client, LookUpWarning(c) \/ LookUpReached(c)
  PROVE  FewInv'
<1>1. /\ request[c] \in Request
      /\ today' = today
      /\ \A b \in Client \ {c} : request'[b] = request[b]
      /\ \/ request'[c] = NoRequest
         \/ /\ request'[c].day = today
            /\ request'[c].application = request[c].application
  BY IngestMoves DEF IngestStep
<1>2. quota_notifications' = quota_notifications
  BY DEF LookUpWarning, LookUpReached, LookUp
<1>3. \A type \in NotificationType :
        request'[c].step = Sending(type) => ~Notified(c, type)
  <2>1. CASE LookUpWarning(c)
    <3>1. Continue(c, IF Notified(c, "Warning") THEN "insert" ELSE "warning")
      BY <2>1 DEF LookUpWarning, LookUp
    <3>2. request'[c].step = IF Notified(c, "Warning") THEN "insert" ELSE "warning"
      BY <1>1, <3>1 DEF Continue, IInv, TypeOK, Request
    <3>. QED
      BY <3>2 DEF Sending, NotificationType
  <2>2. CASE LookUpReached(c)
    <3>1. Continue(c, IF Notified(c, "Reached") THEN "none" ELSE "reaching")
      BY <2>2 DEF LookUpReached, LookUp
    <3>2. request'[c].step = IF Notified(c, "Reached") THEN "none" ELSE "reaching"
      BY <1>1, <3>1 DEF Continue, IInv, TypeOK, Request, NoRequest
    <3>. QED
      BY <3>2 DEF Sending, NotificationType
  <2>. QED
    BY <2>1, <2>2
<1>4. ASSUME NEW o \in Organization, NEW t \in NotificationType, NEW d \in Day,
             ~(Senders(o, t, d)' \subseteq Senders(o, t, d))
      PROVE  quota_notifications[o][t][d] = 0
  <2>1. c \in Senders(o, t, d)'
    BY <1>1, <1>4 DEF Senders
  <2>2. /\ request'[c].step = Sending(t) /\ request'[c] # NoRequest
        /\ OrganizationOf[request[c].application] = o
        /\ today <= d
    BY <1>1, <2>1 DEF Senders, Sending, NoRequest
  <2>3. ~(quota_notifications[o][t][today] > 0)
    BY <1>3, <2>2 DEF Notified
  <2>4. quota_notifications[o][t][d] \in Nat /\ today \in Nat /\ d \in Nat
    BY NotificationsAreNumbers DEF IInv, TypeOK
  <2>. QED
    BY <2>2, <2>3, <2>4 DEF FewInv
<1>. QED
  BY <1>1, <1>2, <1>4, FewKept DEF IInv

(* Who sends one is not among the senders any more. *)
LEMMA FewNotify ==
  ASSUME IInv, IInv', FewInv, NEW c \in Client, NEW type \in NotificationType,
         NEW after \in {"insert", "none"}, Notify(c, Sending(type), type, after)
  PROVE  FewInv'
<1>. DEFINE org == OrganizationOf[request[c].application]
<1>1. PICK day \in request[c].day .. today :
        quota_notifications' = [quota_notifications EXCEPT ![org][type][day] = @ + 1]
  BY DEF Notify
<1>2. request[c].step = Sending(type) /\ today' = today /\ Continue(c, after)
  BY DEF Notify
<1>3. request[c] \in Request /\ today \in Nat /\ TypeOK
  BY <1>2 DEF IInv, TypeOK, Sending, NoRequest
<1>4. org \in Organization /\ request[c].day \in Day /\ day \in Day
  BY <1>1, <1>3, SMTT(30) DEF Request, IInv, TypeOK
<1>5. /\ \A b \in Client \ {c} : request'[b] = request[b]
      /\ request'[c].step = after
  BY <1>2, <1>3 DEF Continue, TypeOK, NoRequest, Request
<1>. HIDE DEF org
<1>6. \A o \in Organization, t \in NotificationType, d \in Day :
        quota_notifications'[o][t][d] =
          IF o = org /\ t = type /\ d = day
          THEN quota_notifications[o][t][d] + 1 ELSE quota_notifications[o][t][d]
  <2>1. quota_notifications \in [Organization -> [NotificationType -> [Day -> Nat]]]
    BY <1>3 DEF TypeOK
  <2>2. ASSUME NEW o \in Organization, NEW t \in NotificationType, NEW d \in Day
        PROVE  quota_notifications'[o][t][d] =
                 IF o = org /\ t = type /\ d = day
                 THEN quota_notifications[o][t][d] + 1 ELSE quota_notifications[o][t][d]
    <3>. HIDE DEF NotificationType
    <3>1. CASE o # org
      BY <1>1, <1>4, <2>1, <3>1
    <3>2. CASE o = org /\ t # type
      BY <1>1, <1>4, <2>1, <3>2
    <3>3. CASE o = org /\ t = type /\ d # day
      BY <1>1, <1>4, <2>1, <3>3
    <3>4. CASE o = org /\ t = type /\ d = day
      BY <1>1, <1>4, <2>1, <3>4
    <3>. QED
      BY <3>1, <3>2, <3>3, <3>4
  <2>. QED
    BY <2>2
<1>. SUFFICES ASSUME NEW o \in Organization, NEW t \in NotificationType, NEW d \in Day
              PROVE  /\ quota_notifications'[o][t][d] + Cardinality(Senders(o, t, d)')
                          <= Cardinality(Client)
                     /\ quota_notifications'[o][t][d] > 0 => d <= today
  BY <1>2 DEF FewInv
<1>7. Senders(o, t, d) \in SUBSET Client /\ Senders(o, t, d)' \in SUBSET Client
  BY DEF Senders
<1>8. Senders(o, t, d)' \subseteq Senders(o, t, d) \ {c}
  BY <1>5 DEF Senders, Sending
<1>9. o = org /\ t = type /\ d = day => c \in Senders(o, t, d)
  BY <1>1, <1>2, <1>3, <1>4, SMTT(30) DEF Senders, org
<1>10. quota_notifications[o][t][d] \in Nat /\ quota_notifications'[o][t][d] \in Nat
  BY <1>3, <1>6, NotificationsAreNumbers
<1>11. quota_notifications[o][t][d] + Cardinality(Senders(o, t, d)) <= Cardinality(Client)
  BY DEF FewInv
<1>12. quota_notifications'[o][t][d] + Cardinality(Senders(o, t, d)') <= Cardinality(Client)
  <2>1. CASE o = org /\ t = type /\ d = day
    BY <1>6, <1>7, <1>8, <1>9, <1>10, <1>11, <2>1, Room
  <2>2. CASE ~(o = org /\ t = type /\ d = day)
    BY <1>6, <1>7, <1>8, <1>10, <1>11, <2>2, Room
  <2>. QED
    BY <2>1, <2>2
<1>. QED
  BY <1>1, <1>4, <1>6, <1>12 DEF FewInv

LEMMA FewMoves ==
  ASSUME IInv, IInv', FewInv, NEW c \in Client, StartInsert(c) \/ CommitInsert(c) \/ Fail(c)
  PROVE  FewInv'
<1>1. quota_notifications' = quota_notifications /\ today' = today
  BY DEF StartInsert, CommitInsert, Fail
<1>2. PICK step \in {"inserting", "none"} : Continue(c, step)
  BY DEF StartInsert, CommitInsert, Fail
<1>3. /\ \A b \in Client \ {c} : request'[b] = request[b]
      /\ request[c] \in Request
  BY IngestMoves DEF IngestStep
<1>4. request'[c].step = step
  BY <1>2, <1>3 DEF Continue, IInv, TypeOK, NoRequest, Request
<1>5. \A o \in Organization, t \in NotificationType, d \in Day :
        Senders(o, t, d)' \subseteq Senders(o, t, d)
  BY <1>3, <1>4 DEF Senders, Sending
<1>. QED
  BY <1>1, <1>5, FewKept DEF IInv

LEMMA FewStep == IInv /\ FewInv /\ [Next]_vars => FewInv'
<1>. SUFFICES ASSUME IInv, FewInv, [Next]_vars PROVE FewInv'
  OBVIOUS
<1>1. IInv'
  BY StepPreserves
<1>2. CASE UNCHANGED vars \/ Refresh \/ BackUp \/ DeleteOldEvents \/ Midnight
  <2>1. /\ UNCHANGED <<request, quota_notifications>>
        /\ today' \in {today, today + 1}
    BY <1>2 DEF vars, Refresh, BackUp, DeleteOldEvents, Midnight
  <2>2. \A o \in Organization, t \in NotificationType, d \in Day :
          Senders(o, t, d)' = Senders(o, t, d)
    BY <2>1 DEF Senders
  <2>. QED
    BY <1>1, <2>1, <2>2, FewKept DEF IInv
<1>3. ASSUME NEW c \in Client, NEW a \in Application, ReadCount(c, a) PROVE FewInv'
  BY <1>1, <1>3, FewReadCount
<1>4. ASSUME NEW c \in Client, IngestStep(c) PROVE FewInv'
  <2>1. CASE LookUpWarning(c) \/ LookUpReached(c)
    BY <1>1, <2>1, FewLookUp
  <2>2. CASE NotifyWarning(c)
    BY <1>1, <2>2, FewNotify DEF NotifyWarning, Sending, NotificationType
  <2>3. CASE NotifyReached(c)
    BY <1>1, <2>3, FewNotify DEF NotifyReached, Sending, NotificationType
  <2>4. CASE StartInsert(c) \/ CommitInsert(c) \/ Fail(c)
    BY <1>1, <2>4, FewMoves
  <2>. QED
    BY <1>4, <2>1, <2>2, <2>3, <2>4 DEF IngestStep
<1>. QED
  BY <1>2, <1>3, <1>4 DEF Next

(* However many requests look up a notification before it is sent, and      *)
(* whichever day they date it to, there are no more of a type and a day     *)
(* than requests that the API handles at a time.                            *)
THEOREM NotificationsAreFewHolds == Spec => []NotificationsAreFew
<1>1. IInv /\ FewInv => NotificationsAreFew
  <2>. SUFFICES ASSUME IInv, FewInv, NEW o \in Organization, NEW t \in NotificationType, NEW d \in Day
                PROVE  quota_notifications[o][t][d] <= Cardinality(Client)
    BY DEF NotificationsAreFew
  <2>1. Senders(o, t, d) \in SUBSET Client
    BY DEF Senders
  <2>. QED
    BY <2>1, NotificationsAreNumbers, ClientsAreCounted DEF IInv, FewInv
<1>. QED
  BY <1>1, FewInit, FewStep, Invariant, PTL DEF Spec

-----------------------------------------------------------------------------
(* The events that pass a quota that is reached.                            *)

(* The clean-up leaves the day alone on which events are counted. *)
TodayIsKept == ReportAndDelete => \A a \in Application : Retention(a) > 0

(* Requests that passed the quota and can still insert an event on day d.   *)
Inserters(a, d) ==
  {c \in Client : /\ request[c].step \in {"warn", "warning", "insert", "inserting"}
                  /\ request[c].application = a
                  /\ IF request[c].step = "inserting" THEN request[c].day = d ELSE today <= d}

(* What the view shows of today is still there when it is refreshed, and    *)
(* what it showed at the limit it keeps showing until midnight.             *)
LateInv ==
  \A a \in Application, d \in Day :
    /\ late[a][d] + Cardinality(Inserters(a, d)) <= Cardinality(Client)
    /\ late[a][d] > 0 => d <= today
    /\ late[a][d] > 0 /\ d = today =>
         a \notin CanExceed /\ events_per_day[a][d] >= EventsPerDayLimit(a)
    /\ d >= today => events_per_day[a][d] <= event[a][d]

LEMMA LateInit == Init => LateInv
<1>. SUFFICES ASSUME Init, NEW a \in Application, NEW d \in Day
              PROVE  /\ late[a][d] = 0 /\ events_per_day[a][d] = 0 /\ event[a][d] = 0
                     /\ Inserters(a, d) = {}
  BY ClientsAreCounted DEF LateInv
<1>1. late[a][d] = 0 /\ events_per_day[a][d] = 0 /\ event[a][d] = 0
  BY DEF Init, NoCounts
<1>2. Inserters(a, d) = {}
  BY DEF Init, Inserters, NoRequest
<1>. QED
  BY <1>1, <1>2

(* Nobody can insert who could not before, unless no event was late yet.    *)
LEMMA LateKept ==
  ASSUME IInv, LateInv, UNCHANGED <<today, late, events_per_day, event>>,
         \A a \in Application, d \in Day :
           Inserters(a, d)' \subseteq Inserters(a, d) \/ late[a][d] = 0
  PROVE  LateInv'
<1>. SUFFICES ASSUME NEW a \in Application, NEW d \in Day
              PROVE  late[a][d] + Cardinality(Inserters(a, d)') <= Cardinality(Client)
  BY DEF LateInv, EventsPerDayLimit
<1>1. late[a][d] \in Nat
  BY CountsAreNumbers DEF IInv, TypeOK
<1>2. Inserters(a, d) \in SUBSET Client /\ Inserters(a, d)' \in SUBSET Client
  BY DEF Inserters
<1>3. late[a][d] + Cardinality(Inserters(a, d)) <= Cardinality(Client)
  BY DEF LateInv
<1>. QED
  BY <1>1, <1>2, <1>3, Room

LEMMA LateReadCount ==
  ASSUME IInv, LateInv, NEW c \in Client, NEW a \in Application, ReadCount(c, a)
  PROVE  LateInv'
<1>. DEFINE current == IF a \in CanExceed THEN 0 ELSE events_per_day[a][today]
<1>1. /\ \A b \in Client \ {c} : request'[b] = request[b]
      /\ request'[c].step = StepAfterRead(a, current)
      /\ request'[c].application = a
      /\ UNCHANGED <<today, late, events_per_day, event>>
  BY DEF ReadCount, counts, IInv, TypeOK
<1>2. request'[c].step \in {"warn", "insert"} => CanIngest(a, current)
  BY <1>1 DEF StepAfterRead
<1>3. request'[c].step \in {"warn", "reach", "insert", "none"}
  BY <1>1 DEF StepAfterRead
<1>4. ASSUME NEW b \in Application, NEW d \in Day, ~(Inserters(b, d)' \subseteq Inserters(b, d))
      PROVE  late[b][d] = 0
  <2>1. PICK x \in Inserters(b, d)' : x \notin Inserters(b, d)
    BY <1>4
  <2>2. x = c
    BY <1>1, <2>1 DEF Inserters
  <2>3. b = a /\ CanIngest(a, current) /\ today <= d
    BY <1>1, <1>2, <1>3, <2>1, <2>2 DEF Inserters
  <2>4. late[b][d] \in Nat /\ today \in Nat /\ events_per_day[a][today] \in Nat
    BY CountsAreNumbers DEF IInv, TypeOK
  <2>5. ~(late[a][d] > 0 /\ d = today)
    <3>. SUFFICES ASSUME late[a][d] > 0, d = today PROVE FALSE
      OBVIOUS
    <3>1. a \notin CanExceed /\ events_per_day[a][today] >= EventsPerDayLimit(a)
      BY DEF LateInv
    <3>. QED
      BY <2>3, <2>4, <3>1, LimitIsANumber DEF CanIngest
  <2>6. late[a][d] > 0 => d <= today
    BY DEF LateInv
  <2>. QED
    BY <2>3, <2>4, <2>5, <2>6
<1>. QED
  BY <1>1, <1>4, LateKept

(* A request that passed may go on; one that was refused may not. *)
LEMMA LateMoves ==
  ASSUME IInv, LateInv, NEW c \in Client, IngestStep(c), ~CommitInsert(c)
  PROVE  LateInv'
<1>1. /\ request[c] \in Request
      /\ UNCHANGED <<today, events_per_day>>
      /\ \A b \in Client \ {c} : request'[b] = request[b]
      /\ \/ request'[c] = NoRequest
         \/ /\ request'[c].day = today
            /\ request'[c].application = request[c].application
  BY IngestMoves
<1>2. late' = late /\ event' = event
  <2>1. CASE LookUpWarning(c) \/ LookUpReached(c)
    BY <2>1 DEF LookUpWarning, LookUpReached, LookUp, counts
  <2>2. CASE NotifyWarning(c) \/ NotifyReached(c)
    BY <2>2 DEF NotifyWarning, NotifyReached, Notify, counts
  <2>3. CASE StartInsert(c) \/ Fail(c)
    BY <2>3 DEF StartInsert, Fail, counts
  <2>. QED
    BY <2>1, <2>2, <2>3 DEF IngestStep
<1>3. request'[c] # NoRequest =>
        \/ request[c].step \in {"warn", "warning", "insert"}
        \/ request'[c].step = "reaching"
  <2>1. CASE LookUpWarning(c) \/ StartInsert(c)
    BY <2>1 DEF LookUpWarning, LookUp, StartInsert
  <2>2. CASE LookUpReached(c)
    <3>1. Continue(c, IF Notified(c, "Reached") THEN "none" ELSE "reaching")
      BY <2>2 DEF LookUpReached, LookUp
    <3>. QED
      BY <1>1, <3>1 DEF Continue, IInv, TypeOK, Request
  <2>3. CASE NotifyWarning(c)
    BY <2>3 DEF NotifyWarning, Notify
  <2>4. CASE NotifyReached(c) \/ Fail(c)
    <3>1. Continue(c, "none")
      BY <2>4 DEF NotifyReached, Notify, Fail
    <3>. QED
      BY <3>1 DEF Continue, IInv, TypeOK
  <2>. QED
    BY <2>1, <2>2, <2>3, <2>4 DEF IngestStep
<1>4. \A a \in Application, d \in Day : Inserters(a, d)' \subseteq Inserters(a, d)
  <2>. SUFFICES ASSUME NEW a \in Application, NEW d \in Day, c \in Inserters(a, d)'
                PROVE  c \in Inserters(a, d)
    BY <1>1 DEF Inserters
  <2>1. /\ request'[c].step \in {"warn", "warning", "insert", "inserting"}
        /\ request'[c].application = a
        /\ IF request'[c].step = "inserting" THEN request'[c].day = d ELSE today <= d
    BY <1>1 DEF Inserters
  <2>2. request'[c] # NoRequest
    BY <2>1 DEF NoRequest
  <2>3. request[c].step \in {"warn", "warning", "insert"} /\ today <= d
    BY <1>1, <1>3, <2>1, <2>2 DEF IInv, TypeOK
  <2>. QED
    BY <1>1, <2>1, <2>2, <2>3 DEF Inserters
<1>. QED
  BY <1>1, <1>2, <1>4, LateKept

(* An event that is counted as late uses up its client's room. *)
LEMMA LateCommit ==
  ASSUME IInv, LateInv, NEW c \in Client, CommitInsert(c)
  PROVE  LateInv'
<1>. DEFINE app == request[c].application
            day == request[c].day
<1>1. /\ request[c] \in Request
      /\ UNCHANGED <<today, events_per_day>>
      /\ \A b \in Client \ {c} : request'[b] = request[b]
  BY IngestMoves DEF IngestStep
<1>2. app \in Application /\ day \in Day /\ day <= today /\ today \in Nat
  <2>1. request[c] # NoRequest
    BY DEF CommitInsert, NoRequest
  <2>2. day <= today
    BY <2>1 DEF IInv, NothingIsEarly
  <2>. QED
    BY <1>1, <2>2 DEF Request, IInv, TypeOK
<1>3. request'[c] = NoRequest
  BY DEF CommitInsert, Continue, IInv, TypeOK
<1>4. c \in Inserters(app, day)
  BY DEF CommitInsert, Inserters
<1>5. late' = IF app \in CanExceed \/ events_per_day[app][day] < EventsPerDayLimit(app)
              THEN late ELSE Bump(late, app, day)
  BY DEF CommitInsert
<1>6. event' = Bump(event, app, day)
  BY DEF CommitInsert
<1>. HIDE DEF app, day
<1>7. ASSUME NEW a \in Application, NEW d \in Day
      PROVE  /\ late[a][d] \in Nat /\ event[a][d] \in Nat /\ events_per_day[a][d] \in Nat
             /\ event'[a][d] \in Nat /\ event'[a][d] >= event[a][d]
             /\ late'[a][d] = late[a][d] \/
                  /\ a = app /\ d = day /\ late'[a][d] = late[a][d] + 1
                  /\ a \notin CanExceed /\ events_per_day[a][d] >= EventsPerDayLimit(a)
  <2>1. event \in Counts /\ late \in Counts /\ events_per_day \in Counts
    BY DEF IInv, TypeOK
  <2>2. late[a][d] \in Nat /\ event[a][d] \in Nat /\ events_per_day[a][d] \in Nat
    BY <2>1, CountsAreNumbers
  <2>3. event'[a][d] = IF a = app /\ d = day THEN event[a][d] + 1 ELSE event[a][d]
    BY <1>2, <1>6, <2>1, BumpAdds
  <2>4. Bump(late, app, day)[a][d] = IF a = app /\ d = day THEN late[a][d] + 1 ELSE late[a][d]
    BY <1>2, <2>1, BumpAdds
  <2>. QED
    BY <1>5, <2>2, <2>3, <2>4, LimitIsANumber
<1>. SUFFICES ASSUME NEW a \in Application, NEW d \in Day
              PROVE  /\ late'[a][d] + Cardinality(Inserters(a, d)') <= Cardinality(Client)
                     /\ late'[a][d] > 0 => d <= today
                     /\ late'[a][d] > 0 /\ d = today =>
                          a \notin CanExceed /\ events_per_day[a][d] >= EventsPerDayLimit(a)
                     /\ d >= today => events_per_day[a][d] <= event'[a][d]
  BY <1>1 DEF LateInv, EventsPerDayLimit
<1>8. Inserters(a, d) \in SUBSET Client /\ Inserters(a, d)' \in SUBSET Client
  BY DEF Inserters
<1>9. Inserters(a, d)' \subseteq Inserters(a, d) \ {c}
  BY <1>1, <1>3 DEF Inserters, NoRequest
<1>10. late[a][d] + Cardinality(Inserters(a, d)) <= Cardinality(Client)
  BY DEF LateInv
<1>11. late'[a][d] + Cardinality(Inserters(a, d)') <= Cardinality(Client)
  <2>1. CASE late'[a][d] = late[a][d]
    BY <1>7, <1>8, <1>9, <1>10, <2>1, Room
  <2>2. CASE a = app /\ d = day /\ late'[a][d] = late[a][d] + 1
    BY <1>4, <1>7, <1>8, <1>9, <1>10, <2>2, Room, SMTT(30)
  <2>. QED
    BY <1>7, <2>1, <2>2
<1>12. d >= today => events_per_day[a][d] <= event'[a][d]
  BY <1>2, <1>7 DEF LateInv
<1>. QED
  BY <1>2, <1>7, <1>11, <1>12 DEF LateInv

(* No task lets a new request in; the view of today only grows. *)
LEMMA LateTasks ==
  ASSUME TodayIsKept, IInv, LateInv, UNCHANGED vars \/ Refresh \/ BackUp \/ DeleteOldEvents \/ Midnight
  PROVE  LateInv'
<1>1. /\ UNCHANGED <<request, late>>
      /\ today' \in {today, today + 1}
  BY DEF vars, counts, Refresh, BackUp, DeleteOldEvents, Midnight
<1>2. \A a \in Application, d \in Day :
        /\ late[a][d] \in Nat /\ event[a][d] \in Nat /\ events_per_day[a][d] \in Nat
        /\ today \in Nat /\ d \in Nat
  BY CountsAreNumbers DEF IInv, TypeOK
<1>3. ASSUME NEW a \in Application, NEW d \in Day
      PROVE  late[a][d] + Cardinality(Inserters(a, d)') <= Cardinality(Client)
  <2>1. Inserters(a, d) \in SUBSET Client /\ Inserters(a, d)' \in SUBSET Client
    BY DEF Inserters
  <2>2. Inserters(a, d)' \subseteq Inserters(a, d)
    BY <1>1, <1>2 DEF Inserters
  <2>3. late[a][d] + Cardinality(Inserters(a, d)) <= Cardinality(Client)
    BY DEF LateInv
  <2>. QED
    BY <1>2, <2>1, <2>2, <2>3, Room
<1>4. ASSUME NEW a \in Application, NEW d \in Day, d >= today
      PROVE  event'[a][d] = event[a][d]
  <2>1. CASE DeleteOldEvents /\ ReportAndDelete
    <3>1. CASE event' = event
      BY <3>1
    <3>2. CASE event' # event
      <4>1. PICK kept \in [Application -> 0 .. MaxEvents] :
              event' = [b \in Application |-> [e \in Day |-> Remaining(b, e, kept[b])]]
        BY <2>1, <3>2 DEF DeleteOldEvents
      <4>2. event'[a][d] = Remaining(a, d, kept[a]) /\ kept[a] \in Nat
        BY <4>1
      <4>3. d + Retention(a) > today
        BY <1>2, <1>4, <2>1, RetentionIsANumber DEF TodayIsKept
      <4>. QED
        BY <4>2, <4>3, RemainingShrinks DEF IInv
    <3>. QED
      BY <3>1, <3>2
  <2>2. CASE ~(DeleteOldEvents /\ ReportAndDelete)
    BY <2>2 DEF vars, counts, Refresh, BackUp, DeleteOldEvents, Midnight
  <2>. QED
    BY <2>1, <2>2
<1>. SUFFICES ASSUME NEW a \in Application, NEW d \in Day
              PROVE  /\ late[a][d] > 0 => d <= today'
                     /\ late[a][d] > 0 /\ d = today' =>
                          a \notin CanExceed /\ events_per_day'[a][d] >= EventsPerDayLimit(a)
                     /\ d >= today' => events_per_day'[a][d] <= event'[a][d]
  BY <1>1, <1>3 DEF LateInv, EventsPerDayLimit
<1>5. CASE Refresh
  <2>1. events_per_day' = event /\ event' = event /\ today' = today
    BY <1>5 DEF Refresh
  <2>. QED
    BY <1>2, <2>1, LimitIsANumber DEF LateInv
<1>6. CASE ~Refresh
  <2>1. events_per_day' = events_per_day
    BY <1>6 DEF vars, counts, BackUp, DeleteOldEvents, Midnight
  <2>. QED
    BY <1>1, <1>2, <1>4, <2>1 DEF LateInv
<1>. QED
  BY <1>5, <1>6

(* However far the view lags behind, once it shows that a quota is reached  *)
(* no request passes that did not pass before, so that on a day no more     *)
(* events follow than the API handles requests at a time.                   *)
THEOREM QuotaClosesBehindRequestsHolds == TodayIsKept => (Spec => []QuotaClosesBehindRequests)
<1>. SUFFICES ASSUME TodayIsKept PROVE Spec => []QuotaClosesBehindRequests
  OBVIOUS
<1>1. IInv /\ LateInv /\ [Next]_vars => LateInv'
  <2>. SUFFICES ASSUME IInv, LateInv, [Next]_vars PROVE LateInv'
    OBVIOUS
  <2>1. ASSUME NEW c \in Client, NEW a \in Application, ReadCount(c, a) PROVE LateInv'
    BY <2>1, LateReadCount
  <2>2. ASSUME NEW c \in Client, IngestStep(c) PROVE LateInv'
    BY <2>2, LateMoves, LateCommit
  <2>3. CASE UNCHANGED vars \/ Refresh \/ BackUp \/ DeleteOldEvents \/ Midnight
    BY <2>3, LateTasks
  <2>. QED
    BY <2>1, <2>2, <2>3 DEF Next
<1>2. IInv /\ LateInv => QuotaClosesBehindRequests
  <2>. SUFFICES ASSUME IInv, LateInv, NEW a \in Application, NEW d \in Day
                PROVE  late[a][d] <= Cardinality(Client)
    BY DEF QuotaClosesBehindRequests
  <2>1. late[a][d] \in Nat
    BY CountsAreNumbers DEF IInv, TypeOK
  <2>2. Inserters(a, d) \in SUBSET Client
    BY DEF Inserters
  <2>. QED
    BY <2>1, <2>2, ClientsAreCounted DEF LateInv
<1>. QED
  BY <1>1, <1>2, LateInit, Invariant, PTL DEF Spec

-----------------------------------------------------------------------------
(* The warning that goes out before an event above the threshold goes in.   *)

WasWarned(notifications, o) == \E d \in Day : notifications[o]["Warning"][d] > 0

LEMMA I32IsExact ==
  ASSUME NEW n \in 0 .. I32Max
  PROVE  I32(n) = n
<1>1. n + I32Max + 1 \in Nat /\ n + I32Max + 1 < 2 * (I32Max + 1)
  OBVIOUS
<1>2. (n + I32Max + 1) % (2 * (I32Max + 1)) = n + I32Max + 1
  BY <1>1
<1>. QED
  BY <1>2 DEF I32

(* A count above the threshold is not sent to the insertion at once. *)
LEMMA AboveThresholdIsNoticed ==
  ASSUME NEW a \in Application, NEW current \in Nat, EmailNotifications,
         100 * current \in (Threshold + 1) * EventsPerDayLimit(a) .. I32Max
  PROVE  StepAfterRead(a, current) # "insert"
<1>. SUFFICES ASSUME EventsPerDayLimit(a) # 0, CanIngest(a, current)
              PROVE  ConsumptionPercent(a, current) > Threshold
  BY DEF StepAfterRead
<1>. DEFINE limit == EventsPerDayLimit(a)
<1>1. limit \in Nat \ {0}
  BY LimitIsANumber
<1>2. I32(100 * current) = 100 * current
  BY I32IsExact
<1>. HIDE DEF limit
<1>3. (100 * current) \div limit >= Threshold + 1
  BY <1>1 DEF limit
<1>4. (100 * current) \div limit \in Int /\ Threshold \in Int
  BY <1>1
<1>. QED
  BY <1>2, <1>3, <1>4 DEF ConsumptionPercent, limit

LEMMA WarnedStep ==
  ASSUME IInv, AboveThresholdIsWarned, [Next]_vars
  PROVE  AboveThresholdIsWarned'
<1>. SUFFICES ASSUME EmailNotifications, NEW c \in Client,
                     request'[c].step \in {"insert", "inserting"},
                     100 * request'[c].current
                       \in (Threshold + 1) * EventsPerDayLimit(request'[c].application) .. I32Max
              PROVE  WasWarned(quota_notifications', OrganizationOf[request'[c].application])
  BY DEF AboveThresholdIsWarned, WasWarned, EventsPerDayLimit
<1>1. IInv'
  BY StepPreserves
<1>2. TypeOK /\ TypeOK'
  BY <1>1 DEF IInv
<1>3. request'[c] \in Request
  BY <1>2 DEF TypeOK, NoRequest
<1>4. request'[c].application \in Application
  BY <1>3 DEF Request
<1>. DEFINE app == request'[c].application
            org == OrganizationOf[app]
<1>5. org \in Organization
  BY <1>4
<1>. HIDE DEF app, org
(* A warning is never taken back. *)
<1>6. ASSUME WasWarned(quota_notifications, org) PROVE WasWarned(quota_notifications', org)
  <2>1. PICK d \in Day : quota_notifications[org]["Warning"][d] > 0
    BY <1>6 DEF WasWarned
  <2>2. CASE UNCHANGED quota_notifications
    BY <2>1, <2>2 DEF WasWarned
  <2>3. ASSUME NEW b \in Client, NEW type \in NotificationType, NEW e \in request[b].day .. today,
               quota_notifications' = [quota_notifications EXCEPT
                 ![OrganizationOf[request[b].application]][type][e] = @ + 1]
        PROVE  quota_notifications'[org]["Warning"][d] > 0
    <3>. DEFINE o == OrganizationOf[request[b].application]
    <3>. HIDE DEF o
    <3>1. quota_notifications \in [Organization -> [NotificationType -> [Day -> Nat]]]
      BY <1>2 DEF TypeOK
    <3>2. "Warning" \in NotificationType
      BY DEF NotificationType
    <3>3. quota_notifications' = [quota_notifications EXCEPT ![o][type][e] = @ + 1]
      BY <2>3 DEF o
    <3>4. CASE ~(o = org /\ type = "Warning" /\ e = d)
      <4>. HIDE DEF NotificationType
      <4>1. CASE o # org
        BY <1>5, <2>1, <3>1, <3>2, <3>3, <4>1
      <4>2. CASE o = org /\ type # "Warning"
        BY <1>5, <2>1, <3>1, <3>2, <3>3, <4>2
      <4>3. CASE o = org /\ type = "Warning" /\ e # d
        BY <1>5, <2>1, <3>1, <3>2, <3>3, <4>3
      <4>. QED
        BY <3>4, <4>1, <4>2, <4>3
    <3>5. CASE o = org /\ type = "Warning" /\ e = d
      <4>. HIDE DEF NotificationType
      <4>1. quota_notifications'[org]["Warning"][d] = quota_notifications[org]["Warning"][d] + 1
        BY <1>5, <3>1, <3>2, <3>3, <3>5
      <4>. QED
        BY <1>5, <2>1, <3>1, <3>2, <4>1
    <3>. QED
      BY <3>4, <3>5
  <2>4. \/ UNCHANGED quota_notifications
        \/ \E b \in Client, type \in NotificationType : \E e \in request[b].day .. today :
             quota_notifications' = [quota_notifications EXCEPT
               ![OrganizationOf[request[b].application]][type][e] = @ + 1]
    <3>1. ASSUME NEW b \in Client, IngestStep(b) PROVE <2>4
      <4>1. CASE NotifyWarning(b)
        BY <4>1 DEF NotifyWarning, Notify, NotificationType
      <4>2. CASE NotifyReached(b)
        BY <4>2 DEF NotifyReached, Notify, NotificationType
      <4>3. CASE LookUpWarning(b) \/ LookUpReached(b) \/ StartInsert(b) \/ CommitInsert(b) \/ Fail(b)
        BY <4>3 DEF LookUpWarning, LookUpReached, LookUp, StartInsert, CommitInsert, Fail
      <4>. QED
        BY <3>1, <4>1, <4>2, <4>3 DEF IngestStep
    <3>2. ASSUME NEW b \in Client, NEW a \in Application, ReadCount(b, a)
          PROVE  UNCHANGED quota_notifications
      BY <3>2 DEF ReadCount
    <3>3. CASE UNCHANGED vars \/ Refresh \/ BackUp \/ DeleteOldEvents \/ Midnight
      BY <3>3 DEF vars, Refresh, BackUp, DeleteOldEvents, Midnight
    <3>. QED
      BY <3>1, <3>2, <3>3 DEF Next
  <2>. QED
    BY <2>1, <2>2, <2>3, <2>4 DEF WasWarned
(* A request that stays about to insert was warned for before. *)
<1>7. ASSUME request'[c].application = request[c].application,
             request'[c].current = request[c].current,
             request[c].step \in {"insert", "inserting"}
      PROVE  WasWarned(quota_notifications', org)
  <2>1. WasWarned(quota_notifications, org)
    BY <1>7 DEF AboveThresholdIsWarned, WasWarned, org, app
  <2>. QED
    BY <1>6, <2>1
<1>8. CASE UNCHANGED vars \/ Refresh \/ BackUp \/ DeleteOldEvents \/ Midnight
  <2>1. request' = request
    BY <1>8 DEF vars, Refresh, BackUp, DeleteOldEvents, Midnight
  <2>. QED
    BY <1>7, <2>1 DEF org, app
<1>9. ASSUME NEW b \in Client, NEW a \in Application, ReadCount(b, a)
      PROVE  WasWarned(quota_notifications', org)
  <2>. DEFINE current == IF a \in CanExceed THEN 0 ELSE events_per_day[a][today]
  <2>1. request' = [request EXCEPT ![b] =
          [step |-> StepAfterRead(a, current), application |-> a, current |-> current, day |-> today]]
    BY <1>9 DEF ReadCount
  <2>2. CASE b # c
    BY <1>2, <1>7, <2>1, <2>2 DEF TypeOK, org, app
  <2>3. CASE b = c
    <3>1. /\ request'[c].step = StepAfterRead(a, current)
          /\ request'[c].application = a /\ request'[c].current = current
      BY <1>2, <2>1, <2>3 DEF TypeOK
    <3>2. StepAfterRead(a, current) = "insert"
      BY <3>1 DEF StepAfterRead
    <3>3. current \in Nat
      BY <1>2, CountsAreNumbers DEF TypeOK
    <3>4. FALSE
      BY <3>1, <3>2, <3>3, AboveThresholdIsNoticed
    <3>. QED
      BY <3>4
  <2>. QED
    BY <2>2, <2>3
<1>10. ASSUME NEW b \in Client, IngestStep(b)
       PROVE  WasWarned(quota_notifications', org)
  <2>1. /\ \A x \in Client \ {b} : request'[x] = request[x]
        /\ request[b] \in Request
        /\ \/ request'[b] = NoRequest
           \/ /\ request'[b].application = request[b].application
              /\ request'[b].current = request[b].current
    BY <1>10, IngestMoves
  <2>2. CASE b # c
    BY <1>7, <2>1, <2>2 DEF org, app
  <2>3. CASE b = c
    <3>1. /\ request'[c].application = request[c].application
          /\ request'[c].current = request[c].current
      BY <2>1, <2>3 DEF NoRequest
    <3>2. CASE request[c].step \in {"insert", "inserting"}
      BY <1>7, <3>1, <3>2
    <3>3. CASE LookUpWarning(c)
      <4>1. Continue(c, IF Notified(c, "Warning") THEN "insert" ELSE "warning")
            /\ UNCHANGED quota_notifications
        BY <3>3 DEF LookUpWarning, LookUp
      <4>2. request'[c].step = IF Notified(c, "Warning") THEN "insert" ELSE "warning"
        BY <1>2, <2>1, <2>3, <4>1 DEF Continue, TypeOK, Request
      <4>3. Notified(c, "Warning")
        BY <4>2
      <4>4. quota_notifications[org]["Warning"][today] > 0 /\ today \in Day
        BY <1>2, <3>1, <4>3 DEF Notified, org, app, TypeOK
      <4>. QED
        BY <4>1, <4>4 DEF WasWarned
    <3>4. CASE NotifyWarning(c)
      <4>1. PICK e \in request[c].day .. today :
              quota_notifications' = [quota_notifications EXCEPT ![org]["Warning"][e] = @ + 1]
        BY <3>1, <3>4 DEF NotifyWarning, Notify, org, app
      <4>2. e \in Day
        BY <1>2, <2>1, <2>3, <4>1 DEF Request, TypeOK
      <4>3. quota_notifications \in [Organization -> [NotificationType -> [Day -> Nat]]]
            /\ "Warning" \in NotificationType
        BY <1>2 DEF TypeOK, NotificationType
      <4>. HIDE DEF NotificationType
      <4>4. quota_notifications'[org]["Warning"][e] = quota_notifications[org]["Warning"][e] + 1
            /\ quota_notifications[org]["Warning"][e] \in Nat
        BY <1>5, <4>1, <4>2, <4>3
      <4>. QED
        BY <4>2, <4>4 DEF WasWarned
    <3>5. CASE LookUpReached(c)
      <4>1. Continue(c, IF Notified(c, "Reached") THEN "none" ELSE "reaching")
        BY <3>5 DEF LookUpReached, LookUp
      <4>. QED
        BY <1>2, <2>1, <2>3, <4>1 DEF Continue, TypeOK, Request, NoRequest
    <3>6. CASE NotifyReached(c) \/ CommitInsert(c) \/ Fail(c)
      <4>1. Continue(c, "none")
        BY <3>6 DEF NotifyReached, Notify, CommitInsert, Fail
      <4>. QED
        BY <1>2, <4>1 DEF Continue, TypeOK, NoRequest
    <3>7. CASE StartInsert(c)
      BY <3>2, <3>7 DEF StartInsert
    <3>. QED
      BY <1>10, <2>3, <3>3, <3>4, <3>5, <3>6, <3>7 DEF IngestStep
  <2>. QED
    BY <2>2, <2>3
<1>. QED
  BY <1>8, <1>9, <1>10 DEF Next, org, app

(* As long as the product stays in its integer, no event that was counted   *)
(* above the threshold goes in without a warning, even if the notification  *)
(* was sent by another request or dated to another day.                     *)
THEOREM AboveThresholdIsWarnedHolds == Spec => []AboveThresholdIsWarned
<1>1. Init => AboveThresholdIsWarned
  BY DEF Init, AboveThresholdIsWarned, NoRequest
<1>. QED
  BY <1>1, WarnedStep, Invariant, PTL DEF Spec
=============================================================================
