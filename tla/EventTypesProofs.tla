--------------------------- MODULE EventTypesProofs ---------------------------
(***************************************************************************)
(* Event types, subscriptions and upserts, for any numbers of them, of     *)
(* requests and of retries, and for all quotas.                            *)
(***************************************************************************)
EXTENDS EventTypes, FiniteSetTheorems, TLAPS

LEMMA RequestsAreTyped ==
  ASSUME TypeOK, NEW r \in InFlight
  PROVE  /\ r \in Request /\ request[r] \in RequestRow /\ request[r] # NoRow
         /\ request[r].about \in Declared /\ request[r].by \in Instance \cup {NoRow}
         /\ request[r].op \in {"create", "delete"}
         /\ request[r].by # NoRow => request[r].about \in EventType
BY DEF TypeOK, InFlight, RequestRow

LEMMA UpsertsAreTyped ==
  ASSUME TypeOK, NEW i \in Instance
  PROVE  /\ upsert[i] \in Upsert
         /\ upsert[i].pc \in {"listing", "creating", "waiting", "done", "gave_up"}
         /\ upsert[i].missing \in SUBSET EventType /\ upsert[i].retries \in 0 .. Retries
         /\ seen[i] \in SUBSET EventType
BY DEF TypeOK, Upsert

LEMMA TypeInit == Init => TypeOK
<1>. SUFFICES ASSUME Init PROVE TypeOK
  OBVIOUS
<1>1. Begun \in Upsert
  BY EventTypesAssumption DEF Begun, Upsert
<1>2. upsert \in [Instance -> Upsert]
  BY <1>1 DEF Init
<1>. QED
  BY <1>2 DEF Init, TypeOK

LEMMA AbandonedIsTyped ==
  ASSUME TypeOK, NEW i \in Instance
  PROVE  Abandoned(i) \in [Request -> RequestRow \cup {NoRow}]
<1>1. ASSUME NEW r \in Outstanding(i) PROVE [request[r] EXCEPT !.by = NoRow] \in RequestRow
  BY RequestsAreTyped DEF Outstanding, RequestRow
<1>. QED
  BY <1>1 DEF Abandoned, TypeOK

(* The steps of the API. *)
LEMMA TypeApi == ASSUME TypeOK, ApiStep PROVE TypeOK'
<1>1. ASSUME NEW r \in Request, NEW x \in Declared, Create(r, x) \/ Delete(r, x)
      PROVE  TypeOK'
  <2>1. \A op \in {"create", "delete"} : [op |-> op, about |-> x, by |-> NoRow] \in RequestRow
    BY DEF RequestRow
  <2>. QED
    BY <1>1, <2>1 DEF Create, Delete, Put, TypeOK
<1>2. ASSUME NEW r \in Request, CommitCreate(r) PROVE TypeOK'
  <2>1. r \in InFlight /\ row' = [row EXCEPT ![request[r].about] = "active"]
        /\ request' = [request EXCEPT ![r] = NoRow]
    BY <1>2 DEF CommitCreate, Put
  <2>2. row' \in [Declared -> {"absent", "active", "deactivated"}]
    BY <2>1 DEF TypeOK
  <2>3. request' \in [Request -> RequestRow \cup {NoRow}]
    BY <2>1 DEF TypeOK
  <2>4. upsert' \in [Instance -> Upsert] /\ seen' \in [Instance -> SUBSET EventType]
    <3>1. CASE UNCHANGED <<upsert, seen>>
      BY <3>1 DEF TypeOK
    <3>2. ASSUME NEW i \in Instance, i = request[r].by, request[r].about \in EventType,
                 upsert' = [upsert EXCEPT ![i].missing = @ \ {request[r].about}],
                 seen' = [seen EXCEPT ![i] = @ \cup {request[r].about}]
          PROVE  upsert' \in [Instance -> Upsert] /\ seen' \in [Instance -> SUBSET EventType]
      BY <3>2, UpsertsAreTyped DEF TypeOK, Upsert
    <3>. QED
      BY <1>2, <2>1, <3>1, <3>2, RequestsAreTyped DEF CommitCreate
  <2>. QED
    BY <2>2, <2>3, <2>4 DEF TypeOK
<1>3. ASSUME NEW r \in Request, CommitDelete(r) \/ Fail(r) PROVE TypeOK'
  BY <1>3 DEF CommitDelete, Fail, Put, TypeOK
<1>. QED
  BY <1>1, <1>2, <1>3 DEF ApiStep

(* The steps of the upsert tasks. *)
LEMMA TypeUpsert ==
  ASSUME TypeOK, NEW i \in Instance, UpsertStep(i) \/ Restart(i)
  PROVE  TypeOK'
<1>1. CASE List(i)
  <2>1. Required \ Listed \in SUBSET EventType
        /\ Required \cap Active("event_type") \in SUBSET EventType
    BY EventTypesAssumption
  <2>. QED
    BY <1>1, <2>1, UpsertsAreTyped, ZenonT(30) DEF List, TypeOK, Upsert
<1>2. CASE Finish(i)
  BY <1>2, UpsertsAreTyped DEF Finish, TypeOK, Upsert
<1>3. CASE FailForNow(i)
  <2>1. upsert[i].retries > 0 => upsert[i].retries - 1 \in 0 .. Retries
    BY UpsertsAreTyped, EventTypesAssumption
  <2>2. upsert' \in [Instance -> Upsert]
    BY <1>3, <2>1, UpsertsAreTyped DEF FailForNow, TypeOK, Upsert
  <2>. QED
    BY <1>3, <2>2, AbandonedIsTyped DEF FailForNow, TypeOK
<1>4. CASE FailForGood(i)
  BY <1>4, UpsertsAreTyped, AbandonedIsTyped DEF FailForGood, TypeOK, Upsert
<1>5. CASE Refuse(i)
  BY <1>5, UpsertsAreTyped DEF Refuse, TypeOK, Upsert
<1>6. CASE Retry(i)
  BY <1>6, UpsertsAreTyped DEF Retry, TypeOK, Upsert
<1>7. ASSUME NEW r \in Request, NEW x \in EventType, Post(i, r, x) PROVE TypeOK'
  <2>1. [op |-> "create", about |-> x, by |-> i] \in RequestRow
    BY DEF RequestRow, Declared
  <2>. QED
    BY <1>7, <2>1 DEF Post, Put, TypeOK
<1>8. ASSUME NEW r \in Outstanding(i), CommitCreate(r) PROVE TypeOK'
  <2>1. r \in Request
    BY DEF Outstanding, InFlight
  <2>. QED
    BY <1>8, <2>1, TypeApi DEF ApiStep
<1>9. CASE Restart(i)
  <2>1. Begun \in Upsert
    BY EventTypesAssumption DEF Begun, Upsert
  <2>. QED
    BY <1>9, <2>1, AbandonedIsTyped DEF Restart, TypeOK
<1>. QED
  BY <1>1, <1>2, <1>3, <1>4, <1>5, <1>6, <1>7, <1>8, <1>9 DEF UpsertStep

LEMMA TypeStep == TypeOK /\ [Next]_vars => TypeOK'
<1>1. ASSUME TypeOK, UNCHANGED vars PROVE TypeOK'
  BY <1>1 DEF vars, TypeOK
<1>. QED
  BY <1>1, TypeApi, TypeUpsert DEF Next

(* Rows, requests and tasks have their types in every state. *)
THEOREM TypeCorrect == Spec => []TypeOK
BY TypeInit, TypeStep, PTL DEF Spec

-----------------------------------------------------------------------------
(* What is not missing any more was seen active since the last list. *)
Accounted ==
  \A i \in Instance :
    /\ upsert[i].pc \in {"creating", "done"} => Required \ upsert[i].missing \subseteq seen[i]
    /\ upsert[i].pc = "done" => upsert[i].missing = {}

LEMMA AccountedCommit ==
  ASSUME TypeOK, Accounted, NEW r \in Request, CommitCreate(r)
  PROVE  Accounted'
<1>1. CASE UNCHANGED <<upsert, seen>>
  BY <1>1 DEF Accounted
<1>2. ASSUME NEW i \in Instance, NEW x,
             upsert' = [upsert EXCEPT ![i].missing = @ \ {x}],
             seen' = [seen EXCEPT ![i] = @ \cup {x}]
      PROVE  Accounted'
  <2>1. ASSUME NEW j \in Instance, j # i PROVE upsert'[j] = upsert[j] /\ seen'[j] = seen[j]
    BY <1>2, <2>1 DEF TypeOK
  <2>2. /\ upsert'[i].pc = upsert[i].pc /\ upsert'[i].missing = upsert[i].missing \ {x}
        /\ seen'[i] = seen[i] \cup {x}
    BY <1>2, UpsertsAreTyped DEF TypeOK, Upsert
  <2>. QED
    BY <2>1, <2>2 DEF Accounted
<1>. QED
  BY <1>1, <1>2, RequestsAreTyped DEF CommitCreate

LEMMA AccountedStep == TypeOK /\ Accounted /\ [Next]_vars => Accounted'
<1>. SUFFICES ASSUME TypeOK, Accounted, [Next]_vars PROVE Accounted'
  OBVIOUS
<1>1. CASE UNCHANGED <<upsert, seen>>
  BY <1>1 DEF Accounted
<1>2. ASSUME NEW r \in Request, CommitCreate(r) PROVE Accounted'
  BY <1>2, AccountedCommit
<1>3. ASSUME NEW i \in Instance, List(i) PROVE Accounted'
  <2>1. ASSUME NEW j \in Instance, j # i PROVE upsert'[j] = upsert[j] /\ seen'[j] = seen[j]
    BY <1>3, <2>1 DEF List, TypeOK
  <2>2. /\ upsert'[i].pc = "creating" /\ upsert'[i].missing = Required \ Listed
        /\ seen'[i] = Required \cap Listed
    BY <1>3, UpsertsAreTyped DEF List, TypeOK, Upsert, Listed
  <2>. QED
    BY <2>1, <2>2 DEF Accounted
<1>4. ASSUME NEW i \in Instance, Finish(i) PROVE Accounted'
  <2>1. ASSUME NEW j \in Instance, j # i PROVE upsert'[j] = upsert[j] /\ seen'[j] = seen[j]
    BY <1>4, <2>1 DEF Finish, TypeOK
  <2>2. /\ upsert[i].pc = "creating" /\ upsert[i].missing = {}
        /\ upsert'[i].pc = "done" /\ upsert'[i].missing = {} /\ seen'[i] = seen[i]
    BY <1>4, UpsertsAreTyped DEF Finish, TypeOK, Upsert
  <2>. QED
    BY <2>1, <2>2 DEF Accounted
<1>5. ASSUME NEW i \in Instance,
             FailForNow(i) \/ FailForGood(i) \/ Refuse(i) \/ Retry(i) \/ Restart(i)
      PROVE  Accounted'
  <2>1. ASSUME NEW j \in Instance, j # i PROVE upsert'[j] = upsert[j] /\ seen'[j] = seen[j]
    BY <1>5, <2>1 DEF FailForNow, FailForGood, Refuse, Retry, Restart, TypeOK
  <2>2. upsert'[i].pc \in {"waiting", "gave_up", "listing"}
    <3>1. CASE FailForNow(i)
      BY <3>1, UpsertsAreTyped DEF FailForNow, TypeOK, Upsert
    <3>2. CASE FailForGood(i) \/ Refuse(i) \/ Retry(i) \/ Restart(i)
      BY <3>2, UpsertsAreTyped DEF FailForGood, Refuse, Retry, Restart, TypeOK, Upsert, Begun
    <3>. QED
      BY <1>5, <3>1, <3>2
  <2>. QED
    BY <2>1, <2>2 DEF Accounted
<1>. QED
  BY <1>1, <1>2, <1>3, <1>4, <1>5
  DEF Next, ApiStep, UpsertStep, Create, Delete, CommitDelete, Fail, Post, Outstanding,
      InFlight, vars

(* An upsert only reports success once every required event type has been   *)
(* active since its last list, for any number of instances and retries.     *)
THEOREM UpsertsAreCompleteHolds == Spec => []UpsertsAreComplete
<1>1. Init => Accounted
  BY DEF Init, Accounted, Begun
<1>2. Accounted => UpsertsAreComplete
  BY DEF Accounted, UpsertsAreComplete
<1>. QED
  BY <1>1, <1>2, AccountedStep, TypeInit, TypeStep, PTL DEF Spec

-----------------------------------------------------------------------------
LEMMA LimitIsANumber == ASSUME NEW kind \in Kind PROVE Limit(kind) \in Nat
BY EventTypesAssumption, QuotasAssumption
DEF Limit, get_limit_for_application, Coalesce, QuotaValue, NoLimit

LEMMA ActiveIsFinite ==
  ASSUME NEW kind \in Kind
  PROVE  IsFiniteSet(Active(kind)) /\ Cardinality(Active(kind)) \in Nat
<1>1. IsFiniteSet(Declared)
  BY EventTypesAssumption, FS_Union DEF Declared
<1>. QED
  BY <1>1, FS_Subset, FS_CardinalityType DEF Active

LEMMA RequestsAreCounted == IsFiniteSet(Request) /\ Cardinality(Request) \in Nat
BY EventTypesAssumption, FS_CardinalityType

(* Of a quota of limit: what is active, and what creates more of it, fits   *)
(* together with the requests that can be under way.                        *)
Fits(active, creating, limit) ==
  active # {} \/ creating # {} =>
    /\ limit > 0
    /\ Cardinality(active) + Cardinality(creating) < limit + Cardinality(Request)

LEMMA FitsWhenCounted ==
  ASSUME NEW active, IsFiniteSet(active), NEW creating \in SUBSET Request,
         NEW limit \in Nat, Cardinality(active) < limit
  PROVE  Fits(active, creating, limit)
<1>1. Cardinality(creating) <= Cardinality(Request) /\ IsFiniteSet(creating)
  BY RequestsAreCounted, FS_Subset
<1>2. Cardinality(active) \in Nat /\ Cardinality(creating) \in Nat
  BY <1>1, FS_CardinalityType
<1>. QED
  BY <1>1, <1>2, RequestsAreCounted DEF Fits

LEMMA FitsWhenCreated ==
  ASSUME NEW active, IsFiniteSet(active), NEW creating \in SUBSET Request,
         NEW limit \in Nat, Fits(active, creating, limit), NEW r \in creating, NEW x
  PROVE  Fits(active \cup {x}, creating \ {r}, limit)
<1>1. IsFiniteSet(creating)
  BY RequestsAreCounted, FS_Subset
<1>2. Cardinality(creating \ {r}) = Cardinality(creating) - 1
  BY <1>1, FS_RemoveElement
<1>3. /\ Cardinality(active \cup {x}) <= Cardinality(active) + 1
      /\ Cardinality(active \cup {x}) \in Nat
  <2>1. IsFiniteSet(active \cup {x}) /\ Cardinality(active) \in Nat
    BY FS_AddElement, FS_CardinalityType
  <2>2. Cardinality(active \cup {x}) = IF x \in active THEN Cardinality(active)
                                       ELSE Cardinality(active) + 1
    BY FS_AddElement, Zenon
  <2>. QED
    BY <2>1, <2>2, FS_CardinalityType
<1>4. Cardinality(active) \in Nat /\ Cardinality(creating) \in Nat
  BY <1>1, FS_CardinalityType
<1>. QED
  BY <1>2, <1>3, <1>4, RequestsAreCounted DEF Fits

LEMMA FitsWhenFewer ==
  ASSUME NEW active, IsFiniteSet(active), NEW creating \in SUBSET Request,
         NEW limit \in Nat, Fits(active, creating, limit),
         NEW fewer \in SUBSET active, NEW left \in SUBSET creating
  PROVE  Fits(fewer, left, limit)
<1>1. IsFiniteSet(creating) /\ IsFiniteSet(fewer) /\ IsFiniteSet(left)
  BY RequestsAreCounted, FS_Subset
<1>2. Cardinality(fewer) <= Cardinality(active) /\ Cardinality(left) <= Cardinality(creating)
  BY <1>1, FS_Subset
<1>3. /\ Cardinality(active) \in Nat /\ Cardinality(creating) \in Nat
      /\ Cardinality(fewer) \in Nat /\ Cardinality(left) \in Nat
  BY <1>1, FS_CardinalityType
<1>. QED
  BY <1>2, <1>3, RequestsAreCounted DEF Fits

Creating(kind) ==
  {r \in Request : /\ request[r] # NoRow /\ request[r].op = "create"
                   /\ KindOf(request[r].about) = kind}

QuotaInv == \A kind \in Kind : Fits(Active(kind), Creating(kind), Limit(kind))

LEMMA QuotaCounted ==
  ASSUME TypeOK, QuotaInv, NEW r \in Request, NEW x \in Declared, NEW by \in Instance \cup {NoRow},
         by # NoRow => x \in EventType,
         request[r] = NoRow, BelowLimit(KindOf(x)), UNCHANGED row,
         Put(r, [op |-> "create", about |-> x, by |-> by])
  PROVE  QuotaInv'
<1>. DEFINE q == [op |-> "create", about |-> x, by |-> by]
<1>1. q \in RequestRow
  BY DEF RequestRow
<1>2. q # NoRow /\ q.op = "create" /\ q.about = x
  BY <1>1, EventTypesAssumption
<1>3. request' = [request EXCEPT ![r] = q]
  BY DEF Put
<1>. SUFFICES ASSUME NEW kind \in Kind
             PROVE  Fits(Active(kind)', Creating(kind)', Limit(kind))
  BY DEF QuotaInv, Limit
<1>4. Active(kind)' = Active(kind)
  BY DEF Active
<1>5. CASE kind = KindOf(x)
  <2>1. Cardinality(Active(kind)') < Limit(kind)
    BY <1>4, <1>5 DEF BelowLimit
  <2>. QED
    BY <1>4, <2>1, FitsWhenCounted, ActiveIsFinite, LimitIsANumber DEF Creating
<1>6. CASE kind # KindOf(x)
  <2>. HIDE DEF q
  <2>1. Creating(kind)' = Creating(kind)
    BY <1>2, <1>3, <1>6 DEF Creating, TypeOK
  <2>. QED
    BY <1>4, <2>1 DEF QuotaInv
<1>. QED
  BY <1>5, <1>6

LEMMA QuotaCreated ==
  ASSUME TypeOK, QuotaInv, NEW r \in Request, CommitCreate(r)
  PROVE  QuotaInv'
<1>. DEFINE x == request[r].about
<1>1. /\ r \in InFlight /\ request[r].op = "create" /\ request[r] # NoRow
      /\ row' = [row EXCEPT ![x] = "active"] /\ request' = [request EXCEPT ![r] = NoRow]
  BY DEF CommitCreate, Put, InFlight
<1>2. x \in Declared
  BY <1>1, RequestsAreTyped
<1>. SUFFICES ASSUME NEW kind \in Kind
             PROVE  Fits(Active(kind)', Creating(kind)', Limit(kind))
  BY DEF QuotaInv, Limit
<1>3. Fits(Active(kind), Creating(kind), Limit(kind))
  BY DEF QuotaInv
<1>4. CASE kind = KindOf(x)
  <2>1. Active(kind)' = Active(kind) \cup {x}
    BY <1>1, <1>2, <1>4 DEF Active, TypeOK
  <2>2. Creating(kind)' = Creating(kind) \ {r}
    BY <1>1 DEF Creating, TypeOK
  <2>3. r \in Creating(kind) /\ Creating(kind) \in SUBSET Request
    BY <1>1, <1>4 DEF Creating
  <2>4. IsFiniteSet(Active(kind)) /\ Limit(kind) \in Nat
    BY ActiveIsFinite, LimitIsANumber
  <2>5. Fits(Active(kind) \cup {x}, Creating(kind) \ {r}, Limit(kind))
    BY <1>3, <2>3, <2>4, FitsWhenCreated
  <2>. QED
    BY <2>1, <2>2, <2>5
<1>5. CASE kind # KindOf(x)
  <2>1. Active(kind)' = Active(kind)
    BY <1>1, <1>2, <1>5 DEF Active, TypeOK
  <2>2. Creating(kind)' = Creating(kind)
    BY <1>1, <1>5 DEF Creating, TypeOK
  <2>. QED
    BY <1>3, <2>1, <2>2
<1>. QED
  BY <1>4, <1>5

LEMMA QuotaFewer ==
  ASSUME TypeOK, QuotaInv,
         \A kind \in Kind : /\ Active(kind)' \subseteq Active(kind)
                            /\ Creating(kind)' \subseteq Creating(kind)
  PROVE  QuotaInv'
<1>. SUFFICES ASSUME NEW kind \in Kind
             PROVE  Fits(Active(kind)', Creating(kind)', Limit(kind))
  BY DEF QuotaInv, Limit
<1>1. Creating(kind) \in SUBSET Request
  BY DEF Creating
<1>. QED
  BY <1>1, FitsWhenFewer, ActiveIsFinite, LimitIsANumber DEF QuotaInv

LEMMA AbandonedCreatesTheSame ==
  ASSUME TypeOK, NEW i \in Instance, request' = Abandoned(i), UNCHANGED row,
         NEW kind \in Kind
  PROVE  Active(kind)' = Active(kind) /\ Creating(kind)' = Creating(kind)
<1>1. ASSUME NEW r \in Request
      PROVE  (request'[r] = NoRow <=> request[r] = NoRow) /\
             (request[r] # NoRow =>
                request'[r].op = request[r].op /\ request'[r].about = request[r].about)
  <2>1. CASE r \in Outstanding(i)
    <3>1. request'[r] = [request[r] EXCEPT !.by = NoRow]
      BY <2>1 DEF Abandoned
    <3>2. request[r] \in RequestRow /\ request[r] # NoRow
      BY <2>1, RequestsAreTyped DEF Outstanding
    <3>3. [request[r] EXCEPT !.by = NoRow] \in RequestRow
      BY <3>2 DEF RequestRow
    <3>. QED
      BY <3>1, <3>2, <3>3, EventTypesAssumption DEF RequestRow
  <2>2. CASE r \notin Outstanding(i)
    BY <2>2 DEF Abandoned
  <2>. QED
    BY <2>1, <2>2
<1>. QED
  BY <1>1 DEF Active, Creating

LEMMA QuotaStep == TypeOK /\ QuotaInv /\ [Next]_vars => QuotaInv'
<1>. SUFFICES ASSUME TypeOK, QuotaInv, [Next]_vars PROVE QuotaInv'
  OBVIOUS
<1>1. ASSUME UNCHANGED <<row, request>> PROVE QuotaInv'
  BY <1>1, QuotaFewer DEF Active, Creating
<1>2. ASSUME NEW r \in Request, NEW x \in Declared, Create(r, x) PROVE QuotaInv'
  BY <1>2, QuotaCounted DEF Create
<1>3. ASSUME NEW i \in Instance, NEW r \in Request, NEW x \in EventType, Post(i, r, x)
      PROVE  QuotaInv'
  <2>1. x \in Declared /\ KindOf(x) = "event_type"
    BY DEF Declared, KindOf
  <2>. QED
    BY <1>3, <2>1, QuotaCounted DEF Post
<1>4. ASSUME NEW r \in Request, CommitCreate(r) PROVE QuotaInv'
  BY <1>4, QuotaCreated
<1>5. ASSUME NEW r \in Request, NEW x \in Declared, Delete(r, x) PROVE QuotaInv'
  <2>1. \A by \in {NoRow} : [op |-> "delete", about |-> x, by |-> by].op # "create"
    OBVIOUS
  <2>2. /\ UNCHANGED row
        /\ request' = [request EXCEPT ![r] = [op |-> "delete", about |-> x, by |-> NoRow]]
    BY <1>5 DEF Delete, Put
  <2>. QED
    BY <2>1, <2>2, QuotaFewer DEF Active, Creating, TypeOK
<1>6. ASSUME NEW r \in Request, CommitDelete(r) PROVE QuotaInv'
  BY <1>6, QuotaFewer DEF CommitDelete, Put, Active, Creating, TypeOK
<1>7. ASSUME NEW r \in Request, Fail(r) PROVE QuotaInv'
  BY <1>7, QuotaFewer DEF Fail, Put, Active, Creating, TypeOK
<1>8. ASSUME NEW i \in Instance, FailForNow(i) \/ FailForGood(i) \/ Restart(i) PROVE QuotaInv'
  <2>1. request' = Abandoned(i) /\ UNCHANGED row
    BY <1>8 DEF FailForNow, FailForGood, Restart
  <2>. QED
    BY <2>1, AbandonedCreatesTheSame, QuotaFewer
<1>9. ASSUME NEW i \in Instance, List(i) \/ Finish(i) \/ Refuse(i) \/ Retry(i) PROVE QuotaInv'
  BY <1>1, <1>9 DEF List, Finish, Refuse, Retry
<1>. QED
  BY <1>1, <1>2, <1>3, <1>4, <1>5, <1>6, <1>7, <1>8, <1>9
  DEF Next, ApiStep, UpsertStep, Outstanding, InFlight, vars

(* A quota on event types or on subscriptions is passed by fewer than the   *)
(* requests that can be under way, and a quota of zero is never passed.     *)
THEOREM DeclaredNearQuotaHolds == Spec => []DeclaredNearQuota
<1>1. Init => QuotaInv
  <2>. SUFFICES ASSUME Init, NEW kind \in Kind
               PROVE  Fits(Active(kind), Creating(kind), Limit(kind))
    BY DEF QuotaInv
  <2>1. Active(kind) = {} /\ Creating(kind) = {}
    BY DEF Init, Active, Creating
  <2>. QED
    BY <2>1 DEF Fits
<1>2. TypeOK /\ QuotaInv => DeclaredNearQuota
  <2>. SUFFICES ASSUME QuotaInv, NEW kind \in Kind, Cardinality(Active(kind)) > 0
               PROVE  /\ Limit(kind) > 0
                      /\ Cardinality(Active(kind)) < Limit(kind) + Cardinality(Request)
    BY DEF DeclaredNearQuota
  <2>1. Active(kind) # {}
    BY FS_EmptySet
  <2>2. IsFiniteSet(Creating(kind))
    BY RequestsAreCounted, FS_Subset DEF Creating
  <2>3. Cardinality(Creating(kind)) \in Nat
    BY <2>2, FS_CardinalityType
  <2>4. Fits(Active(kind), Creating(kind), Limit(kind))
    BY DEF QuotaInv
  <2>. QED
    BY <2>1, <2>3, <2>4, ActiveIsFinite, LimitIsANumber, RequestsAreCounted DEF Fits
<1>. QED
  BY <1>1, <1>2, QuotaStep, TypeInit, TypeStep, PTL DEF Spec
=============================================================================
