-------------------------- MODULE OrganizationsProofs --------------------------
(***************************************************************************)
(* Proofs about organizations: nothing refers to a row that is gone, the   *)
(* clean-up of unverified users harms nobody, and an organization has at   *)
(* most as many applications too many as requests were under way.          *)
(***************************************************************************)
EXTENDS Organizations, FiniteSetTheorems, TLAPS

(* What is in an organization goes with its users, or was missed.           *)
OnlyMissed(o) ==
  /\ \A u \in MembersOf(o) : u \in doomed \/ <<u, o>> \in missed
  /\ RowsOf(o) \subseteq missed

(* Only the open transaction of the clean-up has rows to delete, and nobody *)
(* has begun to use any of them since it found them, but for what its       *)
(* DELETE missed.                                                           *)
DoomedAreUnused ==
  /\ cleaning = "idle" => doomed = {}
  /\ cleaning # "deleting" => chosen = {}
  /\ \A u \in User : u \in doomed => user[u] = "unverified"
  /\ \A o \in Organization : o \in doomed => organization[o] = "present"
  /\ \A o \in Organization : o \in chosen => organization[o] # "absent"
  /\ \A o \in Organization : o \in doomed \cup chosen => OnlyMissed(o)

IInv ==
  /\ TypeOK
  /\ NoOrphans
  /\ DoomedAreUnused

(* Requests that have counted the applications of an organization and are  *)
(* about to add one.                                                        *)
Creating(o) == {r \in requests : r.op = "create" /\ r.organization = o}

FewInFlight == IsFiniteSet(requests) /\ Cardinality(requests) <= MaxInFlight

(* What was created and what is about to be, together.                      *)
QuotaIsHeld(o) ==
  ActiveOf(o) \cup Creating(o) # {} =>
    /\ Limit(o) > 0
    /\ Cardinality(ActiveOf(o)) + Cardinality(Creating(o)) < Limit(o) + MaxInFlight

QuotaInv ==
  /\ TypeOK
  /\ FewInFlight
  /\ \A o \in Organization : QuotaIsHeld(o)

-----------------------------------------------------------------------------
(* What is left of a request: its target is of the kind its op says.        *)
LEMMA RequestsAreTyped ==
  ASSUME NEW r \in Request
  PROVE  /\ r.organization \in Organization
         /\ r.op \in {"invite", "create", "delete"}
         /\ r.op = "invite" => r.about \in User
         /\ r.op = "create" => r.about \in Application /\ r.organization = OwnerOf[r.about]
  BY OrganizationsAssumption DEF Request

(* TypeOK is inductive on its own.                                          *)
LEMMA TypeStep ==
  ASSUME TypeOK, [Next]_vars
  PROVE  TypeOK'
  <1>1. ASSUME NEW u \in User, NEW o \in Organization,
               Register(u, o) \/ CreateOrganization(u, o) \/ Revoke(u, o)
        PROVE  TypeOK'
    BY <1>1 DEF TypeOK, Register, CreateOrganization, Revoke, Row, cleanup
  <1>2. ASSUME NEW u \in User, VerifyEmail(u)
        PROVE  TypeOK'
    BY <1>2 DEF TypeOK, VerifyEmail, cleanup
  <1>3. ASSUME NEW r \in Request, Query(r)
        PROVE  TypeOK'
    BY <1>3 DEF TypeOK, Query, tables, cleanup
  <1>4. ASSUME NEW r \in requests,
               InsertApplication(r) \/ InsertMember(r) \/ DeleteOrganization(r) \/ Fail(r)
        PROVE  TypeOK'
    <2>. r \in Request
      BY DEF TypeOK
    <2>1. CASE InsertApplication(r)
      BY <2>1, RequestsAreTyped DEF TypeOK, InsertApplication, Finish, Row, Unseen
    <2>2. CASE InsertMember(r)
      BY <2>2, RequestsAreTyped DEF TypeOK, InsertMember, Finish, Unseen
    <2>3. CASE DeleteOrganization(r)
      BY <2>3, RequestsAreTyped
      DEF TypeOK, DeleteOrganization, Finish, Row, MembershipsWithout, ApplicationsWithout,
          cleanup
    <2>4. CASE Fail(r)
      BY <2>4 DEF TypeOK, Fail, Finish, tables, cleanup
    <2>. QED
      BY <1>4, <2>1, <2>2, <2>3, <2>4
  <1>5. ASSUME NEW a \in Application, DeleteApplication(a)
        PROVE  TypeOK'
    BY <1>5 DEF TypeOK, DeleteApplication, Row, cleanup
  <1>6. CASE GracePeriodPasses
    BY <1>6 DEF TypeOK, GracePeriodPasses, Waiting, tables, cleanup
  <1>7. CASE PurgeApplications
    BY <1>7 DEF TypeOK, PurgeApplications, Row, cleanup
  <1>8. CASE \/ DeleteUnverifiedUsers \/ FindUnreachableOrganizations
             \/ DeleteUnreachableOrganizations \/ RollBackCleanUp
    BY <1>8 DEF TypeOK, DeleteUnverifiedUsers, FindUnreachableOrganizations,
                DeleteUnreachableOrganizations, RollBackCleanUp, tables
  <1>9. CASE CommitCleanUp
    BY <1>9 DEF TypeOK, CommitCleanUp, Row, MembershipsWithout, ApplicationsWithout
  <1>10. CASE UNCHANGED vars
    BY <1>10 DEF TypeOK, vars, tables, cleanup
  <1>. QED
    BY <1>1, <1>2, <1>3, <1>4, <1>5, <1>6, <1>7, <1>8, <1>9, <1>10 DEF Next, HandlerStep, CleanUpStep

LEMMA TypeInit == Init => TypeOK
  BY DEF Init, TypeOK, Row

(* The state of every reachable state of the tables is well-typed.          *)
THEOREM TypeCorrect == Spec => []TypeOK
  BY TypeInit, TypeStep, PTL DEF Spec

-----------------------------------------------------------------------------
(* Steps that only add requests or age rows leave the tables alone.         *)
LEMMA TablesUnchanged ==
  ASSUME IInv, UNCHANGED <<tables, cleanup>>
  PROVE  NoOrphans' /\ DoomedAreUnused'
  BY DEF IInv, NoOrphans, DoomedAreUnused, OnlyMissed, tables, cleanup, MembersOf, RowsOf

(* What leaves an organization cannot have been missed.                     *)
LEMMA FewerAreOnlyMissed ==
  ASSUME NEW o \in Organization, OnlyMissed(o), UNCHANGED <<doomed, missed>>,
         MembersOf(o)' \subseteq MembersOf(o), RowsOf(o)' \subseteq RowsOf(o)
  PROVE  OnlyMissed(o)'
  BY DEF OnlyMissed

(* Where a user or an organization changes, it is none that is doomed; and  *)
(* memberships and applications only appear where nothing is.               *)
LEMMA InvariantStep ==
  ASSUME IInv, [Next]_vars
  PROVE  NoOrphans' /\ DoomedAreUnused'
  <1>. USE OrganizationsAssumption
  <1>1. ASSUME NEW u \in User, NEW o \in Organization,
               Register(u, o) \/ CreateOrganization(u, o)
        PROVE  NoOrphans' /\ DoomedAreUnused'
    <2>1. organization[o] = "absent" /\ o \notin doomed /\ o \notin chosen
      BY <1>1 DEF IInv, DoomedAreUnused, Register, CreateOrganization
    <2>2. \A v \in User : v \in doomed => user'[v] = "unverified"
      BY <1>1 DEF IInv, TypeOK, DoomedAreUnused, Register, CreateOrganization
    <2>3. NoOrphans'
      BY <1>1 DEF IInv, TypeOK, NoOrphans, Register, CreateOrganization
    <2>4. \A p \in Organization \ {o} :
            /\ organization'[p] = organization[p]
            /\ MembersOf(p)' = MembersOf(p)
            /\ RowsOf(p)' = RowsOf(p)
      BY <1>1 DEF IInv, TypeOK, Register, CreateOrganization, MembersOf, RowsOf
    <2>5. UNCHANGED <<cleaning, chosen, doomed, missed>>
      BY <1>1 DEF Register, CreateOrganization, cleanup
    <2>6. \A p \in Organization : p \in doomed \cup chosen => OnlyMissed(p)'
      BY <2>1, <2>4, <2>5, FewerAreOnlyMissed DEF IInv, DoomedAreUnused
    <2>. QED
      BY <2>1, <2>2, <2>3, <2>4, <2>5, <2>6 DEF IInv, DoomedAreUnused
  <1>2. ASSUME NEW u \in User, VerifyEmail(u)
        PROVE  NoOrphans' /\ DoomedAreUnused'
    <2>1. NoOrphans'
      BY <1>2 DEF IInv, TypeOK, NoOrphans, VerifyEmail
    <2>2. DoomedAreUnused'
      BY <1>2 DEF IInv, TypeOK, DoomedAreUnused, OnlyMissed, VerifyEmail, cleanup, MembersOf, RowsOf
    <2>. QED
      BY <2>1, <2>2
  <1>3. ASSUME NEW u \in User, NEW o \in Organization, Revoke(u, o)
        PROVE  NoOrphans' /\ DoomedAreUnused'
    BY <1>3 DEF IInv, NoOrphans, DoomedAreUnused, OnlyMissed, Revoke, cleanup, MembersOf, RowsOf
  <1>4. ASSUME NEW r \in Request, Query(r) \/ (r \in requests /\ Fail(r))
        PROVE  NoOrphans' /\ DoomedAreUnused'
    BY <1>4, TablesUnchanged DEF Query, Fail
  <1>5. ASSUME NEW r \in Request, InsertApplication(r)
        PROVE  NoOrphans' /\ DoomedAreUnused'
    <2>1. /\ r.about \in Application
          /\ r.organization = OwnerOf[r.about]
          /\ organization[r.organization] = "present" /\ r.organization \notin doomed
          /\ application' = [application EXCEPT ![r.about] = "present"]
          /\ missed' = missed \cup Unseen(r, r.about)
          /\ UNCHANGED <<user, organization, user__organization, cleaning, chosen, doomed>>
      BY <1>5, RequestsAreTyped DEF InsertApplication, Referable
    <2>2. NoOrphans'
      BY <2>1 DEF IInv, TypeOK, NoOrphans
    <2>3. ASSUME NEW o \in Organization, o \in doomed \cup chosen
          PROVE  OnlyMissed(o)'
      <3>1. OnlyMissed(o)
        BY <2>3 DEF IInv, DoomedAreUnused
      <3>2. MembersOf(o)' = MembersOf(o)
        BY <2>1 DEF MembersOf
      <3>3. CASE o = r.organization
        <4>1. missed' = missed \cup {r.about}
          BY <2>1, <2>3, <3>3 DEF Unseen
        <4>2. RowsOf(o)' \subseteq RowsOf(o) \cup {r.about}
          BY <2>1 DEF IInv, TypeOK, RowsOf
        <4>. QED
          BY <2>1, <3>1, <3>2, <4>1, <4>2 DEF OnlyMissed
      <3>4. CASE o # r.organization
        <4>1. RowsOf(o)' = RowsOf(o)
          BY <2>1, <3>4 DEF IInv, TypeOK, RowsOf
        <4>2. missed \subseteq missed'
          BY <2>1
        <4>. QED
          BY <2>1, <3>1, <3>2, <4>1, <4>2 DEF OnlyMissed
      <3>. QED
        BY <3>3, <3>4
    <2>4. DoomedAreUnused'
      BY <2>1, <2>3 DEF IInv, DoomedAreUnused
    <2>. QED
      BY <2>2, <2>4
  <1>6. ASSUME NEW r \in Request, InsertMember(r)
        PROVE  NoOrphans' /\ DoomedAreUnused'
    <2>1. /\ r.about \in User /\ r.organization \in Organization
          /\ user[r.about] \in {"unverified", "verified"}
          /\ organization[r.organization] = "present" /\ r.organization \notin doomed
          /\ user__organization' = user__organization \cup {<<r.about, r.organization>>}
          /\ missed' = missed \cup Unseen(r, <<r.about, r.organization>>)
          /\ UNCHANGED <<user, organization, application, cleaning, chosen, doomed>>
      BY <1>6, RequestsAreTyped DEF InsertMember, Referable
    <2>2. NoOrphans'
      BY <2>1 DEF IInv, NoOrphans
    <2>3. ASSUME NEW o \in Organization, o \in doomed \cup chosen
          PROVE  OnlyMissed(o)'
      <3>1. OnlyMissed(o) /\ RowsOf(o)' = RowsOf(o) /\ missed \subseteq missed'
        BY <2>1, <2>3 DEF IInv, DoomedAreUnused, RowsOf
      <3>2. CASE o = r.organization
        <4>1. missed' = missed \cup {<<r.about, o>>}
          BY <2>1, <2>3, <3>2 DEF Unseen
        <4>2. MembersOf(o)' \subseteq MembersOf(o) \cup {r.about}
          BY <2>1 DEF MembersOf
        <4>. QED
          BY <2>1, <3>1, <4>1, <4>2 DEF OnlyMissed
      <3>3. CASE o # r.organization
        <4>1. MembersOf(o)' = MembersOf(o)
          BY <2>1, <3>3 DEF MembersOf
        <4>. QED
          BY <2>1, <3>1, <4>1 DEF OnlyMissed
      <3>. QED
        BY <3>2, <3>3
    <2>4. DoomedAreUnused'
      BY <2>1, <2>3 DEF IInv, DoomedAreUnused
    <2>. QED
      BY <2>2, <2>4
  <1>7. ASSUME NEW r \in Request, DeleteOrganization(r)
        PROVE  NoOrphans' /\ DoomedAreUnused'
    <2>1. /\ r.organization \in Organization
          /\ r.organization \notin doomed
          /\ organization' = [organization EXCEPT ![r.organization] = "removed"]
          /\ user__organization' = MembershipsWithout({r.organization})
          /\ application' = ApplicationsWithout({r.organization})
          /\ UNCHANGED <<user, cleaning, chosen, doomed, missed>>
      BY <1>7, RequestsAreTyped DEF DeleteOrganization, Referable, cleanup
    <2>2. NoOrphans'
      BY <2>1 DEF IInv, TypeOK, NoOrphans, MembershipsWithout, ApplicationsWithout
    <2>3. \A o \in Organization : MembersOf(o)' \subseteq MembersOf(o)
      BY <2>1 DEF MembersOf, MembershipsWithout
    <2>4. \A o \in Organization : RowsOf(o)' \subseteq RowsOf(o)
      BY <2>1 DEF RowsOf, ApplicationsWithout
    <2>5. \A o \in Organization : o \in doomed \cup chosen => OnlyMissed(o)'
      BY <2>1, <2>3, <2>4, FewerAreOnlyMissed DEF IInv, DoomedAreUnused
    <2>6. DoomedAreUnused'
      BY <2>1, <2>5 DEF IInv, TypeOK, DoomedAreUnused
    <2>. QED
      BY <2>2, <2>6
  <1>8. ASSUME NEW a \in Application, DeleteApplication(a)
        PROVE  NoOrphans' /\ DoomedAreUnused'
    <2>1. NoOrphans'
      BY <1>8 DEF IInv, TypeOK, NoOrphans, DeleteApplication
    <2>2. \A o \in Organization : MembersOf(o)' = MembersOf(o) /\ RowsOf(o)' \subseteq RowsOf(o)
      BY <1>8 DEF IInv, TypeOK, MembersOf, RowsOf, DeleteApplication
    <2>3. UNCHANGED <<user, organization, cleaning, chosen, doomed, missed>>
      BY <1>8 DEF DeleteApplication, cleanup
    <2>4. DoomedAreUnused'
      BY <2>2, <2>3, FewerAreOnlyMissed DEF IInv, DoomedAreUnused
    <2>. QED
      BY <2>1, <2>4
  <1>9. CASE GracePeriodPasses
    BY <1>9, TablesUnchanged DEF GracePeriodPasses
  <1>10. CASE PurgeApplications
    <2>1. NoOrphans'
      BY <1>10 DEF IInv, NoOrphans, PurgeApplications
    <2>2. \A o \in Organization : MembersOf(o)' = MembersOf(o) /\ RowsOf(o)' \subseteq RowsOf(o)
      BY <1>10 DEF MembersOf, RowsOf, PurgeApplications
    <2>3. UNCHANGED <<user, organization, cleaning, chosen, doomed, missed>>
      BY <1>10 DEF PurgeApplications, cleanup
    <2>4. DoomedAreUnused'
      BY <2>2, <2>3, FewerAreOnlyMissed DEF IInv, DoomedAreUnused
    <2>. QED
      BY <2>1, <2>4
  <1>11. CASE DeleteUnverifiedUsers
    <2>1. NoOrphans'
      BY <1>11 DEF IInv, NoOrphans, DeleteUnverifiedUsers, tables
    <2>2. DoomedAreUnused'
      BY <1>11 DEF IInv, DoomedAreUnused, DeleteUnverifiedUsers, tables
    <2>. QED
      BY <2>1, <2>2
  <1>12. CASE FindUnreachableOrganizations
    <2>1. NoOrphans'
      BY <1>12 DEF IInv, NoOrphans, FindUnreachableOrganizations, tables
    <2>2. ASSUME NEW o \in Organization, o \in doomed \cup chosen'
          PROVE  OnlyMissed(o)'
      BY <1>12, <2>2
      DEF IInv, DoomedAreUnused, OnlyMissed, FindUnreachableOrganizations, Unreachable, tables,
          MembersOf, RowsOf
    <2>3. DoomedAreUnused'
      BY <1>12, <2>2
      DEF IInv, DoomedAreUnused, FindUnreachableOrganizations, Unreachable, tables
    <2>. QED
      BY <2>1, <2>3
  <1>13. CASE DeleteUnreachableOrganizations
    <2>1. NoOrphans'
      BY <1>13 DEF IInv, NoOrphans, DeleteUnreachableOrganizations, tables
    <2>2. ASSUME NEW o \in Organization, o \in doomed'
          PROVE  OnlyMissed(o)' /\ organization'[o] = "present"
      <3>1. OnlyMissed(o) /\ organization[o] = "present"
        BY <1>13, <2>2 DEF IInv, DoomedAreUnused, DeleteUnreachableOrganizations
      <3>. QED
        BY <1>13, <3>1 DEF OnlyMissed, DeleteUnreachableOrganizations, tables, MembersOf, RowsOf
    <2>3. \A u \in User : u \in doomed' => u \in doomed
      BY <1>13, OrganizationsAssumption DEF IInv, TypeOK, DeleteUnreachableOrganizations
    <2>4. DoomedAreUnused'
      BY <1>13, <2>2, <2>3 DEF IInv, DoomedAreUnused, DeleteUnreachableOrganizations, tables
    <2>. QED
      BY <2>1, <2>4
  <1>14. CASE CommitCleanUp
    <2>1. doomed' = {} /\ chosen' = {}
      BY <1>14 DEF IInv, DoomedAreUnused, CommitCleanUp
    <2>2. ASSUME NEW x \in user__organization'
          PROVE  user'[x[1]] \in {"unverified", "verified"} /\ organization'[x[2]] = "present"
      <3>1. x \in user__organization /\ x[1] \notin doomed /\ x[2] \notin doomed
        BY <1>14, <2>2 DEF CommitCleanUp, MembershipsWithout
      <3>2. x[1] \in User /\ x[2] \in Organization
        BY <3>1 DEF IInv, TypeOK
      <3>. QED
        BY <1>14, <3>1, <3>2 DEF IInv, NoOrphans, CommitCleanUp
    <2>3. ASSUME NEW a \in Application, application'[a] \in {"present", "deleted"}
          PROVE  organization'[OwnerOf[a]] = "present"
      BY <1>14, <2>3 DEF IInv, NoOrphans, CommitCleanUp, ApplicationsWithout
    <2>. QED
      BY <2>1, <2>2, <2>3 DEF NoOrphans, DoomedAreUnused
  <1>15. CASE RollBackCleanUp
    BY <1>15 DEF IInv, NoOrphans, DoomedAreUnused, RollBackCleanUp, tables
  <1>16. CASE UNCHANGED vars
    BY <1>16, TablesUnchanged DEF vars
  <1>17. requests \subseteq Request
    BY DEF IInv, TypeOK
  <1>. QED
    BY <1>1, <1>2, <1>3, <1>4, <1>5, <1>6, <1>7, <1>8, <1>9, <1>10, <1>11, <1>12, <1>13, <1>14,
       <1>15, <1>16, <1>17
    DEF Next, HandlerStep, CleanUpStep

LEMMA InvariantHolds == Spec => []IInv
  <1>1. Init => IInv
    BY TypeInit DEF Init, IInv, NoOrphans, DoomedAreUnused
  <1>2. IInv /\ [Next]_vars => IInv'
    BY TypeStep, InvariantStep DEF IInv
  <1>. QED
    BY <1>1, <1>2, PTL DEF Spec

(* No membership and no application outlives what it belongs to.            *)
THEOREM NoOrphansHolds == Spec => []NoOrphans
  BY InvariantHolds, PTL DEF IInv

Harmless ==
  cleaning = "organizations" /\ cleaning' = "idle" =>
    /\ \A u \in User : user[u] = "verified" => user'[u] = "verified"
    /\ \A m \in user__organization \ missed :
         user[m[1]] = "verified" => m \in user__organization'
    /\ \A a \in Application \ missed : application'[a] = application[a]

(* Whoever is verified stays when the clean-up commits, and so does what    *)
(* they are a member of, and every application, but for what was committed  *)
(* while its second DELETE was running.                                     *)
THEOREM CleanUpIsHarmlessHolds == Spec => CleanUpIsHarmless
  <1>1. ASSUME IInv, CommitCleanUp
        PROVE  Harmless
    <2>1. \A u \in User : user[u] = "verified" => user'[u] = "verified"
      BY <1>1 DEF IInv, DoomedAreUnused, CommitCleanUp
    <2>2. ASSUME NEW x \in user__organization, x \notin missed, user[x[1]] = "verified"
          PROVE  x \in user__organization'
      <3>1. x[1] \in User /\ x[2] \in Organization
        BY <1>1, <2>2 DEF IInv, TypeOK
      <3>2. x = <<x[1], x[2]>>
        BY <1>1, <2>2 DEF IInv, TypeOK
      <3>3. x[1] \in MembersOf(x[2])
        BY <2>2, <3>1, <3>2 DEF MembersOf
      <3>4. x[1] \notin doomed
        BY <1>1, <2>2, <3>1 DEF IInv, DoomedAreUnused
      <3>5. x[2] \notin doomed
        BY <1>1, <2>2, <3>1, <3>2, <3>3, <3>4 DEF IInv, DoomedAreUnused, OnlyMissed
      <3>. QED
        BY <1>1, <2>2, <3>4, <3>5 DEF CommitCleanUp, MembershipsWithout
    <2>3. ASSUME NEW a \in Application, a \notin missed
          PROVE  application'[a] = application[a]
      <3>1. OwnerOf[a] \in Organization
        BY OrganizationsAssumption
      <3>2. OwnerOf[a] \in doomed => application[a] \in {"absent", "removed"}
        BY <1>1, <2>3, <3>1 DEF IInv, TypeOK, DoomedAreUnused, OnlyMissed, RowsOf, Row
      <3>. QED
        BY <1>1, <3>2 DEF CommitCleanUp, ApplicationsWithout
    <2>. QED
      BY <2>1, <2>2, <2>3 DEF Harmless
  <1>2. ASSUME IInv, RollBackCleanUp
        PROVE  Harmless
    BY <1>2 DEF RollBackCleanUp, Harmless, tables
  <1>3. ASSUME IInv, Next, ~CommitCleanUp, ~RollBackCleanUp
        PROVE  Harmless
    <2>1. cleaning' = cleaning \/ cleaning' # "idle"
      BY <1>3
      DEF Next, HandlerStep, CleanUpStep, Register, CreateOrganization, Revoke, VerifyEmail, Query,
          InsertApplication, InsertMember, DeleteOrganization, Fail, DeleteApplication,
          GracePeriodPasses, PurgeApplications, DeleteUnverifiedUsers,
          FindUnreachableOrganizations, DeleteUnreachableOrganizations, cleanup
    <2>. QED
      BY <2>1 DEF Harmless
  <1>4. IInv /\ [Next]_vars => [Harmless]_vars
    BY <1>1, <1>2, <1>3
  <1>. QED
    BY <1>4, InvariantHolds, PTL DEF Spec, CleanUpIsHarmless, Harmless

-----------------------------------------------------------------------------
LEMMA LimitIsANumber ==
  ASSUME NEW o \in Organization
  PROVE  Limit(o) \in Nat
  BY OrganizationsAssumption, QuotasAssumption
  DEF Limit, get_limit_for_organization, Coalesce, QuotaValue, NoLimit

LEMMA ApplicationsAreFinite ==
  ASSUME NEW o \in Organization
  PROVE  IsFiniteSet(ActiveOf(o)) /\ Cardinality(ActiveOf(o)) \in Nat
  <1>1. ActiveOf(o) \subseteq Application
    BY DEF ActiveOf
  <1>. QED
    BY <1>1, FS_Subset, FS_CardinalityType, OrganizationsAssumption

LEMMA CreatingIsFinite ==
  ASSUME FewInFlight, NEW o \in Organization
  PROVE  IsFiniteSet(Creating(o)) /\ Cardinality(Creating(o)) \in Nat
         /\ Cardinality(Creating(o)) <= Cardinality(requests)
  <1>1. Creating(o) \subseteq requests
    BY DEF Creating
  <1>. QED
    BY <1>1, FS_Subset, FS_CardinalityType DEF FewInFlight

(* The quota holds on when applications go and requests end.                *)
LEMMA FewerOfBoth ==
  ASSUME FewInFlight, FewInFlight', NEW o \in Organization, QuotaIsHeld(o),
         ActiveOf(o)' \subseteq ActiveOf(o), Creating(o)' \subseteq Creating(o)
  PROVE  QuotaIsHeld(o)'
  <1>1. /\ Cardinality(ActiveOf(o)') \in Nat
        /\ Cardinality(ActiveOf(o)') <= Cardinality(ActiveOf(o))
    BY ApplicationsAreFinite, FS_Subset, FS_CardinalityType
  <1>2. /\ Cardinality(Creating(o)') \in Nat
        /\ Cardinality(Creating(o)') <= Cardinality(Creating(o))
    BY CreatingIsFinite, FS_Subset, FS_CardinalityType
  <1>3. /\ Cardinality(ActiveOf(o)) \in Nat /\ Cardinality(Creating(o)) \in Nat
        /\ Limit(o) \in Nat /\ MaxInFlight \in Nat
    BY ApplicationsAreFinite, CreatingIsFinite, LimitIsANumber, OrganizationsAssumption
  <1>4. Limit(o)' = Limit(o)
    BY DEF Limit
  <1>. QED
    BY <1>1, <1>2, <1>3, <1>4 DEF QuotaIsHeld

(* Requests come one at a time, and only while few are under way.           *)
LEMMA FewInFlightStep ==
  ASSUME FewInFlight, [Next]_vars
  PROVE  FewInFlight'
  <1>. Cardinality(requests) \in Nat /\ MaxInFlight \in Nat
    BY FS_CardinalityType, OrganizationsAssumption DEF FewInFlight
  <1>1. ASSUME NEW r \in Request, Query(r)
        PROVE  FewInFlight'
    <2>1. requests' = requests \cup {r} /\ Cardinality(requests) + 1 <= MaxInFlight
      BY <1>1 DEF Query
    <2>2. /\ IsFiniteSet(requests \cup {r})
          /\ Cardinality(requests \cup {r}) \in {Cardinality(requests), Cardinality(requests) + 1}
      BY FS_AddElement DEF FewInFlight
    <2>. QED
      BY <2>1, <2>2 DEF FewInFlight
  <1>2. ASSUME requests' \subseteq requests
        PROVE  FewInFlight'
    <2>1. /\ IsFiniteSet(requests') /\ Cardinality(requests') <= Cardinality(requests)
          /\ Cardinality(requests') \in Nat
      BY <1>2, FS_Subset, FS_CardinalityType DEF FewInFlight
    <2>. QED
      BY <2>1 DEF FewInFlight
  <1>3. requests' \subseteq requests \/ \E r \in Request : Query(r)
    BY DEF Next, HandlerStep, CleanUpStep, Register, CreateOrganization, Revoke, VerifyEmail,
           InsertApplication, InsertMember, DeleteOrganization, Fail, Finish, DeleteApplication,
           GracePeriodPasses, PurgeApplications, DeleteUnverifiedUsers,
           FindUnreachableOrganizations, DeleteUnreachableOrganizations, CommitCleanUp,
           RollBackCleanUp, vars
  <1>. QED
    BY <1>1, <1>2, <1>3

(* Steps that neither count nor create only take applications and requests. *)
LEMMA OnlyFewer ==
  ASSUME TypeOK, [Next]_vars, NEW o \in Organization,
         \A r \in Request : ~Query(r) /\ ~InsertApplication(r)
  PROVE  ActiveOf(o)' \subseteq ActiveOf(o) /\ Creating(o)' \subseteq Creating(o)
  <1>1. \A a \in Application : application'[a] = "present" => application[a] = "present"
    <2>1. requests \subseteq Request
      BY DEF TypeOK
    <2>. QED
      BY <2>1
      DEF TypeOK, Next, HandlerStep, CleanUpStep, Register, CreateOrganization, Revoke, VerifyEmail,
          InsertMember, DeleteOrganization, Fail, DeleteApplication, GracePeriodPasses,
          PurgeApplications, DeleteUnverifiedUsers, FindUnreachableOrganizations,
          DeleteUnreachableOrganizations, CommitCleanUp, RollBackCleanUp, ApplicationsWithout, tables, vars
  <1>2. requests' \subseteq requests
    <2>1. requests \subseteq Request
      BY DEF TypeOK
    <2>. QED
      BY <2>1
      DEF Next, HandlerStep, CleanUpStep, Register, CreateOrganization, Revoke, VerifyEmail,
          InsertMember, DeleteOrganization, Fail, Finish, DeleteApplication, GracePeriodPasses,
          PurgeApplications, DeleteUnverifiedUsers, FindUnreachableOrganizations,
          DeleteUnreachableOrganizations, CommitCleanUp, RollBackCleanUp, vars
  <1>. QED
    BY <1>1, <1>2 DEF ActiveOf, Creating

(* A count that is below the limit leaves room for the request that made    *)
(* it; those that counted before it are no more than may be under way.      *)
LEMMA QuotaHeldByQuery ==
  ASSUME QuotaInv, FewInFlight', NEW o \in Organization, NEW r \in Request, Query(r)
  PROVE  QuotaIsHeld(o)'
  <1>1. ActiveOf(o)' = ActiveOf(o) /\ Limit(o)' = Limit(o)
    BY DEF Query, tables, ActiveOf, Limit
  <1>2. CASE r.op = "create" /\ r.organization = o
    <2>1. Cardinality(ActiveOf(o)) < Limit(o)
      <3>1. Accepted(r) /\ OwnerOf[r.about] = o
        BY <1>2, RequestsAreTyped DEF Query
      <3>2. CountBelowLimit(r.about)
        BY <1>2, <3>1 DEF Accepted
      <3>. QED
        BY <3>1, <3>2 DEF CountBelowLimit
    <2>2. Cardinality(Creating(o)') <= MaxInFlight /\ Cardinality(Creating(o)') \in Nat
      <3>1. Creating(o)' \subseteq requests'
        BY DEF Creating
      <3>2. IsFiniteSet(requests') /\ Cardinality(requests') <= MaxInFlight
        BY DEF FewInFlight
      <3>3. Cardinality(Creating(o)') <= Cardinality(requests')
        BY <3>1, <3>2, FS_Subset
      <3>4. Cardinality(Creating(o)') \in Nat /\ Cardinality(requests') \in Nat
        BY <3>1, <3>2, FS_Subset, FS_CardinalityType
      <3>. QED
        BY <3>2, <3>3, <3>4, OrganizationsAssumption
    <2>3. Cardinality(ActiveOf(o)) \in Nat /\ Limit(o) \in Nat /\ MaxInFlight \in Nat
      BY ApplicationsAreFinite, LimitIsANumber, OrganizationsAssumption
    <2>4. Cardinality(ActiveOf(o)) + Cardinality(Creating(o)') < Limit(o) + MaxInFlight
      BY <2>1, <2>2, <2>3
    <2>5. Limit(o) > 0
      BY <2>1, <2>3
    <2>. QED
      BY <1>1, <2>4, <2>5 DEF QuotaIsHeld
  <1>3. CASE ~(r.op = "create" /\ r.organization = o)
    <2>1. Creating(o)' = Creating(o)
      BY <1>3 DEF Query, Creating
    <2>. QED
      BY <1>1, <2>1 DEF QuotaInv, QuotaIsHeld
  <1>. QED
    BY <1>2, <1>3

(* The request that inserts is one less under way.                          *)
LEMMA QuotaHeldByInsertion ==
  ASSUME QuotaInv, FewInFlight', NEW o \in Organization, NEW r \in Request, InsertApplication(r)
  PROVE  QuotaIsHeld(o)'
  <1>1. /\ r.about \in Application /\ r.organization = OwnerOf[r.about]
        /\ r.op = "create" /\ r \in requests /\ requests' = requests \ {r}
        /\ application[r.about] = "absent"
        /\ application' = [application EXCEPT ![r.about] = "present"]
    BY RequestsAreTyped DEF InsertApplication, Finish
  <1>2. CASE r.organization = o
    <2>1. ActiveOf(o)' = ActiveOf(o) \cup {r.about} /\ r.about \notin ActiveOf(o)
      BY <1>1, <1>2 DEF QuotaInv, TypeOK, ActiveOf
    <2>2. Creating(o)' = Creating(o) \ {r} /\ r \in Creating(o)
      BY <1>1, <1>2 DEF Creating
    <2>3. Cardinality(ActiveOf(o)') = Cardinality(ActiveOf(o)) + 1
      BY <2>1, ApplicationsAreFinite, FS_AddElement
    <2>4. Cardinality(Creating(o)') = Cardinality(Creating(o)) - 1
      BY <2>2, CreatingIsFinite, FS_RemoveElement DEF QuotaInv
    <2>5. /\ Limit(o) > 0
          /\ Cardinality(ActiveOf(o)) + Cardinality(Creating(o)) < Limit(o) + MaxInFlight
      BY <2>2 DEF QuotaInv, QuotaIsHeld
    <2>6. Cardinality(ActiveOf(o)) \in Nat /\ Cardinality(Creating(o)) \in Nat
      BY ApplicationsAreFinite, CreatingIsFinite DEF QuotaInv
    <2>7. Cardinality(ActiveOf(o)') + Cardinality(Creating(o)') < Limit(o) + MaxInFlight
      BY <2>3, <2>4, <2>5, <2>6
    <2>. QED
      BY <2>5, <2>7 DEF QuotaIsHeld, Limit
  <1>3. CASE r.organization # o
    <2>1. ActiveOf(o)' = ActiveOf(o)
      BY <1>1, <1>3 DEF QuotaInv, TypeOK, ActiveOf
    <2>2. Creating(o)' = Creating(o)
      BY <1>1, <1>3 DEF Creating
    <2>. QED
      BY <2>1, <2>2 DEF QuotaInv, QuotaIsHeld, Limit
  <1>. QED
    BY <1>2, <1>3

(* However requests interleave, an organization passes its quota of         *)
(* applications by less than the number of requests under way, and a quota  *)
(* of zero lets none through.                                               *)
THEOREM ApplicationsNearQuotaHolds == Spec => []ApplicationsNearQuota
  <1>1. Init => QuotaInv
    <2>1. ASSUME Init
          PROVE  FewInFlight
      BY <2>1, FS_EmptySet, OrganizationsAssumption DEF Init, FewInFlight
    <2>2. ASSUME Init, NEW o \in Organization
          PROVE  ActiveOf(o) = {} /\ Creating(o) = {}
      BY <2>2 DEF Init, ActiveOf, Creating
    <2>. QED
      BY <2>1, <2>2, TypeInit DEF QuotaInv, QuotaIsHeld
  <1>2. ASSUME QuotaInv, [Next]_vars
        PROVE  QuotaInv'
    <2>1. TypeOK' /\ FewInFlight'
      BY <1>2, TypeStep, FewInFlightStep DEF QuotaInv
    <2>2. ASSUME NEW o \in Organization
          PROVE  QuotaIsHeld(o)'
      <3>1. CASE \E r \in Request : Query(r) \/ InsertApplication(r)
        BY <1>2, <2>1, <3>1, QuotaHeldByQuery, QuotaHeldByInsertion
      <3>2. CASE \A r \in Request : ~Query(r) /\ ~InsertApplication(r)
        <4>1. ActiveOf(o)' \subseteq ActiveOf(o) /\ Creating(o)' \subseteq Creating(o)
          BY <1>2, <3>2, OnlyFewer DEF QuotaInv
        <4>. QED
          BY <1>2, <2>1, <4>1, FewerOfBoth DEF QuotaInv
      <3>. QED
        BY <3>1, <3>2
    <2>. QED
      BY <2>1, <2>2 DEF QuotaInv
  <1>3. QuotaInv => ApplicationsNearQuota
    <2>1. ASSUME QuotaInv, NEW o \in Organization, Cardinality(ActiveOf(o)) > 0
          PROVE  Limit(o) > 0 /\ Cardinality(ActiveOf(o)) < Limit(o) + MaxInFlight
      <3>1. ActiveOf(o) # {}
        BY <2>1, FS_EmptySet
      <3>2. /\ Limit(o) > 0
            /\ Cardinality(ActiveOf(o)) + Cardinality(Creating(o)) < Limit(o) + MaxInFlight
        BY <2>1, <3>1 DEF QuotaInv, QuotaIsHeld
      <3>3. /\ Cardinality(ActiveOf(o)) \in Nat /\ Cardinality(Creating(o)) \in Nat
            /\ Limit(o) \in Nat /\ MaxInFlight \in Nat
        BY <2>1, ApplicationsAreFinite, CreatingIsFinite, LimitIsANumber, OrganizationsAssumption
        DEF QuotaInv
      <3>. QED
        BY <3>2, <3>3
    <2>. QED
      BY <2>1 DEF ApplicationsNearQuota
  <1>. QED
    BY <1>1, <1>2, <1>3, PTL DEF Spec
=============================================================================
