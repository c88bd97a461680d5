----------------------------- MODULE Organizations -----------------------------
(***************************************************************************)
(* Users, organizations, the memberships between them, and the             *)
(* applications that organizations own.  Handlers of several statements    *)
(* stop between them; two periodic tasks take away what is left over: the  *)
(* unverified users with the organizations that nobody can reach any more, *)
(* and the applications that were deleted.                                 *)
(***************************************************************************)
EXTENDS Quotas, FiniteSets

CONSTANTS
  User, Organization, Application,
  OwnerOf,               \* the organization of an application
  Priced,                \* organizations with a price__id
  PlanApplications,      \* applications_per_organization_limit of its plan
  GlobalApplications,    \* quota_global_applications_per_organization_limit
  ReportAndDelete,       \* unverified_users_cleanup_report_and_delete
  MaxInFlight            \* bound: requests between two of their statements

(* A row that was deleted never comes back: ids are new. *)
Row == {"absent", "present", "removed"}

(* What a handler has found so far; about is the user, the application or   *)
(* the organization itself that it is about to write.                       *)
Request ==
  [op : {"invite"}, organization : Organization, about : User]
    \cup {[op |-> "create", organization |-> OwnerOf[a], about |-> a] : a \in Application}
    \cup {[op |-> "delete", organization |-> o, about |-> o] : o \in Organization}

ASSUME OrganizationsAssumption ==
  /\ User \cap Organization = {} /\ User \cap Application = {} /\ Organization \cap Application = {}
  /\ IsFiniteSet(Application)
  /\ OwnerOf \in [Application -> Organization]
  /\ Priced \subseteq Organization
  /\ PlanApplications \in [Organization -> QuotaValue \cup {NoLimit}]
  /\ \A o \in Organization \ Priced : PlanApplications[o] = NoLimit
  /\ GlobalApplications \in QuotaValue
  /\ ReportAndDelete \in BOOLEAN
  /\ MaxInFlight \in Nat

VARIABLES
  user,                  \* iam.user and its email_verified_at
  organization,          \* iam.organization
  user__organization,    \* pairs of a user and an organization
  application,           \* event.application and its deleted_at
  aged,                  \* rows that are older than the grace period of their clean-up
  requests,              \* handlers between two of their statements
  cleaning,              \* how far the clean-up of unverified users has come
  chosen,                \* organizations that its running DELETE has found unreachable
  doomed,                \* rows that its open transaction has deleted
  missed                 \* history: rows committed in organizations that were chosen then

tables == <<user, organization, user__organization, application>>
cleanup == <<cleaning, chosen, doomed, missed>>
vars == <<tables, aged, requests, cleanup>>

TypeOK ==
  /\ user \in [User -> {"absent", "unverified", "verified", "removed"}]
  /\ organization \in [Organization -> Row]
  /\ user__organization \subseteq User \X Organization
  /\ application \in [Application -> Row \cup {"deleted"}]
  /\ aged \subseteq User \cup Organization \cup Application
  /\ requests \subseteq Request
  /\ cleaning \in {"idle", "users", "deleting", "organizations"}
  /\ chosen \subseteq Organization
  /\ doomed \subseteq User \cup Organization
  /\ missed \subseteq Application \cup (User \X Organization)

Init ==
  /\ user = [u \in User |-> "absent"]
  /\ organization = [o \in Organization |-> "absent"]
  /\ user__organization = {}
  /\ application = [a \in Application |-> "absent"]
  /\ aged = {} /\ requests = {}
  /\ cleaning = "idle" /\ chosen = {} /\ doomed = {} /\ missed = {}

-----------------------------------------------------------------------------
MembersOf(o) == {u \in User : <<u, o>> \in user__organization}
RowsOf(o) == {a \in Application : OwnerOf[a] = o /\ application[a] \in {"present", "deleted"}}
ActiveOf(o) == {a \in Application : OwnerOf[a] = o /\ application[a] = "present"}

Limit(o) == get_limit_for_organization(PlanApplications[o], GlobalApplications)

(* register: one transaction, which a mail that cannot be sent rolls back. *)
Register(u, o) ==
  /\ user[u] = "absent" /\ organization[o] = "absent"
  /\ user' = [user EXCEPT ![u] = "unverified"]
  /\ organization' = [organization EXCEPT ![o] = "present"]
  /\ user__organization' = user__organization \cup {<<u, o>>}
  /\ UNCHANGED <<application, aged, requests, cleanup>>

(* It does not wait for the clean-up's row lock. *)
VerifyUnlocked(u) ==
  /\ user[u] = "unverified"
  /\ user' = [user EXCEPT ![u] = "verified"]
  /\ UNCHANGED <<organization, user__organization, application, aged, requests, cleanup>>

(* verify_email and reset_password; they wait for a row that is locked. *)
VerifyEmail(u) ==
  /\ user[u] = "unverified" /\ u \notin doomed
  /\ user' = [user EXCEPT ![u] = "verified"]
  /\ UNCHANGED <<organization, user__organization, application, aged, requests, cleanup>>

(* organizations.create: one transaction; its user is logged in. *)
CreateOrganization(u, o) ==
  /\ user[u] = "verified" /\ organization[o] = "absent"
  /\ organization' = [organization EXCEPT ![o] = "present"]
  /\ user__organization' = user__organization \cup {<<u, o>>}
  /\ UNCHANGED <<user, application, aged, requests, cleanup>>

-----------------------------------------------------------------------------
(* Handlers of two statements.  The first one is a query that may refuse;   *)
(* the authorization before it only looks at the token, which may have been *)
(* issued for an organization that is gone.                                 *)
CountBelowOrAtLimit(a) == Cardinality(ActiveOf(OwnerOf[a])) <= Limit(OwnerOf[a])
CountBelowLimit(a) == Cardinality(ActiveOf(OwnerOf[a])) < Limit(OwnerOf[a])

Accepted(r) ==
  \/ r.op = "create" /\ application[r.about] = "absent" /\ CountBelowLimit(r.about)
  \/ r.op = "delete" /\ RowsOf(r.organization) = {}
  \/ r.op = "invite" /\ user[r.about] \in {"unverified", "verified"}

Query(r) ==
  /\ organization[r.organization] # "absent"
  /\ Accepted(r)
  /\ Cardinality(requests) < MaxInFlight
  /\ requests' = requests \cup {r}
  /\ UNCHANGED <<tables, aged, cleanup>>

Finish(r) == r \in requests /\ requests' = requests \ {r}

(* Any second statement can fail, on a foreign key to begin with. *)
Fail(r) ==
  /\ Finish(r)
  /\ UNCHANGED <<tables, aged, cleanup>>

(* A row that is locked does not make the foreign key wait. *)
ReferableUnlocked(o) == organization[o] = "present"

(* The foreign key: it exists, and its deletion is not under way. *)
Referable(o) == organization[o] = "present" /\ o \notin doomed

(* An INSERT is one step, at its commit.  From its start it keeps what it   *)
(* refers to from being deleted, and a DELETE that has begun before waits   *)
(* and does not look again: that is an insertion between the two steps of   *)
(* the DELETE (see DeleteUnreachableOrganizations).                         *)
Unseen(r, row) == IF r.organization \in chosen THEN {row} ELSE {}

(* applications.create *)
InsertApplication(r) ==
  /\ r.op = "create" /\ Finish(r)
  /\ application[r.about] = "absent"
  /\ Referable(r.organization)
  /\ application' = [application EXCEPT ![r.about] = "present"]
  /\ missed' = missed \cup Unseen(r, r.about)
  /\ UNCHANGED <<user, organization, user__organization, aged, cleaning, chosen, doomed>>

(* The columns are swapped. *)
InsertSwapped(r) ==
  /\ r.op = "invite" /\ Finish(r)
  /\ user__organization' = user__organization \cup {<<r.organization, r.about>>}
  /\ UNCHANGED <<user, organization, application, aged, cleanup>>

(* organizations.invite: the primary key refuses a member. *)
InsertMember(r) ==
  /\ r.op = "invite" /\ Finish(r)
  /\ <<r.about, r.organization>> \notin user__organization
  /\ user[r.about] \in {"unverified", "verified"} /\ r.about \notin doomed
  /\ Referable(r.organization)
  /\ user__organization' = user__organization \cup {<<r.about, r.organization>>}
  /\ missed' = missed \cup Unseen(r, <<r.about, r.organization>>)
  /\ UNCHANGED <<user, organization, application, aged, cleaning, chosen, doomed>>

(* organizations.revoke: its query and its DELETE, which removes whatever   *)
(* membership there is by then.                                             *)
Revoke(u, o) ==
  /\ <<u, o>> \in user__organization
  /\ u \notin doomed /\ o \notin doomed
  /\ user__organization' = user__organization \ {<<u, o>>}
  /\ UNCHANGED <<user, organization, application, aged, requests, cleanup>>

(* Without the constraint on applications. *)
ApplicationsKept(gone) == application

(* ON DELETE CASCADE, from users to memberships, and from organizations to  *)
(* memberships and applications.                                            *)
MembershipsWithout(gone) ==
  {m \in user__organization : m[1] \notin gone /\ m[2] \notin gone}
ApplicationsWithout(gone) ==
  [a \in Application |->
     IF OwnerOf[a] \in gone /\ application[a] # "absent" THEN "removed" ELSE application[a]]

(* organizations.delete *)
DeleteOrganization(r) ==
  /\ r.op = "delete" /\ Finish(r)
  /\ Referable(r.organization) /\ MembersOf(r.organization) \cap doomed = {}
  /\ organization' = [organization EXCEPT ![r.organization] = "removed"]
  /\ user__organization' = MembershipsWithout({r.organization})
  /\ application' = ApplicationsWithout({r.organization})
  /\ UNCHANGED <<user, aged, cleanup>>

(* applications.delete; it waits for a row that the clean-up has deleted.    *)
DeleteApplication(a) ==
  /\ application[a] = "present" /\ OwnerOf[a] \notin doomed
  /\ application' = [application EXCEPT ![a] = "deleted"]
  /\ UNCHANGED <<user, organization, user__organization, aged, requests, cleanup>>

-----------------------------------------------------------------------------
(* The grace periods of all rows that wait for one pass: since the creation *)
(* of a user or an organization, or since an application's deletion.        *)
Waiting ==
  {u \in User : user[u] = "unverified"}
    \cup {o \in Organization : organization[o] = "present"}
    \cup {a \in Application : application[a] = "deleted"}

GracePeriodPasses ==
  /\ aged' = aged \cup Waiting
  /\ UNCHANGED <<tables, requests, cleanup>>

(* purge_soft_soft_deleted_applications, which waits for such rows, too.     *)
Purgeable == {a \in Application : application[a] = "deleted" /\ a \in aged}

PurgeApplications ==
  /\ \A a \in Purgeable : OwnerOf[a] \notin doomed
  /\ application' = [a \in Application |-> IF a \in Purgeable THEN "removed" ELSE application[a]]
  /\ UNCHANGED <<user, organization, user__organization, aged, requests, cleanup>>

(* clean_up_unverified_users, a transaction of two statements.  The first   *)
(* one is a step, once it has all locks: rows that were updated while it    *)
(* waited are looked at again.                                              *)
DeleteUnverifiedUsers ==
  /\ cleaning = "idle"
  /\ cleaning' = "users"
  /\ doomed' = {u \in User : user[u] = "unverified" /\ u \in aged}
  /\ UNCHANGED <<tables, aged, requests, chosen, missed>>

(* An inner join, which misses organizations that lost their members before. *)
UnreachableJoined(o) ==
  /\ organization[o] = "present" /\ o \in aged /\ o \notin Priced
  /\ MembersOf(o) # {} /\ MembersOf(o) \subseteq doomed
  /\ RowsOf(o) = {}

(* Its transaction sees the memberships that are gone with the users. *)
Unreachable(o) ==
  /\ organization[o] = "present" /\ o \in aged /\ o \notin Priced
  /\ MembersOf(o) \subseteq doomed
  /\ RowsOf(o) = {}

(* The second one decides on the snapshot of its start ...                  *)
FindUnreachableOrganizations ==
  /\ cleaning = "users"
  /\ cleaning' = "deleting"
  /\ chosen' = {o \in Organization : Unreachable(o)}
  /\ UNCHANGED <<tables, aged, requests, doomed, missed>>

(* ... and deletes later, when it has waited for whoever refers to one of   *)
(* these rows.  It skips those that are gone, and does not ask again what   *)
(* belongs to the others: only their own columns count.                     *)
DeleteUnreachableOrganizations ==
  /\ cleaning = "deleting"
  /\ cleaning' = "organizations"
  /\ chosen' = {}
  /\ doomed' = doomed \cup {o \in chosen : organization[o] = "present"}
  /\ UNCHANGED <<tables, aged, requests, missed>>

CommitCleanUp ==
  /\ cleaning = "organizations" /\ ReportAndDelete
  /\ user' = [u \in User |-> IF u \in doomed THEN "removed" ELSE user[u]]
  /\ organization' = [o \in Organization |-> IF o \in doomed THEN "removed" ELSE organization[o]]
  /\ user__organization' = MembershipsWithout(doomed)
  /\ application' = ApplicationsWithout(doomed)
  /\ cleaning' = "idle" /\ doomed' = {} /\ missed' = {}
  /\ UNCHANGED <<aged, requests, chosen>>

(* It only reports, or a statement fails. *)
RollBackCleanUp ==
  /\ cleaning # "idle"
  /\ cleaning' = "idle" /\ chosen' = {} /\ doomed' = {} /\ missed' = {}
  /\ UNCHANGED <<tables, aged, requests>>

-----------------------------------------------------------------------------
HandlerStep ==
  \/ \E u \in User, o \in Organization : Register(u, o) \/ CreateOrganization(u, o) \/ Revoke(u, o)
  \/ \E u \in User : VerifyEmail(u)
  \/ \E r \in Request : Query(r)
  \/ \E r \in requests :
       \/ InsertApplication(r) \/ InsertMember(r) \/ DeleteOrganization(r) \/ Fail(r)
  \/ \E a \in Application : DeleteApplication(a)

CleanUpStep ==
  \/ DeleteUnverifiedUsers
  \/ FindUnreachableOrganizations \/ DeleteUnreachableOrganizations
  \/ CommitCleanUp \/ RollBackCleanUp

Next ==
  \/ HandlerStep
  \/ GracePeriodPasses
  \/ PurgeApplications
  \/ CleanUpStep

Spec == Init /\ [][Next]_vars

(* Time passes, and the periodic tasks do not fail for ever. *)
FairSpec ==
  /\ Spec
  /\ WF_vars(GracePeriodPasses) /\ WF_vars(PurgeApplications)
  /\ WF_vars(DeleteUnverifiedUsers)
  /\ SF_vars(FindUnreachableOrganizations)
  /\ SF_vars(DeleteUnreachableOrganizations) /\ SF_vars(CommitCleanUp)

-----------------------------------------------------------------------------
(* The quota of applications is counted by one statement and used by        *)
(* another: concurrent requests can pass it, but only by as many as were    *)
(* under way together, and never where no application is allowed at all.    *)
ApplicationsNearQuota ==
  \A o \in Organization :
    LET n == Cardinality(ActiveOf(o))
    IN n > 0 => Limit(o) > 0 /\ n < Limit(o) + MaxInFlight

(* Nothing refers to a row that is gone, whichever of them is deleted       *)
(* while handlers are between two statements.                               *)
NoOrphans ==
  /\ \A m \in user__organization :
       user[m[1]] \in {"unverified", "verified"} /\ organization[m[2]] = "present"
  /\ \A a \in Application :
       application[a] \in {"present", "deleted"} => organization[OwnerOf[a]] = "present"

(* The clean-up takes no verified user, and of what users are members of,   *)
(* and of applications, nothing but what its second DELETE could not see:   *)
(* what was committed in an organization after the DELETE had chosen it and *)
(* before it had its lock.  Whoever is verified, invited or creates an      *)
(* application earlier keeps the organization, and later they wait.         *)
(* (delete_unverified_users, deleted_unreachable_organizations)             *)
CleanUpIsHarmless ==
  [][cleaning = "organizations" /\ cleaning' = "idle" =>
       /\ \A u \in User : user[u] = "verified" => user'[u] = "verified"
       /\ \A m \in user__organization \ missed :
            user[m[1]] = "verified" => m \in user__organization'
       /\ \A a \in Application \ missed : application'[a] = application[a]]_vars

(* Where the clean-up deletes, an organization without a price in which     *)
(* nobody is verified does not stay, once its applications are deleted:     *)
(* the users go, the purge takes the applications, and then the             *)
(* organization goes, unless somebody turns up in it.                       *)
VerifiedMembersOf(o) == {u \in MembersOf(o) : user[u] = "verified"}
IsInUse(o) == VerifiedMembersOf(o) # {} \/ ActiveOf(o) # {}

UnreachableOrganizationsGo ==
  \A o \in Organization \ Priced :
    organization[o] = "present" /\ ~IsInUse(o) ~> organization[o] = "removed" \/ IsInUse(o)
=============================================================================
