----------------------------- MODULE Authorization -----------------------------
(***************************************************************************)
(* Who may do what: the biscuits that Hook0 mints, and the policy that its *)
(* handlers evaluate against them.  A biscuit keeps what was known when it *)
(* was minted; only the database can say that it has been revoked since.   *)
(***************************************************************************)
EXTENDS Naturals

CONSTANTS
  User, Organization, Application,
  OwnerOf,      \* the organization of an application
  Session,      \* ids of sessions
  Pair,         \* ids that the access and the refresh token of a login can get
  Key,          \* service tokens and application secrets
  Scope,        \* the organization of a service token, the application of a secret
  NoRow         \* no value

Role == {"viewer", "editor"}
Roles == [Organization -> Role \cup {NoRow}]

TokenType == {"user_access", "refresh", "service_access", "master_access"}

(* The facts of the authority block, id standing for the revocation id,     *)
(* and the two checks that a later block can add: an application and a      *)
(* date.  "password" is nobody's token: it is what a login starts from.     *)
Biscuit ==
  [type : TokenType \cup {"password"}, id : Pair \cup Key \cup {NoRow},
   user : User \cup {NoRow}, session : Session \cup {NoRow}, roles : Roles,
   organization : Organization \cup {NoRow},
   application : Application \cup {NoRow}, expires : Nat \cup {NoRow}]

ASSUME AuthorizationAssumption ==
  /\ OwnerOf \in [Application -> Organization]
  /\ Scope \in [Key -> Organization \cup Application]
  /\ Organization \cap Application = {}
  /\ Pair \cap Key = {}
  /\ NoRow \notin User \cup Organization \cup Application \cup Session
                    \cup Pair \cup Key \cup Role \cup Nat

NoRoles == [o \in Organization |-> NoRow]

Anonymous ==
  [type |-> "password", id |-> NoRow, user |-> NoRow, session |-> NoRow,
   roles |-> NoRoles, organization |-> NoRow, application |-> NoRow, expires |-> NoRow]

UserAccess(p, u, s, roles, expires) ==
  [Anonymous EXCEPT !.type = "user_access", !.id = p, !.user = u, !.session = s,
                    !.roles = roles, !.expires = expires]

Refresh(p, u, s, expires) ==
  [Anonymous EXCEPT !.type = "refresh", !.id = p, !.user = u, !.session = s,
                    !.expires = expires]

ServiceAccess(k, o) ==
  [Anonymous EXCEPT !.type = "service_access", !.id = k, !.organization = o]

MasterAccess == [Anonymous EXCEPT !.type = "master_access"]

(* The date is forgotten. *)
OnlyScoped(biscuit, app, expires) == [biscuit EXCEPT !.application = app]

(* Holders can append blocks with checks; facts in them are not trusted. *)
Attenuated(biscuit, app, expires) ==
  [biscuit EXCEPT !.application = app, !.expires = expires]

-----------------------------------------------------------------------------
(* can_work_without_organization() *)
Personal ==
  {"auth:logout", "auth:change_password", "organization:list", "organization:create"}

(* application_id() *)
OnApplication ==
  {"application:get", "application:edit", "application:delete",
   "application_secret:list", "application_secret:create",
   "application_secret:edit", "application_secret:delete",
   "event_type:list", "event_type:create", "event_type:get", "event_type:delete",
   "subscription:list", "subscription:create", "subscription:get",
   "subscription:edit", "subscription:delete",
   "event:list", "event:get", "event:ingest", "event:replay",
   "request_attempt:list", "response:get"}

OnOrganization ==
  {"organization:get", "organization:edit", "organization:invite",
   "organization:revoke", "organization:edit_role", "organization:delete",
   "service_token:list", "service_token:create", "service_token:get",
   "service_token:edit", "service_token:delete",
   "application:list", "application:create"}

Action == Personal \cup OnApplication \cup OnOrganization

ForViewers ==
  {"organization:get", "application:list", "application:get", "event_type:list",
   "event_type:get", "subscription:list", "subscription:get", "event:list",
   "event:get", "request_attempt:list", "response:get"}

(* allowed_roles() *)
AllowedRoles(action) ==
  {"editor"} \cup {role \in {"viewer"} : action \in ForViewers}

(* The handlers name an organization, an application, or neither. *)
Targets(action) ==
  IF action \in Personal THEN {NoRow}
  ELSE IF action \in OnApplication THEN Application ELSE Organization

OrganizationOf(target) == IF target \in Application THEN OwnerOf[target] ELSE target

(* valid_type and the checks that blocks added *)
IsValid(biscuit, target, time) ==
  /\ biscuit.type \in {"user_access", "service_access", "master_access"}
  /\ biscuit.application # NoRow => biscuit.application = target
  /\ biscuit.expires # NoRow => time < biscuit.expires

(* Whoever has a role has every role. *)
HasAnyRole(biscuit, o, action) ==
  \/ biscuit.type = "user_access" /\ biscuit.roles[o] # NoRow
  \/ biscuit.type = "service_access" /\ biscuit.organization = o
  \/ biscuit.type = "master_access"

(* valid_role and organization_id *)
HasRole(biscuit, o, action) ==
  \/ biscuit.type = "user_access" /\ biscuit.roles[o] \in AllowedRoles(action)
  \/ biscuit.type = "service_access" /\ biscuit.organization = o
  \/ biscuit.type = "master_access"

(* authorize(), and authorize_only_user() where the handler calls it *)
Authorized(biscuit, action, target, time) ==
  /\ IsValid(biscuit, target, time)
  /\ target # NoRow => HasRole(biscuit, OrganizationOf(target), action)
  /\ action \in Personal \ {"organization:list"} => biscuit.type = "user_access"

(* authorize_refresh_token() *)
MayRefresh(biscuit, time) == biscuit.type = "refresh" /\ time < biscuit.expires
=============================================================================
