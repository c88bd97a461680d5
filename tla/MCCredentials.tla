----------------------------- MODULE MCCredentials -----------------------------
(* Small instances of the credentials. *)
EXTENDS Credentials, TLC

CONSTANTS
  u1, u2,          \* u1 founded the organization
  org, app,
  token, secret    \* a service token of org, a secret of app

Owners == [a \in Application |-> org]
Scopes == [k \in Key |-> IF k = token THEN org ELSE app]
Founded == [u \in User |-> [o \in Organization |-> IF u = u1 THEN "editor" ELSE NoRow]]

AskedFor ==
  [type \in TokenType |->
     CASE type = "user_access" ->
            {"auth:logout", "auth:change_password", "event:ingest"}
       [] type = "service_access" ->
            {"event:ingest", "service_token:delete", "application_secret:delete"}
       [] type = "master_access" ->
            {"organization:edit_role", "organization:invite", "organization:revoke",
             "service_token:create", "application_secret:create", "application:delete"}
       [] OTHER -> {"event:list"}]

(* One role is lost, on the first day, and not regained; either roles change *)
(* or sessions end.                                                          *)
FewEdits ==
  \A x \in DOMAIN left_at :
    left_at[x] # NoRow =>
      /\ left_at[x] = 0 /\ ended = {} /\ Running = {}
      /\ member[x[1]][x[2]] # x[3]
      /\ \A y \in DOMAIN left_at : left_at[y] # NoRow => x = y

(* Sessions and keys are not mixed, and sessions go with one call at a time. *)
WithoutKeys ==
  /\ deleted_applications = {} /\ \A k \in Key : key[k] = "none"
  /\ \A x, y \in Calls \cap InFlight : x = y
  /\ Running = {} \/ Calls \cap InFlight = {}

WithoutSessions ==
  /\ InFlight \subseteq Calls /\ Running = {} /\ verified = {} /\ member = Founders
  /\ \A p \in Pair : user_access[p] = NoRow /\ refresh[p] = NoRow

Apart == WithoutKeys \/ WithoutSessions

Symmetry == Permutations(Pair) \cup Permutations(Request \ Calls) \cup Permutations(Calls) \cup Permutations(Session)
=============================================================================
