------------------------------ MODULE Credentials ------------------------------
(***************************************************************************)
(* Sessions, service tokens, application secrets and roles: what is minted *)
(* when, who may use it for how long, and what ends it.  A request passes  *)
(* the middleware, which asks the database whether its token still lives,  *)
(* is authorized by what its token says, and acts in a later statement.    *)
(***************************************************************************)
EXTENDS Authorization

CONSTANTS
  Request,            \* requests that can be in flight at a time ...
  Calls,              \* ... and those of them that neither log in nor refresh
  Update,             \* UPDATEs of several tokens that can run at a time
  Asked,              \* what requests ask for, by the type of their token
  Founders,           \* the roles that users have to begin with
  MasterEnabled,      \* master_api_key is configured
  AccessLifetime,     \* USER_ACCESS_TOKEN_EXPIRATION
  RefreshLifetime,    \* REFRESH_TOKEN_EXPIRATION
  LinkLifetime,       \* EMAIL_VERIFICATION_ and RESET_PASSWORD_TOKEN_EXPIRATION
  SecretLifetime,     \* of the biscuit that stands for a secret: 1 s
  GracePeriod,        \* expired_tokens_cleanup_grace_period
  ReportAndDelete,    \* expired_tokens_cleanup_report_and_delete
  MaxTime             \* bound: the clock

AccessRow == [user : User, session : Session, roles : Roles, expired_at : Nat]
RefreshRow == [user : User, session : Session, expired_at : Nat]

RequestRow ==
  [step : {"authenticated", "granted", "verified", "minted"},
   biscuit : Biscuit, action : Action \cup {"auth:login", "auth:refresh"},
   target : Organization \cup Application \cup {NoRow}, at : Nat]

(* An UPDATE that ends tokens.  It decides on the rows that are live when it *)
(* starts: rows that are inserted while it waits for a lock are not among    *)
(* them.  sessions and late are history: the sessions that it is to end, and *)
(* those with a login or a refresh in flight before it is done.              *)
UpdateRow ==
  [user : User, rows : SUBSET Pair, at : Nat, verifies : SUBSET User,
   sessions : SUBSET Session, late : SUBSET Session]

ASSUME CredentialsAssumption ==
  /\ Calls \subseteq Request
  /\ Asked \in [TokenType -> SUBSET Action]
  /\ Founders \in [User -> Roles]
  /\ MasterEnabled \in BOOLEAN /\ ReportAndDelete \in BOOLEAN
  /\ AccessLifetime \in Nat \ {0} /\ RefreshLifetime \in Nat \ {0}
  /\ LinkLifetime \in Nat /\ SecretLifetime \in Nat
  /\ GracePeriod \in Nat /\ MaxTime \in Nat
  /\ NoRow \notin AccessRow \cup RefreshRow \cup RequestRow \cup UpdateRow

VARIABLES
  now,
  verified,              \* users with an email_verified_at
  member,                \* iam.user__organization
  user_access, refresh,  \* iam.token, by type; both rows of a pair are one INSERT
  key,                   \* service tokens (iam.token) and event.application_secret
  deleted_applications,
  request,
  update,                \* logouts and changes of a password whose UPDATE is running
  left_at,               \* history: when a user last lost a role
  revoked_at,            \* history: when a key was first revoked
  ended,                 \* history: sessions of a logout or of a change of password
  escaped,               \* history: those with a login or a refresh in flight meanwhile
  forked                 \* history: sessions with a refresh whose token was not live

tokens == <<user_access, refresh>>
people == <<verified, member, left_at>>
keys == <<key, revoked_at>>
sessions == <<update, ended, escaped, forked>>
vars == <<now, people, tokens, keys, deleted_applications, request, sessions>>

TypeOK ==
  /\ now \in Nat
  /\ verified \subseteq User
  /\ member \in [User -> Roles]
  /\ user_access \in [Pair -> AccessRow \cup {NoRow}]
  /\ refresh \in [Pair -> RefreshRow \cup {NoRow}]
  /\ key \in [Key -> {"none", "active", "revoked"}]
  /\ deleted_applications \subseteq Application
  /\ request \in [Request -> RequestRow \cup {NoRow}]
  /\ update \in [Update -> UpdateRow \cup {NoRow}]
  /\ left_at \in [User \X Organization \X Role -> Nat \cup {NoRow}]
  /\ revoked_at \in [Key -> Nat \cup {NoRow}]
  /\ ended \subseteq Session /\ escaped \subseteq Session /\ forked \subseteq Session

Init ==
  /\ now = 0
  /\ verified = {}
  /\ member = Founders
  /\ user_access = [p \in Pair |-> NoRow]
  /\ refresh = [p \in Pair |-> NoRow]
  /\ key = [k \in Key |-> "none"]
  /\ deleted_applications = {}
  /\ request = [r \in Request |-> NoRow]
  /\ update = [q \in Update |-> NoRow]
  /\ left_at = [x \in User \X Organization \X Role |-> NoRow]
  /\ revoked_at = [k \in Key |-> NoRow]
  /\ ended = {} /\ escaped = {} /\ forked = {}

-----------------------------------------------------------------------------
(* expired_at > statement_timestamp() *)
IsLive(row) == row # NoRow /\ row.expired_at > now

Live(rows) == {p \in Pair : IsLive(rows[p])}
LiveIn(rows, u, s) == {p \in Live(rows) : rows[p].user = u /\ rows[p].session = s}

InFlight == {r \in Request : request[r] # NoRow}
Running == {q \in Update : update[q] # NoRow}

(* Requests that will insert tokens, unless they fail. *)
SigningIn ==
  {r \in InFlight :
     \/ request[r].step \in {"verified", "minted"}
     \/ request[r].action = "auth:refresh" /\ MayRefresh(request[r].biscuit, now)}

(* A refresh holds the row of its token from its UPDATE to its commit. *)
Held ==
  {p \in Pair : \E r \in InFlight : request[r].step = "minted"
                                       /\ request[r].biscuit.id = p}

Locked == {p \in Held : IsLive(refresh[p])}

SessionsOf(u) ==
  {user_access[p].session : p \in {q \in Pair : user_access[q] # NoRow
                                                  /\ user_access[q].user = u}}
    \cup {refresh[p].session : p \in {q \in Pair : refresh[q] # NoRow
                                                    /\ refresh[q].user = u}}

Opening(u) ==
  {request[r].biscuit.session : r \in {q \in SigningIn : request[q].biscuit.user = u}}

IsNew(s) ==
  /\ s \notin ended
  /\ \A u \in User : s \notin SessionsOf(u)
  /\ \A r \in InFlight : request[r].biscuit.session # s
  /\ \A q \in Running : s \notin update[q].sessions

Put(r, row) == request' = [request EXCEPT ![r] = row]
Leave(r) == request' = [request EXCEPT ![r] = NoRow]

(* It answers without an effect: it is denied, a statement fails, its       *)
(* transaction rolls back, or it only reads.                                *)
Return(r) ==
  /\ r \in InFlight
  /\ Leave(r)
  /\ UNCHANGED <<now, people, tokens, keys, deleted_applications, sessions>>

-----------------------------------------------------------------------------
(* The users registered at time 0 and were sent a link. *)
VerifyEmail(u) ==
  /\ now <= LinkLifetime
  /\ u \notin verified
  /\ verified' = verified \cup {u}
  /\ UNCHANGED <<now, member, left_at, tokens, keys,
                 deleted_applications, request, sessions>>

(* login(): the lookup finds a verified user, and the password is right. *)
LoggingIn(u, s) ==
  [step |-> "verified", action |-> "auth:login", target |-> NoRow, at |-> 0,
   biscuit |-> [Anonymous EXCEPT !.user = u, !.session = s]]

LookUp(r, u) ==
  /\ request[r] = NoRow
  /\ u \in verified
  /\ \E s \in Session : IsNew(s) /\ Put(r, LoggingIn(u, s))
  /\ UNCHANGED <<now, people, tokens, keys, deleted_applications, sessions>>

(* do_login() reads the user's roles and mints both biscuits ... *)
Minted(r, id) ==
  [request[r] EXCEPT !.step = "minted", !.at = now, !.biscuit.id = id,
                     !.biscuit.roles = member[request[r].biscuit.user]]

SignIn(r) ==
  /\ r \in InFlight
  /\ request[r].step = "verified"
  /\ Put(r, Minted(r, NoRow))
  /\ UNCHANGED <<now, people, tokens, keys, deleted_applications, sessions>>

(* ... after refresh() has expired the token, which waits for whoever has   *)
(* locked its row.  Nobody looks whether there was a row to expire.         *)
Exchange(r) ==
  LET row == request[r]
      p == row.biscuit.id
  IN /\ r \in InFlight
     /\ row.step = "authenticated" /\ row.action = "auth:refresh"
     /\ MayRefresh(row.biscuit, now)
     /\ p \notin Locked
     /\ Put(r, Minted(r, IF IsLive(refresh[p]) THEN p ELSE NoRow))
     /\ forked' = IF IsLive(refresh[p]) THEN forked ELSE forked \cup {row.biscuit.session}
     /\ UNCHANGED <<now, people, tokens, keys, deleted_applications, update, ended, escaped>>

(* A pair that no row, no biscuit in flight and no running UPDATE has. *)
IsFree(p) ==
  /\ user_access[p] = NoRow /\ refresh[p] = NoRow
  /\ \A r \in InFlight : request[r].biscuit.id # p
  /\ \A q \in Running : p \notin update[q].rows

Expired(row, at) == [row EXCEPT !.expired_at = at]

(* The refresh commits without the update of its token. *)
IssueOnly(r, p) ==
  LET row == request[r]
      b == row.biscuit
  IN /\ r \in InFlight
     /\ row.step = "minted"
     /\ IsFree(p)
     /\ user_access' = [user_access EXCEPT ![p] =
          [user |-> b.user, session |-> b.session, roles |-> b.roles,
           expired_at |-> row.at + AccessLifetime]]
     /\ refresh' = [refresh EXCEPT ![p] =
          [user |-> b.user, session |-> b.session, expired_at |-> row.at + RefreshLifetime]]
     /\ Leave(r)
     /\ UNCHANGED <<now, people, keys, deleted_applications, sessions>>

(* ... and inserts the rows; a refresh commits its UPDATE with them. *)
Issue(r, p) ==
  LET row == request[r]
      b == row.biscuit
  IN /\ r \in InFlight
     /\ row.step = "minted"
     /\ IsFree(p)
     /\ user_access' = [user_access EXCEPT ![p] =
          [user |-> b.user, session |-> b.session, roles |-> b.roles,
           expired_at |-> row.at + AccessLifetime]]
     /\ refresh' = [q \in Pair |->
          IF q = p THEN [user |-> b.user, session |-> b.session,
                         expired_at |-> row.at + RefreshLifetime]
          ELSE IF q = b.id THEN Expired(refresh[q], row.at) ELSE refresh[q]]
     /\ Leave(r)
     /\ UNCHANGED <<now, people, keys, deleted_applications, sessions>>

-----------------------------------------------------------------------------
(* What the middleware lets through. *)
LiveAccess ==
  {UserAccess(p, user_access[p].user, user_access[p].session, user_access[p].roles,
              user_access[p].expired_at) : p \in Live(user_access)}

(* The middleware's query forgets that tokens expire. *)
StoredRefresh ==
  {Refresh(p, refresh[p].user, refresh[p].session, now + RefreshLifetime) :
     p \in {q \in Pair : refresh[q] # NoRow}}

LiveRefresh ==
  {Refresh(p, refresh[p].user, refresh[p].session, refresh[p].expired_at) :
     p \in Live(refresh)}

LiveService ==
  {ServiceAccess(k, Scope[k]) :
     k \in {x \in Key : Scope[x] \in Organization /\ key[x] = "active"}}

LiveSecrets ==
  {Attenuated(ServiceAccess(k, OwnerOf[Scope[k]]), Scope[k], now + SecretLifetime) :
     k \in {x \in Key : Scope[x] \in Application \ deleted_applications
                          /\ key[x] = "active"}}

Accepted ==
  LiveAccess \cup LiveRefresh \cup LiveService \cup LiveSecrets
    \cup {b \in {MasterAccess} : MasterEnabled}

(* The session refreshes while it is being ended. *)
Overtaking(s) ==
  [q \in Update |->
     IF q \in Running /\ s \in update[q].sessions
     THEN [update[q] EXCEPT !.late = @ \cup {s}] ELSE update[q]]

Authenticate(r, biscuit, action, target) ==
  /\ request[r] = NoRow
  /\ biscuit \in Accepted
  /\ Put(r, [step |-> "authenticated", biscuit |-> biscuit, action |-> action,
             target |-> target, at |-> 0])
  /\ update' = IF action = "auth:refresh" THEN Overtaking(biscuit.session) ELSE update
  /\ UNCHANGED <<now, people, tokens, keys, deleted_applications, ended, escaped, forked>>

(* Requests that are denied at once, and change nothing, are left out. *)
Promising(biscuit, action, target) ==
  IF action = "auth:refresh" THEN MayRefresh(biscuit, now)
  ELSE Authorized(biscuit, action, target, now)

(* The handler starts once the body has arrived.  A handler for an          *)
(* application looks it up first.                                           *)
Grant(r) ==
  LET row == request[r]
  IN /\ r \in InFlight
     /\ row.step = "authenticated" /\ row.action # "auth:refresh"
     /\ row.target \notin deleted_applications
     /\ Authorized(row.biscuit, row.action, row.target, now)
     /\ Put(r, [row EXCEPT !.step = "granted", !.at = now])
     /\ UNCHANGED <<now, people, tokens, keys, deleted_applications, sessions>>

Granted(r, action) ==
  r \in InFlight /\ request[r].step = "granted" /\ request[r].action = action

-----------------------------------------------------------------------------
(* The UPDATE starts.  ss are the sessions that the request means to end. *)
Start(u, ss, rows, verifies) ==
  \E q \in Update \ Running :
    update' = [update EXCEPT ![q] =
      [user |-> u, rows |-> rows, at |-> now, verifies |-> verifies,
       sessions |-> ss, late |-> ss \cap Opening(u)]]

(* logout(): the tokens of the caller's session. *)
Logout(r) ==
  LET u == request[r].biscuit.user
      s == request[r].biscuit.session
  IN /\ Granted(r, "auth:logout")
     /\ Start(u, {s}, LiveIn(user_access, u, s) \cup LiveIn(refresh, u, s), {})
     /\ Leave(r)
     /\ UNCHANGED <<now, people, tokens, keys, deleted_applications, ended, escaped, forked>>

(* do_change_password(): in "user__id = $1 AND expired_at IS NULL OR        *)
(* expired_at > ...", AND binds tighter, so that the rows of every user     *)
(* expire; a service token has no expired_at.                               *)
DoChangePassword(u, verifies) ==
  /\ Start(u, SessionsOf(u) \cup Opening(u), Live(user_access) \cup Live(refresh), verifies)
  /\ UNCHANGED <<now, people, tokens, keys, deleted_applications, ended, escaped, forked>>

ChangePassword(r) ==
  /\ Granted(r, "auth:change_password")
  /\ DoChangePassword(request[r].biscuit.user, {})
  /\ Leave(r)

(* begin_reset_password() stores nothing and can be asked for at any time:  *)
(* whoever reads the user's mail has a link that is valid, and can use it   *)
(* until it expires.                                                        *)
Links(u) == {sent \in 0 .. now : now <= sent + LinkLifetime}

(* The user is verified when its transaction commits. *)
ResetPassword(u) ==
  /\ Links(u) # {}
  /\ DoChangePassword(u, {u})
  /\ UNCHANGED request

(* SET expired_at = statement_timestamp(), where a row is still live at the *)
(* time of the statement.                                                   *)
ExpireAll(rows, statement) ==
  [p \in Pair |->
     IF p \in statement.rows /\ rows[p] # NoRow /\ rows[p].expired_at > statement.at
     THEN Expired(rows[p], statement.at) ELSE rows[p]]

(* The refresh tokens are forgotten. *)
EndAccess(q) ==
  LET statement == update[q]
  IN /\ q \in Running
     /\ user_access' = ExpireAll(user_access, statement)
     /\ verified' = verified \cup statement.verifies
     /\ ended' = ended \cup statement.sessions
     /\ escaped' = escaped \cup statement.late
     /\ update' = [update EXCEPT ![q] = NoRow]
     /\ UNCHANGED <<now, member, left_at, refresh, keys, deleted_applications, request, forked>>

(* The UPDATE has locked its rows and commits.  It waits for a refresh that *)
(* holds one of them, and then looks at that row again, but not for others. *)
(* Where it would keep a refresh or a clean-up waiting, they come later.    *)
EndSessions(q) ==
  LET statement == update[q]
  IN /\ q \in Running
     /\ \A p \in statement.rows \cap Held : refresh[p].expired_at <= statement.at
     /\ user_access' = ExpireAll(user_access, statement)
     /\ refresh' = ExpireAll(refresh, statement)
     /\ verified' = verified \cup statement.verifies
     /\ ended' = ended \cup statement.sessions
     /\ escaped' = escaped \cup statement.late
     /\ update' = [update EXCEPT ![q] = NoRow]
     /\ UNCHANGED <<now, member, left_at, keys, deleted_applications, request, forked>>

(* It fails, or its transaction rolls back. *)
FailToEnd(q) ==
  /\ q \in Running
  /\ update' = [update EXCEPT ![q] = NoRow]
  /\ UNCHANGED <<now, people, tokens, keys, deleted_applications, request,
                 ended, escaped, forked>>

-----------------------------------------------------------------------------
SetRole(u, o, role) ==
  /\ member' = [member EXCEPT ![u][o] = role]
  /\ left_at' =
       IF member[u][o] \in Role \ {role}
       THEN [left_at EXCEPT ![<<u, o, member[u][o]>>] = now] ELSE left_at

(* edit_role(): not one's own. *)
EditRole(r, u, role) ==
  LET o == request[r].target
  IN /\ Granted(r, "organization:edit_role")
     /\ request[r].biscuit.user # u
     /\ member[u][o] # NoRow
     /\ SetRole(u, o, role)
     /\ Leave(r)
     /\ UNCHANGED <<now, verified, tokens, keys, deleted_applications, sessions>>

(* A second membership in the same organization is a unique violation. *)
Invite(r, u, role) ==
  LET o == request[r].target
  IN /\ Granted(r, "organization:invite")
     /\ member[u][o] = NoRow
     /\ SetRole(u, o, role)
     /\ Leave(r)
     /\ UNCHANGED <<now, verified, tokens, keys, deleted_applications, sessions>>

Revoke(r, u) ==
  LET o == request[r].target
  IN /\ Granted(r, "organization:revoke")
     /\ member[u][o] # NoRow
     /\ SetRole(u, o, NoRow)
     /\ Leave(r)
     /\ UNCHANGED <<now, verified, tokens, keys, deleted_applications, sessions>>

CreateKey(r, k) ==
  /\ \/ Granted(r, "service_token:create") \/ Granted(r, "application_secret:create")
  /\ request[r].target = Scope[k]
  /\ key[k] = "none"
  /\ key' = [key EXCEPT ![k] = "active"]
  /\ Leave(r)
  /\ UNCHANGED <<now, revoked_at, people, tokens, deleted_applications, sessions>>

(* A revoked service token is not found; a secret's deleted_at is set again. *)
DeleteKey(r, k) ==
  /\ \/ Granted(r, "service_token:delete") /\ key[k] = "active"
     \/ Granted(r, "application_secret:delete") /\ key[k] # "none"
  /\ request[r].target = Scope[k]
  /\ key' = [key EXCEPT ![k] = "revoked"]
  /\ revoked_at' = [revoked_at EXCEPT ![k] = IF @ = NoRow THEN now ELSE @]
  /\ Leave(r)
  /\ UNCHANGED <<now, people, tokens, deleted_applications, sessions>>

DeleteApplication(r) ==
  /\ Granted(r, "application:delete")
  /\ deleted_applications' = deleted_applications \cup {request[r].target}
  /\ Leave(r)
  /\ UNCHANGED <<now, people, tokens, keys, sessions>>

-----------------------------------------------------------------------------
(* DELETE FROM iam.token WHERE expired_at + $1 < statement_timestamp(): it  *)
(* waits for refreshes that hold one of these rows.                         *)
IsStale(row) == row # NoRow /\ row.expired_at + GracePeriod < now

CleanUp ==
  /\ ReportAndDelete
  /\ \E p \in Pair : IsStale(user_access[p]) \/ IsStale(refresh[p])
  /\ \A p \in Held : ~IsStale(refresh[p])
  /\ user_access' =
       [p \in Pair |-> IF IsStale(user_access[p]) THEN NoRow ELSE user_access[p]]
  /\ refresh' = [p \in Pair |-> IF IsStale(refresh[p]) THEN NoRow ELSE refresh[p]]
  /\ UNCHANGED <<now, people, keys, deleted_applications, request, sessions>>

Tick ==
  /\ now < MaxTime
  /\ now' = now + 1
  /\ UNCHANGED <<people, tokens, keys, deleted_applications, request, sessions>>

Next ==
  \/ \E r \in Request \ Calls :
       \/ \E u \in User : LookUp(r, u)
       \/ \E b \in Accepted :
            /\ Promising(b, "auth:refresh", NoRow)
            /\ Authenticate(r, b, "auth:refresh", NoRow)
       \/ SignIn(r) \/ Exchange(r)
       \/ \E p \in Pair : Issue(r, p)
  \/ \E r \in Calls :
       \/ \E b \in Accepted : \E a \in Asked[b.type] : \E t \in Targets(a) :
            Promising(b, a, t) /\ Authenticate(r, b, a, t)
       \/ Grant(r)
       \/ Logout(r) \/ ChangePassword(r) \/ DeleteApplication(r)
       \/ \E u \in User, role \in Role : EditRole(r, u, role) \/ Invite(r, u, role)
       \/ \E u \in User : Revoke(r, u)
       \/ \E k \in Key : CreateKey(r, k) \/ DeleteKey(r, k)
  \/ \E r \in Request : Return(r)
  \/ \E u \in User : VerifyEmail(u) \/ ResetPassword(u)
  \/ \E q \in Update : EndSessions(q) \/ FailToEnd(q)
  \/ CleanUp \/ Tick

Spec == Init /\ [][Next]_vars

-----------------------------------------------------------------------------
(* A session that was logged out, or whose user changed their password, has *)
(* no live token and never gets one again, unless a login or a refresh was  *)
(* in flight when the UPDATE started or came in while it was running: what  *)
(* they insert is not seen by it.  (logout and do_change_password, auth.rs) *)
EndedSessionsStayEnded ==
  \A s \in ended \ escaped :
    /\ \A p \in Pair : user_access[p] # NoRow /\ user_access[p].session = s =>
                          ~IsLive(user_access[p])
    /\ \A p \in Pair : refresh[p] # NoRow /\ refresh[p].session = s => ~IsLive(refresh[p])
    /\ \A r \in SigningIn : request[r].biscuit.session # s

(* A session has one live refresh token, as long as each of its refreshes   *)
(* found its own token still live: two requests with the same token, or one *)
(* that a logout overtook, are the only ways to a second one.  (refresh)    *)
RefreshTokensRotate ==
  \A p, q \in Live(refresh) :
    p # q /\ refresh[p].session = refresh[q].session => refresh[p].session \in forked

(* Whoever acts in an organization has had a role that allows it less than  *)
(* the lifetime of an access token ago, however often the session was       *)
(* refreshed since and however roles were changed.  (do_login, authorize)   *)
HeldAt(u, o, role, time) ==
  \/ member[u][o] = role
  \/ left_at[<<u, o, role>>] # NoRow /\ left_at[<<u, o, role>>] >= time

RightsAreRecent ==
  \A r \in InFlight :
    LET row == request[r]
    IN row.step = "granted" /\ row.biscuit.type = "user_access" /\ row.target # NoRow =>
         \E role \in AllowedRoles(row.action) :
           \E time \in 0 .. row.at :
             /\ HeldAt(row.biscuit.user, OrganizationOf(row.target), role, time)
             /\ row.at < time + AccessLifetime

(* A service token acts in its organization only, a secret on nothing but   *)
(* its application.  (authorize, and the middleware's attenuation)          *)
KeysStayInScope ==
  \A r \in InFlight :
    LET row == request[r]
    IN row.step = "granted" /\ row.biscuit.type = "service_access" =>
         IF Scope[row.biscuit.id] \in Application
         THEN row.target = Scope[row.biscuit.id]
         ELSE row.target # NoRow => OrganizationOf(row.target) = Scope[row.biscuit.id]

(* A secret that was revoked lets requests through that were on their way,  *)
(* for a second and no longer.  (delete in application_secrets.rs)          *)
SecretsFade ==
  \A r \in InFlight :
    LET row == request[r]
        k == row.biscuit.id
    IN /\ row.step = "granted"
       /\ row.biscuit.application # NoRow
       /\ revoked_at[k] # NoRow
       => row.at <= revoked_at[k] + SecretLifetime

(* "Change the password of a user." (api/src/handlers/auth.rs:696): a user  *)
(* who changes their password leaves the tokens of the others alone.        *)
OthersStaySignedIn ==
  [][\A q \in Running :
       update'[q] = NoRow =>
         \A p \in Live(refresh) :
           refresh[p].user # update[q].user => refresh'[p] = refresh[p]]_vars
=============================================================================
