--------------------------- MODULE CredentialsProofs ---------------------------
(***************************************************************************)
(* Sessions, keys and roles, for any numbers of users, organizations,      *)
(* applications, tokens and requests, and for all lifetimes.               *)
(***************************************************************************)
EXTENDS Credentials, TLAPS

(* What the biscuit of a request can say. *)
WellFormed(b) ==
  /\ b.type \in {"password", "user_access", "refresh"} => b.user \in User /\ b.session \in Session
  /\ b.type \in {"user_access", "refresh"} => b.expires \in Nat
  /\ b.type \in {"password", "refresh"} => b.id \in Pair \cup {NoRow}
  /\ b.type = "service_access" =>
       /\ b.id \in Key /\ b.user = NoRow /\ b.session = NoRow
       /\ Scope[b.id] \in Organization => b.organization = Scope[b.id] /\ b.application = NoRow
       /\ Scope[b.id] \in Application => b.application = Scope[b.id] /\ b.expires \in Nat
  /\ b.type = "master_access" => b.user = NoRow /\ b.session = NoRow
  /\ b.type # "service_access" => b.application = NoRow

(* What the steps of a request rely on. *)
Proper(row) ==
  /\ WellFormed(row.biscuit)
  /\ row.step = "verified" => row.biscuit.type = "password" /\ row.biscuit.id = NoRow
  /\ row.step = "minted" => row.biscuit.type \in {"password", "refresh"}
  /\ row.biscuit.type = "password" => row.step \in {"verified", "minted"} /\ row.biscuit.id = NoRow
  /\ row.action = "auth:refresh" => row.biscuit.type = "refresh"
  /\ row.step = "authenticated" /\ row.action = "auth:refresh" => row.biscuit.id \in Pair
  /\ row.step = "authenticated" /\ row.action # "auth:refresh" =>
       row.action \in Action /\ row.target \in Targets(row.action)
  /\ row.step = "granted" =>
       /\ row.action \in Action /\ row.target \in Targets(row.action)
       /\ Authorized(row.biscuit, row.action, row.target, row.at)

AllProper == \A r \in InFlight : Proper(request[r])

(* The token that a refresh has updated is there until the refresh commits. *)
Holding ==
  \A r \in InFlight :
    request[r].step = "minted" =>
      /\ request[r].at <= now
      /\ request[r].biscuit.id # NoRow => refresh[request[r].biscuit.id] # NoRow

Inv == TypeOK /\ AllProper /\ Holding

-----------------------------------------------------------------------------
LEMMA RowsAreTyped ==
  ASSUME TypeOK, NEW p \in Pair
  PROVE  /\ user_access[p] # NoRow => user_access[p] \in AccessRow
         /\ refresh[p] # NoRow => refresh[p] \in RefreshRow
BY DEF TypeOK

LEMMA RequestsAreTyped ==
  ASSUME TypeOK, NEW r \in InFlight
  PROVE  /\ r \in Request /\ request[r] \in RequestRow /\ request[r] # NoRow
         /\ request[r].biscuit \in Biscuit
         /\ request[r].at \in Nat
BY DEF TypeOK, InFlight, RequestRow

LEMMA AnonymousIsTyped ==
  /\ Anonymous \in Biscuit
  /\ Anonymous.id = NoRow /\ Anonymous.user = NoRow /\ Anonymous.session = NoRow
  /\ Anonymous.application = NoRow /\ Anonymous.type = "password"
BY DEF Anonymous, NoRoles, Biscuit, Roles

LEMMA UserAccessIsTyped ==
  ASSUME NEW p \in Pair, NEW u \in User, NEW s \in Session, NEW roles \in Roles,
         NEW expires \in Nat, NEW b, b = UserAccess(p, u, s, roles, expires)
  PROVE  /\ b \in Biscuit /\ WellFormed(b)
         /\ b.type = "user_access" /\ b.user = u /\ b.session = s
         /\ b.roles = roles /\ b.expires = expires
<1>1. /\ b \in Biscuit /\ b.type = "user_access" /\ b.user = u /\ b.session = s
      /\ b.roles = roles /\ b.expires = expires /\ b.application = NoRow
  BY AnonymousIsTyped DEF UserAccess, Biscuit, TokenType
<1>. QED
  BY <1>1 DEF WellFormed

LEMMA RefreshIsTyped ==
  ASSUME NEW p \in Pair, NEW u \in User, NEW s \in Session, NEW expires \in Nat,
         NEW b, b = Refresh(p, u, s, expires)
  PROVE  /\ b \in Biscuit /\ WellFormed(b)
         /\ b.type = "refresh" /\ b.id = p /\ b.user = u /\ b.session = s
         /\ b.expires = expires
<1>1. /\ b \in Biscuit /\ b.type = "refresh" /\ b.id = p /\ b.user = u /\ b.session = s
      /\ b.expires = expires /\ b.application = NoRow
  BY AnonymousIsTyped DEF Refresh, Biscuit, TokenType
<1>. QED
  BY <1>1 DEF WellFormed

LEMMA ServiceAccessIsTyped ==
  ASSUME NEW k \in Key, NEW o \in Organization, NEW b, b = ServiceAccess(k, o)
  PROVE  /\ b \in Biscuit
         /\ b.type = "service_access" /\ b.id = k /\ b.user = NoRow /\ b.session = NoRow
         /\ b.organization = o /\ b.application = NoRow
BY AnonymousIsTyped DEF ServiceAccess, Biscuit, TokenType

LEMMA ScopesAreApart ==
  ASSUME NEW k \in Key
  PROVE  /\ Scope[k] \in Organization \cup Application
         /\ ~(Scope[k] \in Organization /\ Scope[k] \in Application)
         /\ Scope[k] \in Application => OwnerOf[Scope[k]] \in Organization
BY AuthorizationAssumption

LEMMA LiveServiceIsTyped ==
  ASSUME NEW b \in LiveService
  PROVE  b \in Biscuit /\ WellFormed(b) /\ b.type = "service_access" /\ b.id \in Key
         /\ b.application = NoRow
<1>1. PICK k \in Key : Scope[k] \in Organization /\ b = ServiceAccess(k, Scope[k])
  BY DEF LiveService
<1>. QED
  BY <1>1, ServiceAccessIsTyped, ScopesAreApart DEF WellFormed

LEMMA LiveSecretsAreTyped ==
  ASSUME TypeOK, NEW b \in LiveSecrets
  PROVE  /\ b \in Biscuit /\ WellFormed(b) /\ b.type = "service_access"
         /\ b.id \in Key /\ key[b.id] = "active" /\ b.expires = now + SecretLifetime
<1>1. PICK k \in Key : /\ Scope[k] \in Application /\ key[k] = "active"
                       /\ b = Attenuated(ServiceAccess(k, OwnerOf[Scope[k]]), Scope[k],
                                         now + SecretLifetime)
  BY DEF LiveSecrets
<1>2. PICK c \in Biscuit : /\ c = ServiceAccess(k, OwnerOf[Scope[k]])
                          /\ c.type = "service_access" /\ c.id = k
                          /\ c.user = NoRow /\ c.session = NoRow
  BY <1>1, ServiceAccessIsTyped, ScopesAreApart
<1>3. now + SecretLifetime \in Nat
  BY CredentialsAssumption DEF TypeOK
<1>4. /\ b \in Biscuit /\ b.type = "service_access" /\ b.id = k
      /\ b.user = NoRow /\ b.session = NoRow
      /\ b.application = Scope[k] /\ b.expires = now + SecretLifetime
  BY <1>1, <1>2, <1>3 DEF Attenuated, Biscuit
<1>. QED
  BY <1>1, <1>3, <1>4, ScopesAreApart DEF WellFormed

LEMMA LiveAccessIsTyped ==
  ASSUME TypeOK, NEW b \in LiveAccess
  PROVE  /\ b \in Biscuit /\ WellFormed(b) /\ b.type = "user_access"
         /\ \E p \in Pair : /\ IsLive(user_access[p]) /\ b.user = user_access[p].user
                            /\ b.session = user_access[p].session
                            /\ b.roles = user_access[p].roles
                            /\ b.expires = user_access[p].expired_at
<1>1. PICK p \in Pair : /\ IsLive(user_access[p])
                        /\ b = UserAccess(p, user_access[p].user, user_access[p].session,
                                          user_access[p].roles, user_access[p].expired_at)
  BY DEF LiveAccess, Live
<1>2. user_access[p] \in AccessRow
  BY <1>1, RowsAreTyped DEF IsLive
<1>. QED
  BY <1>1, <1>2, UserAccessIsTyped DEF AccessRow

LEMMA LiveRefreshIsTyped ==
  ASSUME TypeOK, NEW b \in LiveRefresh
  PROVE  /\ b \in Biscuit /\ WellFormed(b) /\ b.type = "refresh" /\ b.id \in Pair
         /\ IsLive(refresh[b.id]) /\ b.user = refresh[b.id].user
         /\ b.session = refresh[b.id].session /\ b.expires = refresh[b.id].expired_at
<1>1. PICK p \in Pair : /\ IsLive(refresh[p])
                        /\ b = Refresh(p, refresh[p].user, refresh[p].session,
                                       refresh[p].expired_at)
  BY DEF LiveRefresh, Live
<1>2. refresh[p] \in RefreshRow
  BY <1>1, RowsAreTyped DEF IsLive
<1>. QED
  BY <1>1, <1>2, RefreshIsTyped DEF RefreshRow

LEMMA AcceptedIsTyped ==
  ASSUME TypeOK, NEW b \in Accepted
  PROVE  /\ b \in Biscuit /\ WellFormed(b) /\ b.type \in TokenType
         /\ b.type = "user_access" => b \in LiveAccess
         /\ b.type = "refresh" => b \in LiveRefresh
         /\ b.application # NoRow => b \in LiveSecrets
<1>1. CASE b \in LiveAccess
  BY <1>1, LiveAccessIsTyped DEF TokenType, WellFormed
<1>2. CASE b \in LiveRefresh
  BY <1>2, LiveRefreshIsTyped DEF TokenType, WellFormed
<1>3. CASE b \in LiveService
  BY <1>3, LiveServiceIsTyped DEF TokenType
<1>4. CASE b \in LiveSecrets
  BY <1>4, LiveSecretsAreTyped DEF TokenType
<1>5. CASE b = MasterAccess
  BY <1>5 DEF MasterAccess, Anonymous, NoRoles, Roles, Biscuit, TokenType, WellFormed
<1>. QED
  BY <1>1, <1>2, <1>3, <1>4, <1>5 DEF Accepted

-----------------------------------------------------------------------------
(* Requests, one step after the other. *)
LEMMA PutIsTyped ==
  ASSUME TypeOK, AllProper, NEW r \in Request, NEW row \in RequestRow, Proper(row), Put(r, row)
  PROVE  /\ request' \in [Request -> RequestRow \cup {NoRow}] /\ AllProper'
         /\ InFlight' = InFlight \cup {r} /\ request'[r] = row
         /\ \A s \in Request : s # r => request'[s] = request[s]
<1>1. row # NoRow
  BY CredentialsAssumption
<1>2. /\ request' \in [Request -> RequestRow \cup {NoRow}] /\ request'[r] = row
      /\ \A s \in Request : s # r => request'[s] = request[s]
  BY DEF Put, TypeOK
<1>. QED
  BY <1>1, <1>2 DEF AllProper, InFlight

LEMMA LeaveIsTyped ==
  ASSUME TypeOK, AllProper, NEW r \in Request, Leave(r)
  PROVE  /\ request' \in [Request -> RequestRow \cup {NoRow}] /\ AllProper'
         /\ InFlight' = InFlight \ {r}
         /\ \A s \in Request : s # r => request'[s] = request[s]
<1>1. /\ request' \in [Request -> RequestRow \cup {NoRow}] /\ request'[r] = NoRow
      /\ \A s \in Request : s # r => request'[s] = request[s]
  BY DEF Leave, TypeOK
<1>. QED
  BY <1>1 DEF AllProper, InFlight

LEMMA LoginIsProper ==
  ASSUME NEW u \in User, NEW s \in Session, NEW row, row = LoggingIn(u, s)
  PROVE  /\ row \in RequestRow /\ Proper(row)
         /\ row.step = "verified" /\ row.action = "auth:login"
         /\ row.biscuit.user = u /\ row.biscuit.session = s
         /\ row.biscuit.type = "password"
<1>. DEFINE b == [Anonymous EXCEPT !.user = u, !.session = s]
<1>1. /\ b \in Biscuit /\ b.user = u /\ b.session = s /\ b.type = "password"
      /\ b.id = NoRow /\ b.application = NoRow
  BY AnonymousIsTyped DEF Biscuit
<1>2. /\ row.step = "verified" /\ row.action = "auth:login" /\ row.target = NoRow
      /\ row.at = 0 /\ row.biscuit = b
  BY DEF LoggingIn
<1>. HIDE DEF b
<1>3. row \in RequestRow
  BY <1>1 DEF LoggingIn, RequestRow, b
<1>. QED
  BY <1>1, <1>2, <1>3 DEF Proper, WellFormed

LEMMA MintedIsProper ==
  ASSUME TypeOK, NEW r \in InFlight, Proper(request[r]),
         request[r].biscuit.type \in {"password", "refresh"},
         NEW id \in Pair \cup {NoRow}, request[r].biscuit.type = "password" => id = NoRow
  PROVE  /\ Minted(r, id) \in RequestRow /\ Proper(Minted(r, id))
         /\ Minted(r, id).step = "minted" /\ Minted(r, id).at = now
         /\ Minted(r, id).action = request[r].action
         /\ Minted(r, id).biscuit.id = id
         /\ Minted(r, id).biscuit.type = request[r].biscuit.type
         /\ Minted(r, id).biscuit.user = request[r].biscuit.user
         /\ Minted(r, id).biscuit.session = request[r].biscuit.session
         /\ Minted(r, id).biscuit.roles = member[request[r].biscuit.user]
<1>. DEFINE b == [request[r].biscuit EXCEPT !.id = id,
                                            !.roles = member[request[r].biscuit.user]]
            row == [request[r] EXCEPT !.step = "minted", !.at = now, !.biscuit = b]
<1>1. /\ request[r].biscuit.user \in User /\ request[r].biscuit.session \in Session
      /\ request[r].biscuit.application = NoRow
      /\ request[r].biscuit.type = "refresh" => request[r].biscuit.expires \in Nat
  BY DEF Proper, WellFormed
<1>2. request[r] \in RequestRow /\ request[r].biscuit \in Biscuit
  BY RequestsAreTyped
<1>3. /\ b \in Biscuit /\ b.id = id /\ b.type = request[r].biscuit.type
      /\ b.user = request[r].biscuit.user /\ b.session = request[r].biscuit.session
      /\ b.application = NoRow /\ b.expires = request[r].biscuit.expires
      /\ b.roles = member[request[r].biscuit.user]
  BY <1>1, <1>2, ZenonT(30) DEF Biscuit, TypeOK
<1>4. Minted(r, id) = row
  BY <1>2 DEF Minted, RequestRow, Biscuit
<1>. HIDE DEF b
<1>5. /\ row \in RequestRow /\ row.step = "minted" /\ row.at = now /\ row.biscuit = b
      /\ row.action = request[r].action
  BY <1>2, <1>3 DEF RequestRow, TypeOK
<1>. HIDE DEF row
<1>6. Proper(row)
  <2>1. WellFormed(b)
    BY <1>1, <1>3 DEF WellFormed
  <2>2. request[r].action = "auth:refresh" => b.type = "refresh"
    BY <1>3 DEF Proper
  <2>. QED
    BY <1>3, <1>5, <2>1, <2>2 DEF Proper
<1>. QED
  BY <1>3, <1>4, <1>5, <1>6

LEMMA AuthenticatedIsProper ==
  ASSUME TypeOK, NEW b \in Accepted, NEW action, NEW target, NEW row,
         row = [step |-> "authenticated", biscuit |-> b, action |-> action,
                target |-> target, at |-> 0],
         \/ action = "auth:refresh" /\ target = NoRow /\ b.type = "refresh"
         \/ action \in Action /\ target \in Targets(action)
  PROVE  row \in RequestRow /\ Proper(row)
         /\ row.step = "authenticated" /\ row.biscuit = b /\ row.action = action
<1>1. row.step = "authenticated" /\ row.biscuit = b /\ row.action = action /\ row.target = target
      /\ row.at = 0
  OBVIOUS
<1>2. /\ b \in Biscuit /\ WellFormed(b) /\ b.type \in TokenType
      /\ b.type = "refresh" => b \in LiveRefresh
  BY AcceptedIsTyped
<1>3. b.type # "password"
  BY <1>2 DEF TokenType
<1>4. action = "auth:refresh" => action \notin Action
  BY DEF Action, Personal, OnApplication, OnOrganization
<1>5. row \in RequestRow
  BY <1>2 DEF RequestRow, Targets
<1>6. b.type = "refresh" => b.id \in Pair
  BY <1>2, LiveRefreshIsTyped
<1>. QED
  BY <1>1, <1>2, <1>3, <1>4, <1>5, <1>6 DEF Proper

LEMMA GrantedIsProper ==
  ASSUME TypeOK, NEW r \in InFlight, Proper(request[r]), Grant(r)
  PROVE  /\ [request[r] EXCEPT !.step = "granted", !.at = now] \in RequestRow
         /\ Proper([request[r] EXCEPT !.step = "granted", !.at = now])
<1>. DEFINE row == [request[r] EXCEPT !.step = "granted", !.at = now]
<1>1. request[r] \in RequestRow
  BY RequestsAreTyped
<1>2. /\ row \in RequestRow /\ row.step = "granted" /\ row.at = now
      /\ row.biscuit = request[r].biscuit /\ row.action = request[r].action
      /\ row.target = request[r].target
  BY <1>1 DEF RequestRow, TypeOK
<1>3. /\ request[r].step = "authenticated" /\ request[r].action # "auth:refresh"
      /\ Authorized(request[r].biscuit, request[r].action, request[r].target, now)
  BY DEF Grant
<1>. HIDE DEF row
<1>4. /\ WellFormed(row.biscuit) /\ row.biscuit.type # "password"
      /\ row.action \in Action /\ row.target \in Targets(row.action)
  BY <1>2, <1>3 DEF Proper
<1>5. Proper(row)
  BY <1>2, <1>3, <1>4 DEF Proper
<1>. QED
  BY <1>2, <1>5 DEF row

(* What a handler that was granted its action can rely on. *)
LEMMA GrantedIsTyped ==
  ASSUME Inv, NEW r \in Request, NEW action \in Action, Granted(r, action)
  PROVE  /\ r \in InFlight /\ request[r].step = "granted"
         /\ request[r].target \in Targets(action)
         /\ action \in {"auth:logout", "auth:change_password"} =>
              request[r].biscuit.user \in User /\ request[r].biscuit.session \in Session
<1>1. /\ r \in InFlight /\ request[r].step = "granted" /\ request[r].action = action
  BY DEF Granted
<1>2. /\ WellFormed(request[r].biscuit)
      /\ request[r].target \in Targets(action)
      /\ Authorized(request[r].biscuit, action, request[r].target, request[r].at)
  BY <1>1 DEF Inv, AllProper, Proper
<1>3. action \in {"auth:logout", "auth:change_password"} =>
        request[r].biscuit.type = "user_access"
  BY <1>2 DEF Authorized, Personal
<1>. QED
  BY <1>1, <1>2, <1>3 DEF WellFormed

-----------------------------------------------------------------------------
(* Tokens that are not new: there are fewer of them, or they end earlier. *)
Fades(old, new) ==
  \A p \in Pair : new[p] # NoRow =>
    /\ old[p] # NoRow /\ new[p].user = old[p].user /\ new[p].session = old[p].session
    /\ new[p].expired_at <= old[p].expired_at

SameRoles ==
  \A p \in Pair : user_access'[p] # NoRow => user_access'[p].roles = user_access[p].roles

TokensFade == Fades(user_access, user_access') /\ Fades(refresh, refresh') /\ SameRoles

TokensTyped ==
  /\ user_access \in [Pair -> AccessRow \cup {NoRow}]
  /\ refresh \in [Pair -> RefreshRow \cup {NoRow}]

LEMMA ExpiredAccess ==
  ASSUME NEW row \in AccessRow, NEW at \in Nat
  PROVE  /\ Expired(row, at) \in AccessRow /\ Expired(row, at) # NoRow
         /\ Expired(row, at).user = row.user /\ Expired(row, at).session = row.session
         /\ Expired(row, at).roles = row.roles /\ Expired(row, at).expired_at = at
<1>1. Expired(row, at) \in AccessRow
  BY DEF Expired, AccessRow
<1>. QED
  BY <1>1, CredentialsAssumption DEF Expired, AccessRow

LEMMA ExpiredRefresh ==
  ASSUME NEW row \in RefreshRow, NEW at \in Nat
  PROVE  /\ Expired(row, at) \in RefreshRow /\ Expired(row, at) # NoRow
         /\ Expired(row, at).user = row.user /\ Expired(row, at).session = row.session
         /\ Expired(row, at).expired_at = at
<1>1. Expired(row, at) \in RefreshRow
  BY DEF Expired, RefreshRow
<1>. QED
  BY <1>1, CredentialsAssumption DEF Expired, RefreshRow

(* A row that an UPDATE ends, or leaves alone.                              *)
LEMMA ExpireAllAccess ==
  ASSUME TypeOK, NEW statement \in UpdateRow, user_access' = ExpireAll(user_access, statement)
  PROVE  /\ user_access' \in [Pair -> AccessRow \cup {NoRow}]
         /\ Fades(user_access, user_access') /\ SameRoles
         /\ \A p \in statement.rows :
              user_access'[p] # NoRow => user_access'[p].expired_at <= statement.at
<1>1. statement.at \in Nat /\ statement.rows \subseteq Pair
  BY DEF UpdateRow
<1>2. ASSUME NEW p \in Pair
      PROVE  /\ user_access'[p] \in AccessRow \cup {NoRow}
             /\ user_access'[p] # NoRow =>
                  /\ user_access[p] # NoRow
                  /\ user_access'[p].user = user_access[p].user
                  /\ user_access'[p].session = user_access[p].session
                  /\ user_access'[p].roles = user_access[p].roles
                  /\ user_access'[p].expired_at <= user_access[p].expired_at
                  /\ p \in statement.rows => user_access'[p].expired_at <= statement.at
  <2>1. user_access[p] # NoRow => user_access[p] \in AccessRow /\ user_access[p].expired_at \in Nat
    BY RowsAreTyped DEF AccessRow
  <2>2. CASE /\ p \in statement.rows /\ user_access[p] # NoRow
             /\ user_access[p].expired_at > statement.at
    <3>1. user_access'[p] = Expired(user_access[p], statement.at)
      BY <2>2 DEF ExpireAll
    <3>2. user_access[p] \in AccessRow /\ user_access[p].expired_at \in Nat
      BY <2>1, <2>2
    <3>3. /\ user_access'[p] \in AccessRow /\ user_access'[p] # NoRow
          /\ user_access'[p].user = user_access[p].user /\ user_access'[p].session = user_access[p].session
          /\ user_access'[p].roles = user_access[p].roles
          /\ user_access'[p].expired_at = statement.at
      BY <1>1, <3>1, <3>2, ExpiredAccess
    <3>. QED
      BY <1>1, <2>2, <3>2, <3>3
  <2>3. CASE ~ /\ p \in statement.rows /\ user_access[p] # NoRow
               /\ user_access[p].expired_at > statement.at
    <3>1. user_access'[p] = user_access[p]
      BY <2>3 DEF ExpireAll
    <3>. QED
      BY <1>1, <2>1, <2>3, <3>1
  <2>. QED
    BY <2>2, <2>3
<1>3. user_access' \in [Pair -> AccessRow \cup {NoRow}]
  BY <1>2 DEF ExpireAll
<1>. QED
  BY <1>1, <1>2, <1>3 DEF Fades, SameRoles

LEMMA ExpireAllRefresh ==
  ASSUME TypeOK, NEW statement \in UpdateRow, refresh' = ExpireAll(refresh, statement)
  PROVE  /\ refresh' \in [Pair -> RefreshRow \cup {NoRow}]
         /\ Fades(refresh, refresh')
         /\ \A p \in statement.rows :
              refresh'[p] # NoRow => refresh'[p].expired_at <= statement.at
         /\ \A p \in Pair : refresh'[p] = NoRow <=> refresh[p] = NoRow
<1>1. statement.at \in Nat /\ statement.rows \subseteq Pair
  BY DEF UpdateRow
<1>2. ASSUME NEW p \in Pair
      PROVE  /\ refresh'[p] \in RefreshRow \cup {NoRow}
             /\ refresh'[p] = NoRow <=> refresh[p] = NoRow
             /\ refresh'[p] # NoRow =>
                  /\ refresh'[p].user = refresh[p].user
                  /\ refresh'[p].session = refresh[p].session
                  /\ refresh'[p].expired_at <= refresh[p].expired_at
                  /\ p \in statement.rows => refresh'[p].expired_at <= statement.at
  <2>1. refresh[p] # NoRow => refresh[p] \in RefreshRow /\ refresh[p].expired_at \in Nat
    BY RowsAreTyped DEF RefreshRow
  <2>2. CASE /\ p \in statement.rows /\ refresh[p] # NoRow
             /\ refresh[p].expired_at > statement.at
    <3>1. refresh'[p] = Expired(refresh[p], statement.at)
      BY <2>2 DEF ExpireAll
    <3>2. refresh[p] \in RefreshRow /\ refresh[p].expired_at \in Nat
      BY <2>1, <2>2
    <3>3. /\ refresh'[p] \in RefreshRow /\ refresh'[p] # NoRow
          /\ refresh'[p].user = refresh[p].user /\ refresh'[p].session = refresh[p].session
          /\ refresh'[p].expired_at = statement.at
      BY <1>1, <3>1, <3>2, ExpiredRefresh
    <3>. QED
      BY <1>1, <2>2, <3>2, <3>3
  <2>3. CASE ~ /\ p \in statement.rows /\ refresh[p] # NoRow
               /\ refresh[p].expired_at > statement.at
    <3>1. refresh'[p] = refresh[p]
      BY <2>3 DEF ExpireAll
    <3>. QED
      BY <1>1, <2>1, <2>3, <3>1
  <2>. QED
    BY <2>2, <2>3
<1>3. refresh' \in [Pair -> RefreshRow \cup {NoRow}]
  BY <1>2 DEF ExpireAll
<1>. QED
  BY <1>1, <1>2, <1>3 DEF Fades

LEMMA SameTokensFade ==
  ASSUME TypeOK
  PROVE  /\ UNCHANGED user_access => Fades(user_access, user_access') /\ SameRoles
         /\ UNCHANGED refresh => Fades(refresh, refresh')
<1>1. /\ \A p \in Pair : user_access[p] # NoRow => user_access[p].expired_at \in Nat
      /\ \A p \in Pair : refresh[p] # NoRow => refresh[p].expired_at \in Nat
  BY RowsAreTyped DEF AccessRow, RefreshRow
<1>. QED
  BY <1>1 DEF Fades, SameRoles

LEMMA EndSessionsFades ==
  ASSUME TypeOK, NEW q \in Update, EndSessions(q)
  PROVE  /\ update[q] \in UpdateRow
         /\ TokensTyped' /\ TokensFade
         /\ \A p \in Pair : refresh'[p] = NoRow <=> refresh[p] = NoRow
         /\ \A p \in update[q].rows :
              /\ user_access'[p] # NoRow => user_access'[p].expired_at <= update[q].at
              /\ refresh'[p] # NoRow => refresh'[p].expired_at <= update[q].at
<1>1. PICK statement \in UpdateRow : statement = update[q]
  BY DEF EndSessions, Running, TypeOK
<1>2. /\ user_access' = ExpireAll(user_access, statement)
      /\ refresh' = ExpireAll(refresh, statement)
  BY <1>1 DEF EndSessions
<1>3. /\ user_access' \in [Pair -> AccessRow \cup {NoRow}]
      /\ Fades(user_access, user_access') /\ SameRoles
      /\ \A p \in statement.rows :
           user_access'[p] # NoRow => user_access'[p].expired_at <= statement.at
  BY <1>2, ExpireAllAccess
<1>4. /\ refresh' \in [Pair -> RefreshRow \cup {NoRow}] /\ Fades(refresh, refresh')
      /\ \A p \in statement.rows :
           refresh'[p] # NoRow => refresh'[p].expired_at <= statement.at
      /\ \A p \in Pair : refresh'[p] = NoRow <=> refresh[p] = NoRow
  BY <1>2, ExpireAllRefresh
<1>. QED
  BY <1>1, <1>3, <1>4 DEF TokensTyped, TokensFade

LEMMA CleanUpFades ==
  ASSUME Inv, CleanUp
  PROVE  /\ TokensTyped' /\ TokensFade
         /\ \A p \in Held : refresh'[p] = refresh[p]
<1>1. /\ \A p \in Pair : user_access'[p] \in {user_access[p], NoRow}
      /\ \A p \in Pair : refresh'[p] \in {refresh[p], NoRow}
      /\ \A p \in Held : refresh'[p] = refresh[p]
      /\ DOMAIN user_access' = Pair /\ user_access' = [p \in Pair |-> user_access'[p]]
      /\ DOMAIN refresh' = Pair /\ refresh' = [p \in Pair |-> refresh'[p]]
  BY DEF CleanUp, Held
<1>2. TokensTyped'
  BY <1>1 DEF TokensTyped, Inv, TypeOK
<1>3. /\ \A p \in Pair : user_access[p] # NoRow => user_access[p].expired_at \in Nat
      /\ \A p \in Pair : refresh[p] # NoRow => refresh[p].expired_at \in Nat
  BY RowsAreTyped DEF AccessRow, RefreshRow, Inv
<1>4. TokensFade
  BY <1>1, <1>3 DEF TokensFade, Fades, SameRoles
<1>. QED
  BY <1>1, <1>2, <1>4

LEMMA IssuedRows ==
  ASSUME Inv, NEW r \in Request, NEW p \in Pair, Issue(r, p)
  PROVE  LET b == request[r].biscuit
             at == request[r].at
         IN /\ r \in InFlight /\ request[r].step = "minted" /\ IsFree(p) /\ Leave(r)
            /\ at \in Nat /\ at <= now /\ b.user \in User /\ b.session \in Session
            /\ TokensTyped'
            /\ user_access'[p] # NoRow /\ user_access'[p].user = b.user
            /\ user_access'[p].session = b.session /\ user_access'[p].roles = b.roles
            /\ user_access'[p].expired_at = at + AccessLifetime
            /\ refresh'[p] # NoRow /\ refresh'[p].user = b.user
            /\ refresh'[p].session = b.session
            /\ \A q \in Pair \ {p} :
                 /\ user_access'[q] = user_access[q]
                 /\ q # b.id => refresh'[q] = refresh[q]
                 /\ q = b.id => /\ refresh[q] # NoRow /\ refresh'[q] # NoRow
                                /\ refresh'[q].user = refresh[q].user
                                /\ refresh'[q].session = refresh[q].session
                                /\ refresh'[q].expired_at = at
<1>. DEFINE b == request[r].biscuit
            at == request[r].at
            A == [user |-> b.user, session |-> b.session, roles |-> b.roles,
                  expired_at |-> at + AccessLifetime]
            R == [user |-> b.user, session |-> b.session, expired_at |-> at + RefreshLifetime]
<1>1. /\ r \in InFlight /\ request[r].step = "minted" /\ IsFree(p) /\ Leave(r)
      /\ user_access' = [user_access EXCEPT ![p] = A]
      /\ refresh' = [q \in Pair |-> IF q = p THEN R
                                    ELSE IF q = b.id THEN Expired(refresh[q], at) ELSE refresh[q]]
  BY DEF Issue
<1>2. /\ at \in Nat /\ at <= now /\ b.user \in User /\ b.session \in Session
      /\ b.roles \in Roles
      /\ b.id # NoRow => refresh[b.id] # NoRow
  <2>1. Proper(request[r]) /\ TypeOK
    BY <1>1 DEF Inv, AllProper
  <2>2. b \in Biscuit /\ at \in Nat
    BY <1>1, <2>1, RequestsAreTyped
  <2>3. b.user \in User /\ b.session \in Session
    BY <1>1, <2>1 DEF Proper, WellFormed
  <2>4. b.roles \in Roles
    BY <2>2 DEF Biscuit
  <2>. QED
    BY <1>1, <2>2, <2>3, <2>4 DEF Inv, Holding
<1>3. A \in AccessRow /\ R \in RefreshRow
  BY <1>2, CredentialsAssumption DEF AccessRow, RefreshRow
<1>4. A # NoRow /\ R # NoRow
  BY <1>3, CredentialsAssumption
<1>5. /\ A.user = b.user /\ A.session = b.session /\ A.roles = b.roles
      /\ A.expired_at = at + AccessLifetime
      /\ R.user = b.user /\ R.session = b.session
  OBVIOUS
<1>. HIDE DEF A, R
<1>6. /\ user_access'[p] = A /\ \A q \in Pair \ {p} : user_access'[q] = user_access[q]
      /\ user_access' \in [Pair -> AccessRow \cup {NoRow}]
  BY <1>1, <1>3 DEF Inv, TypeOK
<1>7. ASSUME NEW q \in Pair \ {p}, q = b.id
      PROVE  /\ refresh[q] # NoRow /\ refresh[q] \in RefreshRow
             /\ refresh'[q] = Expired(refresh[q], at)
  <2>1. b.id # NoRow /\ TypeOK
    BY <1>7, AuthorizationAssumption DEF Inv
  <2>. QED
    BY <1>1, <1>2, <1>7, <2>1, RowsAreTyped
<1>8. ASSUME NEW q \in Pair \ {p}, q = b.id
      PROVE  /\ refresh'[q] \in RefreshRow /\ refresh'[q] # NoRow
             /\ refresh'[q].user = refresh[q].user
             /\ refresh'[q].session = refresh[q].session
             /\ refresh'[q].expired_at = at
  BY <1>2, <1>7, <1>8, ExpiredRefresh
<1>9. ASSUME NEW q \in Pair \ {p}, q # b.id PROVE refresh'[q] = refresh[q]
  BY <1>1, <1>9
<1>10. refresh'[p] = R
  BY <1>1
<1>11. refresh' \in [Pair -> RefreshRow \cup {NoRow}]
  <2>1. ASSUME NEW q \in Pair PROVE refresh'[q] \in RefreshRow \cup {NoRow}
    BY <1>3, <1>8, <1>9, <1>10, RowsAreTyped DEF Inv
  <2>2. DOMAIN refresh' = Pair /\ refresh' = [q \in Pair |-> refresh'[q]]
    BY <1>1
  <2>. QED
    BY <2>1, <2>2
<1>. QED
  BY <1>1, <1>2, <1>4, <1>5, <1>6, <1>7, <1>8, <1>9, <1>10, <1>11 DEF TokensTyped

-----------------------------------------------------------------------------
(* Steps that mint nothing: requests end, or nothing happens to them. *)
Quiet ==
  /\ TokensTyped' /\ TokensFade
  /\ now' \in Nat /\ now <= now'
  /\ request' \in [Request -> RequestRow \cup {NoRow}]
  /\ \A r \in InFlight' : r \in InFlight /\ request'[r] = request[r]
  /\ \A p \in Held' : refresh[p] # NoRow => refresh'[p] # NoRow

UpdatesTyped == update \in [Update -> UpdateRow \cup {NoRow}]

OthersTyped ==
  /\ UpdatesTyped
  /\ verified \subseteq User
  /\ member \in [User -> Roles]
  /\ key \in [Key -> {"none", "active", "revoked"}]
  /\ deleted_applications \subseteq Application
  /\ left_at \in [User \X Organization \X Role -> Nat \cup {NoRow}]
  /\ revoked_at \in [Key -> Nat \cup {NoRow}]
  /\ ended \subseteq Session /\ escaped \subseteq Session /\ forked \subseteq Session

LEMMA QuietSame ==
  ASSUME TypeOK, UNCHANGED <<tokens, request>>, now' \in Nat, now <= now'
  PROVE  Quiet
<1>1. TokensFade /\ TokensTyped'
  BY SameTokensFade DEF tokens, TypeOK, TokensTyped, TokensFade
<1>2. InFlight' = InFlight /\ refresh' = refresh
  BY DEF InFlight, tokens
<1>. QED
  BY <1>1, <1>2 DEF Quiet, TypeOK

LEMMA QuietLeave ==
  ASSUME TypeOK, AllProper, NEW r \in Request, Leave(r), TokensTyped', TokensFade, UNCHANGED now,
         \A p \in Pair : refresh'[p] = NoRow <=> refresh[p] = NoRow
  PROVE  Quiet
<1>1. /\ request' \in [Request -> RequestRow \cup {NoRow}] /\ InFlight' = InFlight \ {r}
      /\ \A s \in Request : s # r => request'[s] = request[s]
  BY LeaveIsTyped
<1>2. \A s \in InFlight' : s \in InFlight /\ request'[s] = request[s]
  BY <1>1 DEF InFlight
<1>3. now' \in Nat /\ now <= now'
  BY DEF TypeOK
<1>. QED
  BY <1>1, <1>2, <1>3 DEF Quiet, Held

LEMMA QuietReturn ==
  ASSUME TypeOK, AllProper, NEW r \in Request, Leave(r), UNCHANGED <<now, tokens>>
  PROVE  Quiet
<1>1. TokensFade /\ TokensTyped' /\ refresh' = refresh
  BY SameTokensFade DEF tokens, TypeOK, TokensTyped, TokensFade
<1>. QED
  BY <1>1, QuietLeave

LEMMA OthersSame ==
  ASSUME TypeOK, UNCHANGED <<people, keys, deleted_applications, sessions>>
  PROVE  OthersTyped'
BY DEF TypeOK, OthersTyped, UpdatesTyped, people, keys, sessions

LEMMA InvQuiet ==
  ASSUME Inv, Quiet, OthersTyped'
  PROVE  Inv'
<1>1. TypeOK'
  BY DEF Quiet, OthersTyped, UpdatesTyped, TokensTyped, TypeOK
<1>2. AllProper'
  BY DEF Inv, AllProper, Quiet
<1>3. Holding'
  <2>. SUFFICES ASSUME NEW r \in InFlight', request'[r].step = "minted"
               PROVE  /\ request'[r].at <= now'
                      /\ request'[r].biscuit.id # NoRow => refresh'[request'[r].biscuit.id] # NoRow
    BY DEF Holding
  <2>1. /\ r \in InFlight /\ request'[r] = request[r] /\ request[r].at \in Nat
        /\ now \in Nat /\ now' \in Nat /\ now <= now'
    BY RequestsAreTyped DEF Quiet, Inv, TypeOK
  <2>2. request[r].at <= now
    BY <2>1 DEF Inv, Holding
  <2>3. request'[r].at <= now'
    BY <2>1, <2>2
  <2>4. ASSUME request[r].biscuit.id # NoRow
        PROVE  refresh'[request[r].biscuit.id] # NoRow
    <3>1. Proper(request[r]) /\ refresh[request[r].biscuit.id] # NoRow
      BY <2>1, <2>4 DEF Inv, AllProper, Holding
    <3>2. request[r].biscuit.id \in Pair
      BY <2>1, <2>4, <3>1 DEF Proper, WellFormed
    <3>3. request[r].biscuit.id \in Held'
      BY <2>1, <3>2 DEF Held
    <3>. QED
      BY <3>1, <3>3 DEF Quiet
  <2>. QED
    BY <2>1, <2>3, <2>4
<1>. QED
  BY <1>1, <1>2, <1>3 DEF Inv

-----------------------------------------------------------------------------
(* Quiet steps, one by one. *)
LEMMA ReturnIsQuiet ==
  ASSUME Inv, NEW r \in Request, Return(r)
  PROVE  Quiet /\ OthersTyped'
BY QuietReturn, OthersSame DEF Return, Inv

LEMMA VerifyIsQuiet ==
  ASSUME Inv, NEW u \in User, VerifyEmail(u)
  PROVE  Quiet /\ OthersTyped'
<1>1. UNCHANGED <<now, tokens, request>> /\ now \in Nat
  BY DEF VerifyEmail, Inv, TypeOK
<1>2. Quiet
  BY <1>1, QuietSame DEF Inv
<1>3. OthersTyped'
  BY DEF VerifyEmail, OthersTyped, UpdatesTyped, Inv, TypeOK, keys, sessions
<1>. QED
  BY <1>2, <1>3

LEMMA SessionsAreTyped ==
  ASSUME Inv, NEW u \in User
  PROVE  SessionsOf(u) \subseteq Session /\ Opening(u) \subseteq Session
<1>1. SessionsOf(u) \subseteq Session
  BY RowsAreTyped DEF SessionsOf, AccessRow, RefreshRow, Inv
<1>2. Opening(u) \subseteq Session
  <2>. SUFFICES ASSUME NEW r \in SigningIn PROVE request[r].biscuit.session \in Session
    BY DEF Opening
  <2>1. r \in InFlight /\ Proper(request[r])
    BY DEF SigningIn, Inv, AllProper
  <2>2. request[r].biscuit.type \in {"password", "refresh"}
    BY <2>1 DEF SigningIn, Proper
  <2>. QED
    BY <2>1, <2>2 DEF Proper, WellFormed
<1>. QED
  BY <1>1, <1>2

(* An UPDATE that starts has not done anything yet.                         *)
StartsAs(q, u, ss, rows) ==
  /\ \A x \in Update : x # q => update'[x] = update[x]
  /\ update'[q] # NoRow /\ update'[q].sessions = ss
  /\ update'[q].late = ss \cap Opening(u)
  /\ update'[q].rows = rows /\ update'[q].at = now

LEMMA StartIsTyped ==
  ASSUME Inv, NEW u \in User, NEW ss \in SUBSET Session, NEW rows \in SUBSET Pair,
         NEW verifies \in SUBSET User, Start(u, ss, rows, verifies)
  PROVE  UpdatesTyped' /\ \E q \in Update : StartsAs(q, u, ss, rows)
<1>1. PICK q \in Update :
        update' = [update EXCEPT ![q] =
          [user |-> u, rows |-> rows, at |-> now, verifies |-> verifies,
           sessions |-> ss, late |-> ss \cap Opening(u)]]
  BY DEF Start
<1>2. PICK w : w = [user |-> u, rows |-> rows, at |-> now, verifies |-> verifies,
                    sessions |-> ss, late |-> ss \cap Opening(u)]
  OBVIOUS
<1>3. w \in UpdateRow
  BY <1>2 DEF UpdateRow, Inv, TypeOK
<1>4. w # NoRow
  BY <1>3, CredentialsAssumption
<1>5. /\ update' \in [Update -> UpdateRow \cup {NoRow}] /\ update'[q] = w
      /\ \A x \in Update : x # q => update'[x] = update[x]
  BY <1>1, <1>2, <1>3 DEF Inv, TypeOK
<1>6. /\ w.sessions = ss /\ w.late = ss \cap Opening(u) /\ w.rows = rows /\ w.at = now
  BY <1>2
<1>. QED
  BY <1>4, <1>5, <1>6 DEF UpdatesTyped, StartsAs

(* The rows that a logout or a change of a password ends, and the sessions  *)
(* that they belong to.                                                     *)
LEMMA LogoutStarts ==
  ASSUME Inv, NEW r \in Request, Logout(r)
  PROVE  \E u \in User, s \in Session :
           /\ r \in InFlight /\ u = request[r].biscuit.user /\ s = request[r].biscuit.session
           /\ LiveIn(user_access, u, s) \cup LiveIn(refresh, u, s) \in SUBSET Pair
           /\ Start(u, {s}, LiveIn(user_access, u, s) \cup LiveIn(refresh, u, s), {})
<1>1. Granted(r, "auth:logout") /\ "auth:logout" \in Action
  BY DEF Logout, Action, Personal
<1>2. /\ r \in InFlight /\ request[r].biscuit.user \in User
      /\ request[r].biscuit.session \in Session
  BY <1>1, GrantedIsTyped
<1>3. \A u, s : LiveIn(user_access, u, s) \cup LiveIn(refresh, u, s) \in SUBSET Pair
  BY DEF LiveIn, Live
<1>. QED
  BY <1>2, <1>3 DEF Logout

LEMMA LogoutIsQuiet ==
  ASSUME Inv, NEW r \in Request, Logout(r)
  PROVE  Quiet /\ OthersTyped'
<1>1. /\ TypeOK /\ AllProper /\ Leave(r)
      /\ UNCHANGED <<now, people, tokens, keys, deleted_applications, ended, escaped, forked>>
  BY DEF Inv, Logout
<1>2. Quiet
  BY <1>1, QuietReturn
<1>3. PICK u \in User, s \in Session :
        /\ LiveIn(user_access, u, s) \cup LiveIn(refresh, u, s) \in SUBSET Pair
        /\ Start(u, {s}, LiveIn(user_access, u, s) \cup LiveIn(refresh, u, s), {})
  BY LogoutStarts
<1>4. UpdatesTyped'
  BY <1>3, StartIsTyped
<1>5. OthersTyped'
  BY <1>1, <1>4 DEF OthersTyped, TypeOK, people, keys
<1>. QED
  BY <1>2, <1>5

LEMMA ChangeStarts ==
  ASSUME Inv, NEW u \in User, NEW verifies \in SUBSET User, DoChangePassword(u, verifies)
  PROVE  /\ SessionsOf(u) \cup Opening(u) \in SUBSET Session
         /\ Live(user_access) \cup Live(refresh) \in SUBSET Pair
         /\ Start(u, SessionsOf(u) \cup Opening(u), Live(user_access) \cup Live(refresh), verifies)
         /\ UNCHANGED <<now, people, tokens, keys, deleted_applications, ended, escaped, forked>>
         /\ OthersTyped'
<1>1. /\ SessionsOf(u) \cup Opening(u) \in SUBSET Session
      /\ Live(user_access) \cup Live(refresh) \in SUBSET Pair
  BY SessionsAreTyped DEF Live
<1>2. /\ Start(u, SessionsOf(u) \cup Opening(u), Live(user_access) \cup Live(refresh), verifies)
      /\ UNCHANGED <<now, people, tokens, keys, deleted_applications, ended, escaped, forked>>
  BY DEF DoChangePassword
<1>3. UpdatesTyped'
  BY <1>1, <1>2, StartIsTyped
<1>4. OthersTyped'
  BY <1>2, <1>3 DEF OthersTyped, Inv, TypeOK, people, keys
<1>. QED
  BY <1>1, <1>2, <1>4

LEMMA ChangePasswordIsQuiet ==
  ASSUME Inv, NEW r \in Request, ChangePassword(r)
  PROVE  Quiet /\ OthersTyped' /\ request[r].biscuit.user \in User
<1>1. TypeOK /\ AllProper /\ Leave(r) /\ DoChangePassword(request[r].biscuit.user, {})
  BY DEF Inv, ChangePassword
<1>2. request[r].biscuit.user \in User
  <2>1. Granted(r, "auth:change_password") /\ "auth:change_password" \in Action
    BY DEF ChangePassword, Action, Personal
  <2>. QED
    BY <2>1, GrantedIsTyped
<1>3. UNCHANGED <<now, tokens>> /\ OthersTyped'
  <2>1. {} \in SUBSET User
    OBVIOUS
  <2>. QED
    BY <1>1, <1>2, <2>1, ChangeStarts
<1>. QED
  BY <1>1, <1>2, <1>3, QuietReturn

LEMMA ResetPasswordIsQuiet ==
  ASSUME Inv, NEW u \in User, ResetPassword(u)
  PROVE  Quiet /\ OthersTyped'
<1>1. DoChangePassword(u, {u}) /\ UNCHANGED request
  BY DEF ResetPassword
<1>2. UNCHANGED <<now, tokens, request>> /\ OthersTyped' /\ TypeOK /\ now \in Nat
  BY <1>1, ChangeStarts DEF Inv, TypeOK
<1>. QED
  BY <1>2, QuietSame

LEMMA EndSessionsIsQuiet ==
  ASSUME Inv, NEW q \in Update, EndSessions(q)
  PROVE  Quiet /\ OthersTyped'
<1>1. /\ UNCHANGED <<now, member, left_at, keys, deleted_applications, request, forked>>
      /\ verified' = verified \cup update[q].verifies
      /\ ended' = ended \cup update[q].sessions /\ escaped' = escaped \cup update[q].late
      /\ update' = [update EXCEPT ![q] = NoRow] /\ TypeOK
  BY DEF EndSessions, Inv
<1>2. /\ update[q] \in UpdateRow /\ TokensTyped' /\ TokensFade
      /\ \A p \in Pair : refresh'[p] = NoRow <=> refresh[p] = NoRow
  BY <1>1, EndSessionsFades
<1>3. InFlight' = InFlight /\ now' \in Nat /\ now <= now'
  BY <1>1 DEF InFlight, TypeOK
<1>4. Quiet
  BY <1>1, <1>2, <1>3 DEF Quiet, TypeOK, Held
<1>5. /\ update[q].verifies \subseteq User /\ update[q].sessions \subseteq Session
      /\ update[q].late \subseteq Session
  BY <1>2 DEF UpdateRow
<1>6. OthersTyped'
  BY <1>1, <1>5 DEF OthersTyped, UpdatesTyped, TypeOK, keys
<1>. QED
  BY <1>4, <1>6

LEMMA FailToEndIsQuiet ==
  ASSUME Inv, NEW q \in Update, FailToEnd(q)
  PROVE  Quiet /\ OthersTyped'
<1>1. /\ UNCHANGED <<now, people, tokens, keys, deleted_applications, request,
                     ended, escaped, forked>>
      /\ update' = [update EXCEPT ![q] = NoRow] /\ TypeOK /\ now \in Nat
  BY DEF FailToEnd, Inv, TypeOK
<1>2. Quiet
  BY <1>1, QuietSame
<1>3. OthersTyped'
  BY <1>1 DEF OthersTyped, UpdatesTyped, TypeOK, people, keys
<1>. QED
  BY <1>2, <1>3

LEMMA SetRoleIsTyped ==
  ASSUME TypeOK, NEW u \in User, NEW o, NEW role \in Role \cup {NoRow}, SetRole(u, o, role)
  PROVE  /\ member' \in [User -> Roles]
         /\ left_at' \in [User \X Organization \X Role -> Nat \cup {NoRow}]
<1>1. member' \in [User -> Roles]
  BY DEF SetRole, TypeOK, Roles
<1>2. left_at' \in [User \X Organization \X Role -> Nat \cup {NoRow}]
  BY DEF SetRole, TypeOK
<1>. QED
  BY <1>1, <1>2

LEMMA RolesAreQuiet ==
  ASSUME Inv, NEW r \in Request, NEW u \in User, NEW role \in Role,
         EditRole(r, u, role) \/ Invite(r, u, role) \/ Revoke(r, u)
  PROVE  /\ Quiet /\ OthersTyped'
         /\ \E new \in Role \cup {NoRow} : SetRole(u, request[r].target, new)
<1>1. /\ Leave(r) /\ UNCHANGED <<now, verified, tokens, keys, deleted_applications, sessions>>
      /\ \E new \in Role \cup {NoRow} : SetRole(u, request[r].target, new)
  BY DEF EditRole, Invite, Revoke
<1>2. Quiet
  BY <1>1, QuietReturn DEF Inv
<1>3. OthersTyped'
  BY <1>1, SetRoleIsTyped DEF OthersTyped, UpdatesTyped, Inv, TypeOK, keys, sessions
<1>. QED
  BY <1>1, <1>2, <1>3

LEMMA KeysAreQuiet ==
  ASSUME Inv, NEW r \in Request, NEW k \in Key, CreateKey(r, k) \/ DeleteKey(r, k)
  PROVE  Quiet /\ OthersTyped'
<1>1. Leave(r) /\ UNCHANGED <<now, people, tokens, deleted_applications, sessions>>
  BY DEF CreateKey, DeleteKey
<1>2. Quiet
  BY <1>1, QuietReturn DEF Inv
<1>3. OthersTyped'
  BY <1>1 DEF CreateKey, DeleteKey, OthersTyped, UpdatesTyped, Inv, TypeOK, people, sessions
<1>. QED
  BY <1>2, <1>3

LEMMA DeleteApplicationIsQuiet ==
  ASSUME Inv, NEW r \in Request, DeleteApplication(r)
  PROVE  Quiet /\ OthersTyped'
<1>1. Leave(r) /\ UNCHANGED <<now, people, tokens, keys, sessions>>
  BY DEF DeleteApplication
<1>2. Quiet
  BY <1>1, QuietReturn DEF Inv
<1>3. request[r].target \in Application
  <2>1. Granted(r, "application:delete") /\ "application:delete" \in Action
    BY DEF DeleteApplication, Action, OnApplication
  <2>2. Targets("application:delete") = Application
    BY DEF Targets, Personal, OnApplication
  <2>. QED
    BY <2>1, <2>2, GrantedIsTyped
<1>4. OthersTyped'
  BY <1>1, <1>3
  DEF DeleteApplication, OthersTyped, UpdatesTyped, Inv, TypeOK, people, keys, sessions
<1>. QED
  BY <1>2, <1>4

LEMMA CleanUpIsQuiet ==
  ASSUME Inv, CleanUp
  PROVE  Quiet /\ OthersTyped'
<1>1. UNCHANGED <<now, people, keys, deleted_applications, request, sessions>> /\ TypeOK
  BY DEF CleanUp, Inv
<1>2. InFlight' = InFlight /\ Held' = Held /\ now' \in Nat /\ now <= now'
  BY <1>1 DEF InFlight, Held, TypeOK
<1>3. Quiet
  BY <1>1, <1>2, CleanUpFades DEF Quiet, TypeOK
<1>. QED
  BY <1>1, <1>3, OthersSame

LEMMA TickIsQuiet ==
  ASSUME Inv, Tick
  PROVE  Quiet /\ OthersTyped'
<1>1. UNCHANGED <<people, tokens, keys, deleted_applications, request, sessions>> /\ TypeOK
  BY DEF Tick, Inv
<1>2. now' \in Nat /\ now <= now'
  BY DEF Tick, Inv, TypeOK
<1>. QED
  BY <1>1, <1>2, QuietSame, OthersSame

-----------------------------------------------------------------------------
(* The other steps: a request goes on, or comes in. *)
Quietly ==
  /\ UNCHANGED <<now, people, tokens, keys, deleted_applications, ended, escaped>>
  /\ UpdatesTyped'

LEMMA SameUpdates == ASSUME Inv, UNCHANGED update PROVE UpdatesTyped'
BY DEF Inv, TypeOK, UpdatesTyped

(* A refresh that comes in is noted, nothing else.                          *)
LEMMA OvertakingIsTyped ==
  ASSUME Inv, NEW s \in Session, update' = Overtaking(s)
  PROVE  /\ UpdatesTyped'
         /\ \A q \in Update :
              /\ update[q] = NoRow <=> update'[q] = NoRow
              /\ update[q] # NoRow =>
                   /\ update'[q].rows = update[q].rows /\ update'[q].at = update[q].at
                   /\ update'[q].sessions = update[q].sessions
                   /\ update[q].late \subseteq update'[q].late
                   /\ s \in update[q].sessions => s \in update'[q].late
<1>1. ASSUME NEW q \in Update, update[q] # NoRow, s \in update[q].sessions
      PROVE  /\ update'[q] \in UpdateRow
             /\ update'[q].rows = update[q].rows /\ update'[q].at = update[q].at
             /\ update'[q].sessions = update[q].sessions
             /\ update'[q].late = update[q].late \cup {s}
  <2>1. update[q] \in UpdateRow
    BY <1>1 DEF Inv, TypeOK
  <2>2. update'[q] = [update[q] EXCEPT !.late = @ \cup {s}]
    BY <1>1 DEF Overtaking, Running
  <2>. QED
    BY <2>1, <2>2 DEF UpdateRow
<1>2. ASSUME NEW q \in Update, ~(update[q] # NoRow /\ s \in update[q].sessions)
      PROVE  update'[q] = update[q]
  BY <1>2 DEF Overtaking, Running
<1>3. UpdatesTyped'
  BY <1>1, <1>2 DEF Overtaking, UpdatesTyped, Inv, TypeOK
<1>. QED
  BY <1>1, <1>2, <1>3, CredentialsAssumption

LEMMA LookUpPuts ==
  ASSUME Inv, NEW r \in Request, NEW u \in User, LookUp(r, u)
  PROVE  \E row \in RequestRow :
           /\ Put(r, row) /\ Proper(row) /\ Quietly /\ UNCHANGED forked
           /\ request[r] = NoRow
           /\ row.step = "verified" /\ row.action = "auth:login"
           /\ row.biscuit.type = "password"
           /\ row.biscuit.user = u /\ row.biscuit.session \in Session
           /\ IsNew(row.biscuit.session)
<1>1. PICK s \in Session : IsNew(s) /\ Put(r, LoggingIn(u, s))
  BY DEF LookUp
<1>2. PICK row : row = LoggingIn(u, s)
  OBVIOUS
<1>3. /\ row \in RequestRow /\ Proper(row)
      /\ row.step = "verified" /\ row.action = "auth:login"
      /\ row.biscuit.user = u /\ row.biscuit.session = s
      /\ row.biscuit.type = "password"
  BY <1>2, LoginIsProper
<1>4. Put(r, row) /\ Quietly /\ UNCHANGED forked /\ request[r] = NoRow
  BY <1>1, <1>2, SameUpdates DEF LookUp, Quietly, sessions
<1>. QED
  BY <1>1, <1>3, <1>4

LEMMA SignInPuts ==
  ASSUME Inv, NEW r \in Request, SignIn(r)
  PROVE  \E row \in RequestRow :
           /\ Put(r, row) /\ Proper(row) /\ Quietly /\ UNCHANGED forked
           /\ r \in InFlight /\ request[r].step = "verified"
           /\ row.step = "minted" /\ row.at = now /\ row.biscuit.id = NoRow
           /\ row.biscuit.type = "password" /\ request[r].biscuit.type = "password"
           /\ row.biscuit.user = request[r].biscuit.user
           /\ row.biscuit.session = request[r].biscuit.session
           /\ row.biscuit.roles = member[row.biscuit.user]
<1>1. /\ r \in InFlight /\ request[r].step = "verified" /\ Put(r, Minted(r, NoRow))
      /\ Quietly /\ UNCHANGED forked
  BY SameUpdates DEF SignIn, Quietly, sessions
<1>2. TypeOK /\ Proper(request[r])
  BY <1>1 DEF Inv, AllProper
<1>3. request[r].biscuit.type = "password"
  BY <1>1, <1>2 DEF Proper
<1>. QED
  BY <1>1, <1>2, <1>3, MintedIsProper

LEMMA ExchangePuts ==
  ASSUME Inv, NEW r \in Request, Exchange(r)
  PROVE  \E row \in RequestRow, p \in Pair :
           /\ Put(r, row) /\ Proper(row) /\ Quietly
           /\ r \in InFlight /\ request[r].step = "authenticated"
           /\ request[r].action = "auth:refresh" /\ MayRefresh(request[r].biscuit, now)
           /\ request[r].biscuit.id = p /\ p \notin Locked
           /\ row.step = "minted" /\ row.at = now /\ row.action = "auth:refresh"
           /\ row.biscuit.type = "refresh" /\ request[r].biscuit.type = "refresh"
           /\ row.biscuit.user = request[r].biscuit.user
           /\ row.biscuit.session = request[r].biscuit.session
           /\ row.biscuit.roles = member[row.biscuit.user]
           /\ \/ IsLive(refresh[p]) /\ row.biscuit.id = p /\ UNCHANGED forked
              \/ /\ ~IsLive(refresh[p]) /\ row.biscuit.id = NoRow
                 /\ forked' = forked \cup {row.biscuit.session}
<1>. DEFINE p == request[r].biscuit.id
            id == IF IsLive(refresh[p]) THEN p ELSE NoRow
<1>1. /\ r \in InFlight /\ request[r].step = "authenticated"
      /\ request[r].action = "auth:refresh" /\ MayRefresh(request[r].biscuit, now)
      /\ p \notin Locked /\ Put(r, Minted(r, id)) /\ Quietly
      /\ forked' = IF IsLive(refresh[p]) THEN forked
                   ELSE forked \cup {request[r].biscuit.session}
  BY SameUpdates DEF Exchange, Quietly
<1>2. TypeOK /\ Proper(request[r])
  BY <1>1 DEF Inv, AllProper
<1>3. request[r].biscuit.type = "refresh" /\ p \in Pair
  BY <1>1, <1>2 DEF Proper
<1>4. id \in Pair \cup {NoRow}
  BY <1>3
<1>. HIDE DEF id
<1>5. /\ Minted(r, id) \in RequestRow /\ Proper(Minted(r, id))
      /\ Minted(r, id).step = "minted" /\ Minted(r, id).at = now
      /\ Minted(r, id).action = request[r].action
      /\ Minted(r, id).biscuit.id = id
      /\ Minted(r, id).biscuit.type = request[r].biscuit.type
      /\ Minted(r, id).biscuit.user = request[r].biscuit.user
      /\ Minted(r, id).biscuit.session = request[r].biscuit.session
      /\ Minted(r, id).biscuit.roles = member[request[r].biscuit.user]
  BY <1>1, <1>2, <1>3, <1>4, MintedIsProper
<1>6. \/ IsLive(refresh[p]) /\ id = p /\ UNCHANGED forked
      \/ /\ ~IsLive(refresh[p]) /\ id = NoRow
         /\ forked' = forked \cup {request[r].biscuit.session}
  BY <1>1 DEF id
<1>. QED
  BY <1>1, <1>3, <1>5, <1>6

LEMMA AuthenticatePuts ==
  ASSUME Inv, NEW r \in Request, NEW b \in Accepted, NEW action, NEW target,
         Authenticate(r, b, action, target),
         \/ action = "auth:refresh" /\ target = NoRow /\ b.type = "refresh"
         \/ action \in Action /\ target \in Targets(action)
  PROVE  \E row \in RequestRow :
           /\ Put(r, row) /\ Proper(row) /\ Quietly /\ UNCHANGED forked
           /\ request[r] = NoRow
           /\ row.step = "authenticated" /\ row.biscuit = b /\ row.action = action
<1>1. PICK row : row = [step |-> "authenticated", biscuit |-> b, action |-> action,
                        target |-> target, at |-> 0]
  OBVIOUS
<1>2. UpdatesTyped'
  <2>1. CASE action = "auth:refresh"
    <3>1. b.session \in Session
      BY <2>1, AcceptedIsTyped DEF WellFormed, Inv, Action, Personal, OnApplication, OnOrganization
    <3>. QED
      BY <2>1, <3>1, OvertakingIsTyped DEF Authenticate
  <2>2. CASE action # "auth:refresh"
    BY <2>2, SameUpdates DEF Authenticate
  <2>. QED
    BY <2>1, <2>2
<1>4. Put(r, row) /\ Quietly /\ UNCHANGED forked /\ request[r] = NoRow
  BY <1>1, <1>2 DEF Authenticate, Quietly
<1>3. /\ row \in RequestRow /\ Proper(row)
      /\ row.step = "authenticated" /\ row.biscuit = b /\ row.action = action
  BY <1>1, AuthenticatedIsProper DEF Inv
<1>. QED
  BY <1>3, <1>4

LEMMA GrantPuts ==
  ASSUME Inv, NEW r \in Request, Grant(r)
  PROVE  \E row \in RequestRow :
           /\ Put(r, row) /\ Proper(row) /\ Quietly /\ UNCHANGED forked
           /\ r \in InFlight /\ request[r].step = "authenticated"
           /\ request[r].action # "auth:refresh"
           /\ row.step = "granted" /\ row.at = now /\ row.action = request[r].action
           /\ row.biscuit = request[r].biscuit
<1>1. PICK row : row = [request[r] EXCEPT !.step = "granted", !.at = now]
  OBVIOUS
<1>2. /\ r \in InFlight /\ Put(r, row) /\ Quietly /\ UNCHANGED forked
      /\ request[r].step = "authenticated" /\ request[r].action # "auth:refresh"
  BY <1>1, SameUpdates DEF Grant, Quietly, sessions
<1>3. Proper(request[r]) /\ TypeOK
  BY <1>2 DEF Inv, AllProper
<1>4. row \in RequestRow /\ Proper(row)
  BY <1>1, <1>2, <1>3, GrantedIsProper
<1>5. request[r] \in RequestRow
  BY <1>2, <1>3, RequestsAreTyped
<1>6. /\ row.step = "granted" /\ row.at = now /\ row.action = request[r].action
      /\ row.biscuit = request[r].biscuit
  BY <1>1, <1>5 DEF RequestRow
<1>. QED
  BY <1>2, <1>4, <1>6

LEMMA InvPut ==
  ASSUME Inv, NEW r \in Request, NEW row \in RequestRow, Put(r, row), Proper(row), Quietly,
         forked' \subseteq Session,
         row.step = "minted" => /\ row.at = now
                                /\ row.biscuit.id # NoRow => refresh[row.biscuit.id] # NoRow
  PROVE  /\ Inv' /\ InFlight' = InFlight \cup {r} /\ request'[r] = row
         /\ \A s \in Request : s # r => request'[s] = request[s]
<1>1. /\ request' \in [Request -> RequestRow \cup {NoRow}] /\ AllProper'
      /\ InFlight' = InFlight \cup {r} /\ request'[r] = row
      /\ \A s \in Request : s # r => request'[s] = request[s]
  BY PutIsTyped DEF Inv
<1>2. TypeOK'
  BY <1>1 DEF Inv, TypeOK, Quietly, UpdatesTyped, people, tokens, keys
<1>3. Holding'
  <2>1. now \in Nat /\ now' = now /\ refresh' = refresh
    BY DEF Inv, TypeOK, Quietly, tokens
  <2>. QED
    BY <1>1, <2>1 DEF Inv, Holding, InFlight
<1>. QED
  BY <1>1, <1>2, <1>3 DEF Inv

LEMMA InvIssue ==
  ASSUME Inv, NEW r \in Request, NEW p \in Pair, Issue(r, p)
  PROVE  /\ Inv' /\ InFlight' = InFlight \ {r}
         /\ \A s \in InFlight' : s \in InFlight /\ request'[s] = request[s]
<1>1. /\ request' \in [Request -> RequestRow \cup {NoRow}] /\ AllProper'
      /\ InFlight' = InFlight \ {r}
      /\ \A s \in Request : s # r => request'[s] = request[s]
  BY IssuedRows, LeaveIsTyped DEF Inv
<1>2. \A s \in InFlight' : s \in InFlight /\ request'[s] = request[s]
  BY <1>1 DEF InFlight
<1>3. UNCHANGED <<now, people, keys, deleted_applications, sessions>> /\ TypeOK
  BY DEF Issue, Inv
<1>4. TokensTyped'
  BY IssuedRows
<1>5. TypeOK'
  BY <1>1, <1>3, <1>4, OthersSame DEF TypeOK, OthersTyped, UpdatesTyped, TokensTyped
<1>6. \A q \in Pair : refresh[q] # NoRow => refresh'[q] # NoRow
  BY IssuedRows
<1>7. Holding'
  <2>. SUFFICES ASSUME NEW s \in InFlight', request'[s].step = "minted"
               PROVE  /\ request'[s].at <= now'
                      /\ request'[s].biscuit.id # NoRow => refresh'[request'[s].biscuit.id] # NoRow
    BY DEF Holding
  <2>1. s \in InFlight /\ request'[s] = request[s] /\ now' = now
    BY <1>2, <1>3
  <2>2. /\ Proper(request[s]) /\ request[s].at <= now
        /\ request[s].biscuit.id # NoRow => refresh[request[s].biscuit.id] # NoRow
    BY <2>1 DEF Inv, AllProper, Holding
  <2>3. request[s].biscuit.id \in Pair \cup {NoRow}
    BY <2>1, <2>2 DEF Proper, WellFormed
  <2>. QED
    BY <1>6, <2>1, <2>2, <2>3
<1>. QED
  BY <1>1, <1>2, <1>5, <1>7 DEF Inv

-----------------------------------------------------------------------------
LEMMA InvInit == Init => Inv
<1>. SUFFICES ASSUME Init PROVE Inv
  OBVIOUS
<1>1. InFlight = {}
  BY DEF Init, InFlight
<1>2. TypeOK
  BY CredentialsAssumption DEF Init, TypeOK
<1>. QED
  BY <1>1, <1>2 DEF Inv, AllProper, Holding

LEMMA PromisingIsTyped ==
  ASSUME NEW b \in Accepted, NEW action, NEW target, Promising(b, action, target),
         action = "auth:refresh"
  PROVE  b.type = "refresh"
BY DEF Promising, MayRefresh

(* The calls that change something, and the other quiet steps. *)
Effect(r) ==
  \/ Return(r) \/ Logout(r) \/ ChangePassword(r) \/ DeleteApplication(r)
  \/ \E u \in User, role \in Role : EditRole(r, u, role) \/ Invite(r, u, role)
  \/ \E u \in User : Revoke(r, u)
  \/ \E k \in Key : CreateKey(r, k) \/ DeleteKey(r, k)

Alone ==
  \/ UNCHANGED vars \/ CleanUp \/ Tick
  \/ \E u \in User : VerifyEmail(u) \/ ResetPassword(u)
  \/ \E q \in Update : EndSessions(q) \/ FailToEnd(q)

(* A token is accepted for what it can be used for. *)
ComesIn(r) ==
  \E b \in Accepted, action \in Action \cup {"auth:refresh"},
    target \in Organization \cup Application \cup {NoRow} :
    /\ Authenticate(r, b, action, target)
    /\ \/ action = "auth:refresh" /\ target = NoRow /\ b.type = "refresh"
       \/ action \in Action /\ target \in Targets(action)

LEMMA Steps ==
  ASSUME Inv, [Next]_vars
  PROVE  \/ Alone
         \/ \E r \in Request :
              \/ Effect(r) \/ ComesIn(r) \/ SignIn(r) \/ Exchange(r) \/ Grant(r)
              \/ \E u \in User : LookUp(r, u)
              \/ \E p \in Pair : Issue(r, p)
<1>1. ASSUME NEW r \in Request, NEW b \in Accepted, Promising(b, "auth:refresh", NoRow),
             Authenticate(r, b, "auth:refresh", NoRow)
      PROVE  ComesIn(r)
  BY <1>1, PromisingIsTyped DEF ComesIn
<1>2. ASSUME NEW r \in Request, NEW b \in Accepted, NEW a \in Asked[b.type],
             NEW t \in Targets(a), Authenticate(r, b, a, t)
      PROVE  ComesIn(r)
  <2>1. a \in Action
    BY AcceptedIsTyped, CredentialsAssumption DEF Inv
  <2>2. t \in Organization \cup Application \cup {NoRow}
    BY DEF Targets
  <2>. QED
    BY <1>2, <2>1, <2>2 DEF ComesIn
<1>3. Calls \subseteq Request
  BY CredentialsAssumption
<1>. QED
  BY <1>1, <1>2, <1>3 DEF Next, Alone, Effect

LEMMA AloneIsQuiet == ASSUME Inv, Alone PROVE Quiet /\ OthersTyped'
<1>1. CASE UNCHANGED vars
  <2>1. /\ UNCHANGED <<tokens, request>> /\ TypeOK /\ now \in Nat /\ now' = now
        /\ UNCHANGED <<people, keys, deleted_applications, sessions>>
    BY <1>1 DEF vars, Inv, TypeOK
  <2>. QED
    BY <2>1, QuietSame, OthersSame
<1>. QED
  BY <1>1, CleanUpIsQuiet, TickIsQuiet, VerifyIsQuiet, ResetPasswordIsQuiet, EndSessionsIsQuiet,
     FailToEndIsQuiet
  DEF Alone

LEMMA EffectIsQuiet ==
  ASSUME Inv, NEW r \in Request, Effect(r)
  PROVE  Quiet /\ OthersTyped'
<1>1. ASSUME NEW u \in User, Revoke(r, u) PROVE Quiet /\ OthersTyped'
  BY <1>1, RolesAreQuiet DEF Role
<1>. QED
  BY <1>1, ReturnIsQuiet, LogoutIsQuiet, ChangePasswordIsQuiet, DeleteApplicationIsQuiet,
     RolesAreQuiet, KeysAreQuiet
  DEF Effect

LEMMA InvStep == Inv /\ [Next]_vars => Inv'
<1>. SUFFICES ASSUME Inv, [Next]_vars PROVE Inv'
  OBVIOUS
<1>1. forked \subseteq Session
  BY DEF Inv, TypeOK
<1>2. CASE Alone
  BY <1>2, AloneIsQuiet, InvQuiet
<1>3. ASSUME NEW r \in Request, Effect(r) PROVE Inv'
  BY <1>3, EffectIsQuiet, InvQuiet
<1>4. ASSUME NEW r \in Request, ComesIn(r) PROVE Inv'
  <2>1. PICK row \in RequestRow : /\ Put(r, row) /\ Proper(row) /\ Quietly
                                 /\ UNCHANGED forked /\ row.step = "authenticated"
    BY <1>4, AuthenticatePuts DEF ComesIn
  <2>. QED
    BY <1>1, <2>1, InvPut
<1>5. ASSUME NEW r \in Request, SignIn(r) PROVE Inv'
  <2>1. PICK row \in RequestRow : /\ Put(r, row) /\ Proper(row) /\ Quietly
                                 /\ UNCHANGED forked /\ row.at = now
                                 /\ row.biscuit.id = NoRow
    BY <1>5, SignInPuts
  <2>. QED
    BY <1>1, <2>1, InvPut
<1>6. ASSUME NEW r \in Request, Exchange(r) PROVE Inv'
  <2>1. PICK row \in RequestRow, p \in Pair :
          /\ Put(r, row) /\ Proper(row) /\ Quietly /\ row.step = "minted" /\ row.at = now
          /\ row.biscuit.type = "refresh"
          /\ \/ IsLive(refresh[p]) /\ row.biscuit.id = p /\ UNCHANGED forked
             \/ /\ ~IsLive(refresh[p]) /\ row.biscuit.id = NoRow
                /\ forked' = forked \cup {row.biscuit.session}
    BY <1>6, ExchangePuts
  <2>2. row.biscuit.session \in Session
    BY <2>1 DEF Proper, WellFormed
  <2>3. forked' \subseteq Session
    BY <1>1, <2>1, <2>2
  <2>4. row.biscuit.id # NoRow => refresh[row.biscuit.id] # NoRow
    BY <2>1 DEF IsLive
  <2>. QED
    BY <2>1, <2>3, <2>4, InvPut
<1>7. ASSUME NEW r \in Request, Grant(r) PROVE Inv'
  <2>1. PICK row \in RequestRow : /\ Put(r, row) /\ Proper(row) /\ Quietly
                                 /\ UNCHANGED forked /\ row.step = "granted"
    BY <1>7, GrantPuts
  <2>. QED
    BY <1>1, <2>1, InvPut
<1>8. ASSUME NEW r \in Request, NEW u \in User, LookUp(r, u) PROVE Inv'
  <2>1. PICK row \in RequestRow : /\ Put(r, row) /\ Proper(row) /\ Quietly
                                 /\ UNCHANGED forked /\ row.step = "verified"
    BY <1>8, LookUpPuts
  <2>. QED
    BY <1>1, <2>1, InvPut
<1>9. ASSUME NEW r \in Request, NEW p \in Pair, Issue(r, p) PROVE Inv'
  BY <1>9, InvIssue
<1>. QED
  BY <1>2, <1>3, <1>4, <1>5, <1>6, <1>7, <1>8, <1>9, Steps

LEMMA Invariant == Spec => []Inv
BY InvInit, InvStep, PTL DEF Spec

(* Rows, requests and histories have their types in every state. *)
THEOREM TypeCorrect == Spec => []TypeOK
<1>1. Inv => TypeOK
  BY DEF Inv
<1>. QED
  BY <1>1, Invariant, PTL

(* Whatever service token or secret a request carries, and however it is    *)
(* scoped, what the request was granted lies within that scope.             *)
THEOREM KeysStayInScopeHolds == Spec => []KeysStayInScope
<1>1. Inv => KeysStayInScope
  <2>. SUFFICES ASSUME Inv, NEW r \in InFlight, request[r].step = "granted",
                      request[r].biscuit.type = "service_access"
               PROVE  LET row == request[r]
                      IN IF Scope[row.biscuit.id] \in Application
                         THEN row.target = Scope[row.biscuit.id]
                         ELSE row.target # NoRow =>
                                OrganizationOf(row.target) = Scope[row.biscuit.id]
    BY DEF KeysStayInScope
  <2>. DEFINE b == request[r].biscuit
  <2>1. /\ WellFormed(b) /\ Authorized(b, request[r].action, request[r].target, request[r].at)
    BY DEF Inv, AllProper, Proper
  <2>2. CASE Scope[b.id] \in Application
    <3>1. b.application = Scope[b.id] /\ b.application # NoRow
      BY <2>1, <2>2, AuthorizationAssumption DEF WellFormed
    <3>2. b.application = request[r].target
      BY <2>1, <3>1 DEF Authorized, IsValid
    <3>. QED
      BY <2>2, <3>1, <3>2
  <2>3. CASE Scope[b.id] \notin Application
    <3>1. b.organization = Scope[b.id]
      BY <2>1, <2>3, ScopesAreApart DEF WellFormed
    <3>2. request[r].target # NoRow => b.organization = OrganizationOf(request[r].target)
      BY <2>1 DEF Authorized, HasRole
    <3>. QED
      BY <2>3, <3>1, <3>2
  <2>. QED
    BY <2>2, <2>3
<1>. QED
  BY <1>1, Invariant, PTL

-----------------------------------------------------------------------------
(* What is known of a revoked key: when, and how long biscuits outlive it. *)
FadesIn(b) ==
  b.application # NoRow =>
    /\ b.expires <= now + SecretLifetime
    /\ revoked_at[b.id] # NoRow => b.expires <= revoked_at[b.id] + SecretLifetime

SecretInv ==
  /\ \A k \in Key : key[k] # "revoked" => revoked_at[k] = NoRow
  /\ \A r \in InFlight : FadesIn(request[r].biscuit)

LEMMA ScopedBiscuits ==
  ASSUME NEW b, WellFormed(b), b.application # NoRow
  PROVE  b.type = "service_access" /\ b.id \in Key /\ b.expires \in Nat
BY ScopesAreApart DEF WellFormed

LEMMA SecretsQuiet ==
  ASSUME Inv, SecretInv, Quiet, UNCHANGED keys
  PROVE  SecretInv'
<1>1. UNCHANGED <<key, revoked_at>> /\ now \in Nat /\ now' \in Nat /\ now <= now'
  BY DEF keys, Quiet, Inv, TypeOK
<1>2. ASSUME NEW r \in InFlight'
      PROVE  FadesIn(request[r].biscuit)'
  <2>1. /\ r \in InFlight /\ request'[r] = request[r] /\ WellFormed(request[r].biscuit)
        /\ FadesIn(request[r].biscuit)
    BY DEF Quiet, Inv, AllProper, Proper, SecretInv
  <2>. QED
    BY <1>1, <2>1, ScopedBiscuits, CredentialsAssumption DEF FadesIn
<1>. QED
  BY <1>1, <1>2 DEF SecretInv

LEMMA SecretsDeleted ==
  ASSUME Inv, SecretInv, NEW r \in Request, NEW k \in Key, CreateKey(r, k) \/ DeleteKey(r, k)
  PROVE  SecretInv'
<1>1. Quiet /\ now' = now /\ now \in Nat
  BY KeysAreQuiet DEF CreateKey, DeleteKey, Inv, TypeOK
<1>2. /\ \A j \in Key \ {k} : key'[j] = key[j] /\ revoked_at'[j] = revoked_at[j]
      /\ key'[k] # "revoked" => revoked_at'[k] = NoRow
      /\ revoked_at'[k] # NoRow => revoked_at'[k] = revoked_at[k] \/ revoked_at'[k] = now
  <2>1. CASE CreateKey(r, k)
    BY <2>1 DEF CreateKey, Inv, TypeOK, SecretInv
  <2>2. CASE DeleteKey(r, k)
    BY <2>2 DEF DeleteKey, Inv, TypeOK
  <2>. QED
    BY <2>1, <2>2
<1>3. ASSUME NEW s \in InFlight' PROVE FadesIn(request[s].biscuit)'
  <2>1. /\ s \in InFlight /\ request'[s] = request[s] /\ WellFormed(request[s].biscuit)
        /\ FadesIn(request[s].biscuit)
    BY <1>1 DEF Quiet, Inv, AllProper, Proper, SecretInv
  <2>. QED
    BY <1>1, <1>2, <2>1, ScopedBiscuits, CredentialsAssumption DEF FadesIn
<1>. QED
  BY <1>2, <1>3 DEF SecretInv

LEMMA SecretsPut ==
  ASSUME Inv, SecretInv, NEW r \in Request, NEW row \in RequestRow, Put(r, row), Proper(row),
         Quietly, FadesIn(row.biscuit)
  PROVE  SecretInv'
<1>1. UNCHANGED <<now, key, revoked_at>>
  BY DEF Quietly, keys
<1>2. /\ InFlight' = InFlight \cup {r} /\ request'[r] = row
      /\ \A s \in Request : s # r => request'[s] = request[s]
  BY PutIsTyped DEF Inv
<1>3. ASSUME NEW s \in InFlight' PROVE FadesIn(request[s].biscuit)'
  <2>1. s = r \/ (s \in InFlight /\ request'[s] = request[s])
    <3>1. InFlight \subseteq Request
      BY DEF InFlight
    <3>. QED
      BY <1>2, <3>1
  <2>. QED
    BY <1>1, <1>2, <2>1 DEF FadesIn, SecretInv
<1>. QED
  BY <1>1, <1>3 DEF SecretInv

LEMMA SecretStep == Inv /\ SecretInv /\ [Next]_vars => SecretInv'
<1>. SUFFICES ASSUME Inv, SecretInv, [Next]_vars PROVE SecretInv'
  OBVIOUS
<1>1. CASE Alone
  <2>1. UNCHANGED keys
    BY <1>1 DEF Alone, vars, CleanUp, Tick, VerifyEmail, ResetPassword, DoChangePassword,
                EndSessions, FailToEnd
  <2>. QED
    BY <1>1, <2>1, AloneIsQuiet, SecretsQuiet
<1>2. ASSUME NEW r \in Request, Effect(r) PROVE SecretInv'
  <2>1. CASE UNCHANGED keys
    BY <1>2, <2>1, EffectIsQuiet, SecretsQuiet
  <2>2. CASE \E k \in Key : CreateKey(r, k) \/ DeleteKey(r, k)
    BY <2>2, SecretsDeleted
  <2>. QED
    BY <1>2, <2>1, <2>2
    DEF Effect, Return, Logout, ChangePassword, DoChangePassword, DeleteApplication, EditRole,
        Invite, Revoke
<1>3. ASSUME NEW r \in Request, ComesIn(r) PROVE SecretInv'
  <2>1. PICK b \in Accepted, row \in RequestRow :
          Put(r, row) /\ Proper(row) /\ Quietly /\ row.biscuit = b
    BY <1>3, AuthenticatePuts DEF ComesIn
  <2>2. b.application # NoRow => /\ b.id \in Key /\ key[b.id] = "active"
                                 /\ b.expires = now + SecretLifetime
    BY AcceptedIsTyped, LiveSecretsAreTyped DEF Inv
  <2>3. FadesIn(b)
    BY <2>2, CredentialsAssumption DEF FadesIn, SecretInv, Inv, TypeOK
  <2>. QED
    BY <2>1, <2>3, SecretsPut
<1>4. ASSUME NEW r \in Request, NEW row \in RequestRow, Put(r, row), Proper(row), Quietly,
             row.biscuit.type \in {"password", "refresh"}
      PROVE  SecretInv'
  <2>1. row.biscuit.application = NoRow
    BY <1>4 DEF Proper, WellFormed
  <2>. QED
    BY <1>4, <2>1, SecretsPut DEF FadesIn
<1>5. ASSUME NEW r \in Request, SignIn(r) \/ Exchange(r) \/ \E u \in User : LookUp(r, u)
      PROVE  SecretInv'
  <2>1. CASE SignIn(r)
    BY <1>4, <2>1, SignInPuts
  <2>2. CASE Exchange(r)
    BY <1>4, <2>2, ExchangePuts
  <2>3. ASSUME NEW u \in User, LookUp(r, u) PROVE SecretInv'
    BY <1>4, <2>3, LookUpPuts
  <2>. QED
    BY <1>5, <2>1, <2>2, <2>3
<1>6. ASSUME NEW r \in Request, Grant(r) PROVE SecretInv'
  <2>1. PICK row \in RequestRow : /\ Put(r, row) /\ Proper(row) /\ Quietly /\ r \in InFlight
                                 /\ row.biscuit = request[r].biscuit
    BY <1>6, GrantPuts
  <2>. QED
    BY <2>1, SecretsPut DEF SecretInv
<1>7. ASSUME NEW r \in Request, NEW p \in Pair, Issue(r, p) PROVE SecretInv'
  <2>1. UNCHANGED <<now, keys>> /\ \A s \in InFlight' : s \in InFlight /\ request'[s] = request[s]
    BY <1>7, InvIssue DEF Issue
  <2>. QED
    BY <2>1 DEF SecretInv, FadesIn, keys
<1>. QED
  BY <1>1, <1>2, <1>3, <1>5, <1>6, <1>7, Steps

(* A revoked secret is used for a second more at most, however long the     *)
(* requests it let through take.                                            *)
THEOREM SecretsFadeHolds == Spec => []SecretsFade
<1>1. Init => SecretInv
  BY DEF Init, SecretInv, InFlight
<1>2. Inv /\ SecretInv => SecretsFade
  <2>. SUFFICES ASSUME Inv, SecretInv, NEW r \in InFlight, request[r].step = "granted",
                      request[r].biscuit.application # NoRow,
                      revoked_at[request[r].biscuit.id] # NoRow
               PROVE  request[r].at <= revoked_at[request[r].biscuit.id] + SecretLifetime
    BY DEF SecretsFade
  <2>. DEFINE b == request[r].biscuit
  <2>1. /\ WellFormed(b) /\ Authorized(b, request[r].action, request[r].target, request[r].at)
        /\ FadesIn(b) /\ request[r].at \in Nat
    BY RequestsAreTyped DEF Inv, AllProper, Proper, SecretInv
  <2>2. b.id \in Key /\ b.expires \in Nat
    BY <2>1, ScopedBiscuits
  <2>3. b.expires # NoRow
    BY <2>2, AuthorizationAssumption
  <2>4. request[r].at < b.expires
    BY <2>1, <2>3 DEF Authorized, IsValid
  <2>5. b.expires <= revoked_at[b.id] + SecretLifetime /\ revoked_at[b.id] \in Nat
    BY <2>1, <2>2 DEF FadesIn, Inv, TypeOK
  <2>. QED
    BY <2>1, <2>2, <2>4, <2>5, CredentialsAssumption
<1>. QED
  BY <1>1, <1>2, SecretStep, Invariant, InvInit, PTL DEF Spec

-----------------------------------------------------------------------------
(* Roles that a biscuit still names, and that its user has or had lately. *)
Recent(u, roles, expires) ==
  \A o \in Organization : roles[o] \in Role =>
    \/ member[u][o] = roles[o]
    \/ /\ left_at[<<u, o, roles[o]>>] # NoRow
       /\ expires <= left_at[<<u, o, roles[o]>>] + AccessLifetime

RightsInv ==
  /\ \A p \in Pair : user_access[p] # NoRow =>
       /\ Recent(user_access[p].user, user_access[p].roles, user_access[p].expired_at)
       /\ user_access[p].expired_at <= now + AccessLifetime
  /\ \A r \in InFlight :
       LET b == request[r].biscuit
       IN /\ b.type = "user_access" =>
               Recent(b.user, b.roles, b.expires) /\ b.expires <= now + AccessLifetime
          /\ request[r].step = "minted" =>
               Recent(b.user, b.roles, request[r].at + AccessLifetime)

(* Times that are compared. *)
LEMMA Dates ==
  ASSUME Inv
  PROVE  /\ now \in Nat /\ AccessLifetime \in Nat /\ AccessLifetime > 0
         /\ \A u \in User, o \in Organization, role \in Role :
              left_at[<<u, o, role>>] # NoRow => left_at[<<u, o, role>>] \in Nat
         /\ \A p \in Pair : user_access[p] # NoRow =>
              /\ user_access[p].expired_at \in Nat /\ user_access[p].user \in User
              /\ user_access[p].roles \in Roles
         /\ \A r \in InFlight :
              /\ request[r].at \in Nat /\ request[r].biscuit.roles \in Roles
              /\ request[r].biscuit.type = "user_access" =>
                   request[r].biscuit.user \in User /\ request[r].biscuit.expires \in Nat
              /\ request[r].step = "minted" =>
                   request[r].biscuit.user \in User /\ request[r].at <= now
<1>1. /\ now \in Nat /\ AccessLifetime \in Nat /\ AccessLifetime > 0
      /\ \A u \in User, o \in Organization, role \in Role :
           left_at[<<u, o, role>>] # NoRow => left_at[<<u, o, role>>] \in Nat
  BY CredentialsAssumption DEF Inv, TypeOK
<1>2. \A p \in Pair : user_access[p] # NoRow =>
        /\ user_access[p].expired_at \in Nat /\ user_access[p].user \in User
        /\ user_access[p].roles \in Roles
  BY RowsAreTyped DEF Inv, AccessRow
<1>3. ASSUME NEW r \in InFlight
      PROVE  /\ request[r].at \in Nat /\ request[r].biscuit.roles \in Roles
             /\ request[r].biscuit.type = "user_access" =>
                  request[r].biscuit.user \in User /\ request[r].biscuit.expires \in Nat
             /\ request[r].step = "minted" =>
                  request[r].biscuit.user \in User /\ request[r].at <= now
  <2>1. request[r].at \in Nat /\ request[r].biscuit.roles \in Roles
    BY RequestsAreTyped DEF Inv, Biscuit
  <2>2. Proper(request[r])
    BY DEF Inv, AllProper
  <2>3. request[r].step = "minted" => request[r].at <= now
    BY DEF Inv, Holding
  <2>. QED
    BY <2>1, <2>2, <2>3 DEF Proper, WellFormed
<1>. QED
  BY <1>1, <1>2, <1>3

LEMMA RecentEarlier ==
  ASSUME Inv, NEW u \in User, NEW roles \in Roles, NEW e \in Nat, NEW f \in Nat, e <= f,
         Recent(u, roles, f)
  PROVE  Recent(u, roles, e)
BY Dates DEF Recent

LEMMA RecentSame ==
  ASSUME UNCHANGED <<member, left_at>>, NEW u, NEW roles, NEW e, Recent(u, roles, e)
  PROVE  Recent(u, roles, e)'
BY DEF Recent

LEMMA RecentAfterSetRole ==
  ASSUME Inv, NEW v \in User, NEW q, NEW new \in Role \cup {NoRow}, SetRole(v, q, new),
         NEW u \in User, NEW roles \in Roles, NEW e \in Nat, e <= now + AccessLifetime,
         Recent(u, roles, e)
  PROVE  Recent(u, roles, e)'
<1>. SUFFICES ASSUME NEW o \in Organization, roles[o] \in Role
             PROVE  \/ member'[u][o] = roles[o]
                    \/ /\ left_at'[<<u, o, roles[o]>>] # NoRow
                       /\ e <= left_at'[<<u, o, roles[o]>>] + AccessLifetime
  BY DEF Recent
<1>1. /\ member \in [User -> Roles] /\ now \in Nat /\ now # NoRow
      /\ left_at \in [User \X Organization \X Role -> Nat \cup {NoRow}]
  BY AuthorizationAssumption DEF Inv, TypeOK
<1>2. <<u, o, roles[o]>> \in User \X Organization \X Role
  OBVIOUS
<1>3. \/ member[u][o] = roles[o]
      \/ /\ left_at[<<u, o, roles[o]>>] # NoRow
         /\ e <= left_at[<<u, o, roles[o]>>] + AccessLifetime
  BY DEF Recent
<1>4. CASE v = u /\ q = o /\ member[u][o] = roles[o] /\ new # roles[o]
  <2>1. member[v][q] \in Role \ {new}
    BY <1>4
  <2>2. left_at' = [left_at EXCEPT ![<<u, o, roles[o]>>] = now]
    BY <1>4, <2>1 DEF SetRole
  <2>3. left_at'[<<u, o, roles[o]>>] = now
    BY <1>1, <1>2, <2>2
  <2>. QED
    BY <1>1, <2>3
<1>5. CASE ~(v = u /\ q = o /\ member[u][o] = roles[o] /\ new # roles[o])
  <2>1. member[u][o] = roles[o] => member'[u][o] = roles[o]
    BY <1>1, <1>5 DEF SetRole, Roles
  <2>2. left_at'[<<u, o, roles[o]>>] \in {left_at[<<u, o, roles[o]>>], now}
    BY <1>1, <1>2 DEF SetRole
  <2>. QED
    BY <1>1, <1>3, <2>1, <2>2
<1>. QED
  BY <1>4, <1>5

LEMMA RightsQuiet ==
  ASSUME Inv, RightsInv, Quiet,
         \A u \in User, roles \in Roles, e \in Nat :
           e <= now + AccessLifetime /\ Recent(u, roles, e) => Recent(u, roles, e)'
  PROVE  RightsInv'
<1>1. now \in Nat /\ now' \in Nat /\ now <= now' /\ AccessLifetime \in Nat
  BY Dates DEF Quiet
<1>2. ASSUME NEW p \in Pair, user_access'[p] # NoRow
      PROVE  /\ Recent(user_access[p].user, user_access[p].roles, user_access[p].expired_at)'
             /\ user_access'[p].expired_at <= now' + AccessLifetime
  <2>. DEFINE old == user_access[p]
              new == user_access'[p]
  <2>1. /\ old # NoRow /\ new.user = old.user /\ new.roles = old.roles
        /\ new.expired_at <= old.expired_at
    BY <1>2 DEF Quiet, TokensFade, Fades, SameRoles
  <2>2. new.expired_at \in Nat
    BY <1>2 DEF Quiet, TokensTyped, AccessRow
  <2>3. /\ old.expired_at \in Nat /\ old.user \in User /\ old.roles \in Roles
        /\ Recent(old.user, old.roles, old.expired_at)
        /\ old.expired_at <= now + AccessLifetime
    BY <2>1, Dates DEF RightsInv
  <2>4. Recent(old.user, old.roles, new.expired_at)
    BY <2>1, <2>2, <2>3, RecentEarlier
  <2>5. new.expired_at <= now + AccessLifetime
    BY <1>1, <2>1, <2>2, <2>3
  <2>6. \A u \in User, roles \in Roles, e \in Nat :
          u = old.user /\ roles = old.roles /\ e = new.expired_at => Recent(u, roles, e)'
    BY <2>4, <2>5
  <2>7. Recent(user_access[p].user, user_access[p].roles, user_access[p].expired_at)'
    BY <2>1, <2>2, <2>3, <2>6
  <2>. QED
    BY <1>1, <2>2, <2>5, <2>7
<1>3. ASSUME NEW r \in InFlight'
      PROVE  /\ request'[r].biscuit.type = "user_access" =>
                  /\ Recent(request[r].biscuit.user, request[r].biscuit.roles,
                            request[r].biscuit.expires)'
                  /\ request'[r].biscuit.expires <= now' + AccessLifetime
             /\ request'[r].step = "minted" =>
                  Recent(request[r].biscuit.user, request[r].biscuit.roles,
                         request[r].at + AccessLifetime)'
  <2>1. r \in InFlight /\ request'[r] = request[r]
    BY DEF Quiet
  <2>. DEFINE b == request[r].biscuit
  <2>2. ASSUME b.type = "user_access"
        PROVE  /\ b.user \in User /\ b.roles \in Roles /\ b.expires \in Nat
               /\ Recent(b.user, b.roles, b.expires) /\ b.expires <= now + AccessLifetime
    BY <2>1, <2>2, Dates DEF RightsInv
  <2>3. ASSUME request[r].step = "minted"
        PROVE  /\ b.user \in User /\ b.roles \in Roles
               /\ request[r].at + AccessLifetime \in Nat
               /\ request[r].at + AccessLifetime <= now + AccessLifetime
               /\ Recent(b.user, b.roles, request[r].at + AccessLifetime)
    <3>1. /\ b.user \in User /\ b.roles \in Roles /\ request[r].at \in Nat
          /\ request[r].at <= now
      BY <2>1, <2>3, Dates
    <3>. QED
      BY <1>1, <2>1, <2>3, <3>1 DEF RightsInv
  <2>4. \A u \in User, roles \in Roles, e \in Nat :
          /\ b.type = "user_access" /\ u = b.user /\ roles = b.roles /\ e = b.expires =>
               Recent(u, roles, e)'
          /\ request[r].step = "minted" /\ u = b.user /\ roles = b.roles
               /\ e = request[r].at + AccessLifetime => Recent(u, roles, e)'
    BY <2>2, <2>3
  <2>5. b.type = "user_access" =>
          Recent(request[r].biscuit.user, request[r].biscuit.roles,
                 request[r].biscuit.expires)'
    BY <2>1, <2>2, <2>4
  <2>6. request[r].step = "minted" =>
          Recent(request[r].biscuit.user, request[r].biscuit.roles,
                 request[r].at + AccessLifetime)'
    BY <2>1, <2>3, <2>4
  <2>. QED
    BY <1>1, <2>1, <2>2, <2>5, <2>6
<1>. QED
  BY <1>2, <1>3 DEF RightsInv

LEMMA RightsPut ==
  ASSUME Inv, RightsInv, NEW r \in Request, NEW row \in RequestRow, Put(r, row), Proper(row),
         Quietly,
         row.biscuit.type = "user_access" =>
           /\ Recent(row.biscuit.user, row.biscuit.roles, row.biscuit.expires)
           /\ row.biscuit.expires <= now + AccessLifetime,
         row.step = "minted" =>
           Recent(row.biscuit.user, row.biscuit.roles, row.at + AccessLifetime)
  PROVE  RightsInv'
<1>1. UNCHANGED <<now, member, left_at, user_access>>
  BY DEF Quietly, people, tokens
<1>2. /\ InFlight' = InFlight \cup {r} /\ request'[r] = row
      /\ \A s \in Request : s # r => request'[s] = request[s]
  BY PutIsTyped DEF Inv
<1>3. ASSUME NEW s \in InFlight'
      PROVE  s = r \/ (s \in InFlight /\ request'[s] = request[s])
  <2>1. InFlight \subseteq Request
    BY DEF InFlight
  <2>. QED
    BY <1>2, <2>1
<1>. QED
  BY <1>1, <1>2, <1>3 DEF RightsInv, Recent

LEMMA RightsIssue ==
  ASSUME Inv, RightsInv, NEW r \in Request, NEW p \in Pair, Issue(r, p)
  PROVE  RightsInv'
<1>1. UNCHANGED <<now, member, left_at>>
  BY DEF Issue, people
<1>2. \A s \in InFlight' : s \in InFlight /\ request'[s] = request[s]
  BY InvIssue
<1>3. /\ r \in InFlight /\ request[r].step = "minted"
      /\ request[r].at \in Nat /\ request[r].at <= now
      /\ user_access'[p].user = request[r].biscuit.user
      /\ user_access'[p].roles = request[r].biscuit.roles
      /\ user_access'[p].expired_at = request[r].at + AccessLifetime
      /\ \A q \in Pair \ {p} : user_access'[q] = user_access[q]
  BY IssuedRows
<1>4. Recent(request[r].biscuit.user, request[r].biscuit.roles, request[r].at + AccessLifetime)
  BY <1>3 DEF RightsInv
<1>5. /\ Recent(user_access'[p].user, user_access'[p].roles, user_access'[p].expired_at)
      /\ user_access'[p].expired_at <= now + AccessLifetime
  BY <1>3, <1>4, Dates
<1>. QED
  BY <1>1, <1>2, <1>3, <1>5, SMTT(30) DEF RightsInv, Recent

LEMMA MembersAreRecent ==
  ASSUME Inv, NEW u \in User, NEW e
  PROVE  Recent(u, member[u], e)
BY DEF Recent

LEMMA RightsStep == Inv /\ RightsInv /\ [Next]_vars => RightsInv'
<1>. SUFFICES ASSUME Inv, RightsInv, [Next]_vars PROVE RightsInv'
  OBVIOUS
<1>1. CASE Alone
  <2>1. UNCHANGED <<member, left_at>>
    BY <1>1
    DEF Alone, vars, people, CleanUp, Tick, VerifyEmail, ResetPassword, DoChangePassword,
        EndSessions, FailToEnd
  <2>. QED
    BY <1>1, <2>1, AloneIsQuiet, RightsQuiet, RecentSame
<1>2. ASSUME NEW r \in Request, Effect(r) PROVE RightsInv'
  <2>1. CASE UNCHANGED <<member, left_at>>
    BY <1>2, <2>1, EffectIsQuiet, RightsQuiet, RecentSame
  <2>2. ASSUME NEW u \in User, NEW role \in Role,
               EditRole(r, u, role) \/ Invite(r, u, role) \/ Revoke(r, u)
        PROVE  RightsInv'
    <3>1. PICK new \in Role \cup {NoRow} : SetRole(u, request[r].target, new)
      BY <2>2, RolesAreQuiet
    <3>. QED
      BY <1>2, <3>1, EffectIsQuiet, RightsQuiet, RecentAfterSetRole
  <2>3. "viewer" \in Role
    BY DEF Role
  <2>. QED
    BY <1>2, <2>1, <2>2, <2>3
    DEF Effect, Return, Logout, ChangePassword, DoChangePassword, DeleteApplication,
        CreateKey, DeleteKey, people
<1>3. ASSUME NEW r \in Request, ComesIn(r) PROVE RightsInv'
  <2>1. PICK b \in Accepted, row \in RequestRow :
          /\ Put(r, row) /\ Proper(row) /\ Quietly /\ row.biscuit = b
          /\ row.step = "authenticated"
    BY <1>3, AuthenticatePuts DEF ComesIn
  <2>2. b.type = "user_access" =>
          /\ Recent(b.user, b.roles, b.expires)
          /\ b.expires <= now + AccessLifetime
    BY AcceptedIsTyped, LiveAccessIsTyped DEF Inv, RightsInv, IsLive
  <2>. QED
    BY <2>1, <2>2, RightsPut
<1>4. ASSUME NEW r \in Request, NEW row \in RequestRow, Put(r, row), Proper(row), Quietly,
             row.biscuit.type \in {"password", "refresh"},
             row.step = "minted" => row.biscuit.roles = member[row.biscuit.user]
      PROVE  RightsInv'
  <2>1. row.biscuit.user \in User
    BY <1>4 DEF Proper, WellFormed
  <2>2. row.step = "minted" =>
          Recent(row.biscuit.user, row.biscuit.roles, row.at + AccessLifetime)
    BY <1>4, <2>1, MembersAreRecent
  <2>. QED
    BY <1>4, <2>2, RightsPut
<1>5. ASSUME NEW r \in Request, SignIn(r) \/ Exchange(r) \/ \E u \in User : LookUp(r, u)
      PROVE  RightsInv'
  <2>1. CASE SignIn(r)
    BY <1>4, <2>1, SignInPuts
  <2>2. CASE Exchange(r)
    BY <1>4, <2>2, ExchangePuts
  <2>3. ASSUME NEW u \in User, LookUp(r, u) PROVE RightsInv'
    BY <1>4, <2>3, LookUpPuts
  <2>. QED
    BY <1>5, <2>1, <2>2, <2>3
<1>6. ASSUME NEW r \in Request, Grant(r) PROVE RightsInv'
  <2>1. PICK row \in RequestRow : /\ Put(r, row) /\ Proper(row) /\ Quietly /\ r \in InFlight
                                 /\ row.step = "granted" /\ row.biscuit = request[r].biscuit
    BY <1>6, GrantPuts
  <2>. QED
    BY <2>1, RightsPut DEF RightsInv
<1>7. ASSUME NEW r \in Request, NEW p \in Pair, Issue(r, p) PROVE RightsInv'
  BY <1>7, RightsIssue
<1>. QED
  BY <1>1, <1>2, <1>3, <1>5, <1>6, <1>7, Steps

(* A user acts by a role that they have, or that they have lost for less    *)
(* than the lifetime of an access token, for any number of roles changed    *)
(* and sessions refreshed in between.                                       *)
THEOREM RightsAreRecentHolds == Spec => []RightsAreRecent
<1>1. Init => RightsInv
  BY DEF Init, RightsInv, InFlight
<1>2. Inv /\ RightsInv => RightsAreRecent
  <2>. SUFFICES ASSUME Inv, RightsInv, NEW r \in InFlight, request[r].step = "granted",
                      request[r].biscuit.type = "user_access", request[r].target # NoRow
               PROVE  \E role \in AllowedRoles(request[r].action) :
                        \E time \in 0 .. request[r].at :
                          /\ HeldAt(request[r].biscuit.user, OrganizationOf(request[r].target),
                                    role, time)
                          /\ request[r].at < time + AccessLifetime
    BY DEF RightsAreRecent
  <2>. DEFINE b == request[r].biscuit
              o == OrganizationOf(request[r].target)
              role == b.roles[o]
  <2>1. /\ request[r].action \in Action /\ request[r].target \in Targets(request[r].action)
        /\ Authorized(b, request[r].action, request[r].target, request[r].at)
    BY DEF Inv, AllProper, Proper
  <2>2. o \in Organization
    BY <2>1, AuthorizationAssumption DEF OrganizationOf, Targets
  <2>3. role \in AllowedRoles(request[r].action)
    BY <2>1 DEF Authorized, HasRole
  <2>4. role \in Role
    BY <2>3 DEF AllowedRoles, Role
  <2>5. /\ request[r].at \in Nat /\ b.expires \in Nat /\ b.user \in User
        /\ AccessLifetime \in Nat /\ AccessLifetime > 0
    BY Dates
  <2>6. request[r].at < b.expires
    BY <2>1, <2>5, AuthorizationAssumption DEF Authorized, IsValid
  <2>7. Recent(b.user, b.roles, b.expires)
    BY DEF RightsInv
  <2>. HIDE DEF b, o
  <2>8. CASE member[b.user][o] = role
    BY <2>3, <2>5, <2>8 DEF HeldAt, b, o
  <2>9. CASE /\ left_at[<<b.user, o, role>>] # NoRow
             /\ b.expires <= left_at[<<b.user, o, role>>] + AccessLifetime
    <3>. DEFINE left == left_at[<<b.user, o, role>>]
    <3>1. left \in Nat
      BY <2>2, <2>4, <2>5, <2>9, Dates
    <3>2. CASE left <= request[r].at
      <4>1. left \in 0 .. request[r].at /\ request[r].at < left + AccessLifetime
        BY <2>5, <2>6, <2>9, <3>1, <3>2
      <4>2. HeldAt(b.user, o, role, left)
        BY <2>9, <3>1 DEF HeldAt
      <4>. QED
        BY <2>3, <4>1, <4>2 DEF b, o
    <3>3. CASE ~(left <= request[r].at)
      <4>1. request[r].at \in 0 .. request[r].at /\ request[r].at < request[r].at + AccessLifetime
        BY <2>5
      <4>2. HeldAt(b.user, o, role, request[r].at)
        BY <2>5, <2>9, <3>1, <3>3 DEF HeldAt
      <4>. QED
        BY <2>3, <4>1, <4>2 DEF b, o
    <3>. QED
      BY <3>2, <3>3
  <2>. QED
    BY <2>2, <2>4, <2>7, <2>8, <2>9 DEF Recent
<1>. QED
  BY <1>1, <1>2, RightsStep, Invariant, InvInit, PTL DEF Spec

-----------------------------------------------------------------------------
(* A session belongs to one user; a login has a session of its own until it *)
(* inserts its tokens.                                                      *)
HasRow(u, s) ==
  \E p \in Pair :
    \/ user_access[p] # NoRow /\ user_access[p].user = u /\ user_access[p].session = s
    \/ refresh[p] # NoRow /\ refresh[p].user = u /\ refresh[p].session = s

Carries(r, u, s) ==
  r \in InFlight /\ request[r].biscuit.user = u /\ request[r].biscuit.session = s

Owns(u, s) == HasRow(u, s) \/ \E r \in Request : Carries(r, u, s)

Apart(r) ==
  /\ \A u \in User : ~HasRow(u, request[r].biscuit.session)
  /\ \A q \in InFlight \ {r} : request[q].biscuit.session # request[r].biscuit.session

SessionInv ==
  /\ \A u, v \in User, s \in Session : Owns(u, s) /\ Owns(v, s) => u = v
  /\ \A r \in InFlight : request[r].biscuit.type = "password" => Apart(r)

LEMMA RowsAreOwned ==
  ASSUME TypeOK, NEW p \in Pair
  PROVE  /\ user_access[p] # NoRow =>
              /\ user_access[p].user \in User /\ user_access[p].session \in Session
              /\ user_access[p].expired_at \in Nat
              /\ HasRow(user_access[p].user, user_access[p].session)
         /\ refresh[p] # NoRow =>
              /\ refresh[p].user \in User /\ refresh[p].session \in Session
              /\ refresh[p].expired_at \in Nat
              /\ HasRow(refresh[p].user, refresh[p].session)
BY RowsAreTyped DEF HasRow, AccessRow, RefreshRow

LEMMA AcceptedIsOwned ==
  ASSUME TypeOK, NEW b \in Accepted, b.session \in Session
  PROVE  b.user \in User /\ HasRow(b.user, b.session)
<1>1. /\ WellFormed(b) /\ b.type \in TokenType
      /\ b.type = "user_access" => b \in LiveAccess
      /\ b.type = "refresh" => b \in LiveRefresh
  BY AcceptedIsTyped
<1>2. b.session # NoRow
  BY AuthorizationAssumption
<1>3. b.type \in {"user_access", "refresh"}
  BY <1>1, <1>2 DEF WellFormed, TokenType
<1>4. CASE b.type = "user_access"
  <2>1. \E p \in Pair : /\ user_access[p] # NoRow /\ b.user = user_access[p].user
                        /\ b.session = user_access[p].session
    BY <1>1, <1>4, LiveAccessIsTyped DEF IsLive
  <2>. QED
    BY <2>1, RowsAreOwned
<1>5. CASE b.type = "refresh"
  <2>1. /\ b.id \in Pair /\ refresh[b.id] # NoRow /\ b.user = refresh[b.id].user
        /\ b.session = refresh[b.id].session
    BY <1>1, <1>5, LiveRefreshIsTyped DEF IsLive
  <2>. QED
    BY <2>1, RowsAreOwned
<1>. QED
  BY <1>3, <1>4, <1>5

LEMMA SessionQuiet ==
  ASSUME Inv, SessionInv, Quiet
  PROVE  SessionInv'
<1>1. \A u, s : HasRow(u, s)' => HasRow(u, s)
  BY DEF Quiet, TokensFade, Fades, HasRow
<1>2. \A r : r \in InFlight' => r \in InFlight /\ request'[r] = request[r]
  BY DEF Quiet
<1>3. \A r, u, s : Carries(r, u, s)' => Carries(r, u, s)
  BY <1>2 DEF Carries
<1>4. \A u, s : Owns(u, s)' => Owns(u, s)
  BY <1>1, <1>3 DEF Owns
<1>. QED
  BY <1>1, <1>2, <1>4 DEF SessionInv, Apart

LEMMA SessionPut ==
  ASSUME Inv, SessionInv, NEW r \in Request, NEW row \in RequestRow, Put(r, row), Proper(row),
         Quietly,
         row.biscuit.session \in Session =>
           \/ Owns(row.biscuit.user, row.biscuit.session) /\ row.biscuit.user \in User
           \/ \A v \in User : ~Owns(v, row.biscuit.session),
         row.biscuit.type = "password" =>
           /\ \A u \in User : ~HasRow(u, row.biscuit.session)
           /\ \A q \in InFlight \ {r} : request[q].biscuit.session # row.biscuit.session,
         \A q \in InFlight \ {r} :
           request[q].biscuit.type = "password" =>
             request[q].biscuit.session # row.biscuit.session
  PROVE  SessionInv'
<1>1. UNCHANGED <<user_access, refresh>>
  BY DEF Quietly, tokens
<1>2. /\ InFlight' = InFlight \cup {r} /\ request'[r] = row
      /\ \A s \in Request : s # r => request'[s] = request[s]
  BY PutIsTyped DEF Inv
<1>3. ASSUME NEW q \in InFlight'
      PROVE  q = r \/ (q \in InFlight \ {r} /\ request'[q] = request[q])
  <2>1. InFlight \subseteq Request
    BY DEF InFlight
  <2>. QED
    BY <1>2, <2>1
<1>4. \A u, s : HasRow(u, s)' = HasRow(u, s)
  BY <1>1 DEF HasRow
<1>5. \A q, u, s : Carries(q, u, s)' =>
        \/ Carries(q, u, s)
        \/ u = row.biscuit.user /\ s = row.biscuit.session
  BY <1>2, <1>3 DEF Carries
<1>6. \A u, s : Owns(u, s)' =>
        \/ Owns(u, s)
        \/ u = row.biscuit.user /\ s = row.biscuit.session
  BY <1>4, <1>5 DEF Owns
<1>7. ASSUME NEW u \in User, NEW v \in User, NEW s \in Session, Owns(u, s)', Owns(v, s)'
      PROVE  u = v
  BY <1>6, <1>7 DEF SessionInv
<1>8. ASSUME NEW q \in InFlight', request'[q].biscuit.type = "password"
      PROVE  Apart(q)'
  <2>1. CASE q = r
    BY <1>2, <1>3, <1>4, <1>8, <2>1 DEF Apart
  <2>2. CASE q \in InFlight \ {r} /\ request'[q] = request[q]
    <3>1. Apart(q)
      BY <1>8, <2>2 DEF SessionInv
    <3>2. request[q].biscuit.session # row.biscuit.session
      BY <1>8, <2>2
    <3>. QED
      BY <1>2, <1>3, <1>4, <2>2, <3>1, <3>2 DEF Apart
  <2>. QED
    BY <1>3, <2>1, <2>2
<1>. QED
  BY <1>7, <1>8 DEF SessionInv

LEMMA SessionIssue ==
  ASSUME Inv, SessionInv, NEW r \in Request, NEW p \in Pair, Issue(r, p)
  PROVE  SessionInv'
<1>. DEFINE b == request[r].biscuit
<1>1. \A q \in InFlight' : q \in InFlight \ {r} /\ request'[q] = request[q]
  BY InvIssue
<1>2. /\ r \in InFlight /\ b.user \in User /\ b.session \in Session
      /\ user_access'[p].user = b.user /\ user_access'[p].session = b.session
      /\ refresh'[p].user = b.user /\ refresh'[p].session = b.session
      /\ \A q \in Pair \ {p} :
           /\ user_access'[q] = user_access[q]
           /\ q # b.id => refresh'[q] = refresh[q]
           /\ q = b.id => /\ refresh[q] # NoRow
                          /\ refresh'[q].user = refresh[q].user
                          /\ refresh'[q].session = refresh[q].session
  BY IssuedRows
<1>3. \A u, s : HasRow(u, s)' => HasRow(u, s) \/ (u = b.user /\ s = b.session)
  <2>. SUFFICES ASSUME NEW u, NEW s, HasRow(u, s)', ~(u = b.user /\ s = b.session)
               PROVE  HasRow(u, s)
    OBVIOUS
  <2>1. PICK q \in Pair :
          \/ /\ user_access'[q] # NoRow /\ user_access'[q].user = u
             /\ user_access'[q].session = s
          \/ refresh'[q] # NoRow /\ refresh'[q].user = u /\ refresh'[q].session = s
    BY DEF HasRow
  <2>2. q # p
    BY <1>2, <2>1
  <2>. QED
    BY <1>2, <2>1, <2>2 DEF HasRow
<1>4. \A q, u, s : Carries(q, u, s)' => Carries(q, u, s)
  BY <1>1 DEF Carries
<1>5. Carries(r, b.user, b.session)
  BY <1>2 DEF Carries
<1>6. \A u, s : Owns(u, s)' => Owns(u, s)
  BY <1>3, <1>4, <1>5 DEF Owns
<1>7. ASSUME NEW q \in InFlight', request'[q].biscuit.type = "password"
      PROVE  Apart(q)'
  <2>1. q \in InFlight \ {r} /\ request'[q] = request[q] /\ Apart(q)
    BY <1>1, <1>7 DEF SessionInv
  <2>2. request[q].biscuit.session # b.session
    BY <1>2, <2>1 DEF Apart
  <2>. QED
    BY <1>1, <1>3, <2>1, <2>2 DEF Apart
<1>. QED
  BY <1>6, <1>7 DEF SessionInv

LEMMA SessionStep == Inv /\ SessionInv /\ [Next]_vars => SessionInv'
<1>. SUFFICES ASSUME Inv, SessionInv, [Next]_vars PROVE SessionInv'
  OBVIOUS
<1>1. CASE Alone
  BY <1>1, AloneIsQuiet, SessionQuiet
<1>2. ASSUME NEW r \in Request, Effect(r) PROVE SessionInv'
  BY <1>2, EffectIsQuiet, SessionQuiet
<1>3. ASSUME NEW r \in Request, ComesIn(r) PROVE SessionInv'
  <2>1. PICK b \in Accepted, row \in RequestRow :
          /\ Put(r, row) /\ Proper(row) /\ Quietly /\ row.biscuit = b
          /\ row.step = "authenticated"
    BY <1>3, AuthenticatePuts DEF ComesIn
  <2>2. b.type # "password"
    BY <2>1 DEF Proper
  <2>3. b.session \in Session =>
          b.user \in User /\ HasRow(b.user, b.session) /\ Owns(b.user, b.session)
    BY AcceptedIsOwned DEF Inv, Owns
  <2>4. ASSUME NEW q \in InFlight, request[q].biscuit.type = "password"
        PROVE  request[q].biscuit.session # b.session
    <3>1. request[q].biscuit.session \in Session /\ Apart(q)
      BY <2>4 DEF Inv, AllProper, Proper, WellFormed, SessionInv
    <3>. QED
      BY <2>3, <3>1 DEF Apart
  <2>. QED
    BY <2>1, <2>2, <2>3, <2>4, SessionPut
<1>4. ASSUME NEW r \in InFlight, NEW row \in RequestRow, Put(r, row), Proper(row), Quietly,
             row.biscuit.type = request[r].biscuit.type,
             row.biscuit.user = request[r].biscuit.user,
             row.biscuit.session = request[r].biscuit.session
      PROVE  SessionInv'
  <2>1. r \in Request /\ Proper(request[r])
    BY DEF InFlight, Inv, AllProper
  <2>2. Owns(row.biscuit.user, row.biscuit.session)
    BY <1>4, <2>1 DEF Owns, Carries
  <2>3. row.biscuit.session \in Session => row.biscuit.user \in User
    <3>1. row.biscuit.type \in {"password", "user_access", "refresh"}
            => row.biscuit.user \in User
      BY <1>4 DEF Proper, WellFormed
    <3>2. row.biscuit.type \in {"service_access", "master_access"} => row.biscuit.session = NoRow
      BY <1>4 DEF Proper, WellFormed
    <3>3. row.biscuit.type \in TokenType \cup {"password"}
      BY DEF RequestRow, Biscuit
    <3>. QED
      BY <3>1, <3>2, <3>3, AuthorizationAssumption DEF TokenType
  <2>4. request[r].biscuit.type = "password" => Apart(r)
    BY DEF SessionInv
  <2>5. \A q \in InFlight \ {r} :
          request[q].biscuit.type = "password" =>
            request[q].biscuit.session # request[r].biscuit.session
    BY DEF SessionInv, Apart
  <2>. QED
    BY <1>4, <2>1, <2>2, <2>3, <2>4, <2>5, SessionPut DEF Apart
<1>5. ASSUME NEW r \in Request, SignIn(r) \/ Exchange(r) \/ Grant(r)
      PROVE  SessionInv'
  <2>1. CASE SignIn(r)
    BY <1>4, <2>1, SignInPuts
  <2>2. CASE Exchange(r)
    BY <1>4, <2>2, ExchangePuts
  <2>3. CASE Grant(r)
    BY <1>4, <2>3, GrantPuts
  <2>. QED
    BY <1>5, <2>1, <2>2, <2>3
<1>6. ASSUME NEW r \in Request, NEW u \in User, LookUp(r, u) PROVE SessionInv'
  <2>1. PICK row \in RequestRow :
          /\ Put(r, row) /\ Proper(row) /\ Quietly
          /\ IsNew(row.biscuit.session)
    BY <1>6, LookUpPuts
  <2>. DEFINE s == row.biscuit.session
  <2>2. \A v \in User : ~HasRow(v, s)
    BY <2>1 DEF IsNew, SessionsOf, HasRow
  <2>3. \A q \in InFlight : request[q].biscuit.session # s
    BY <2>1 DEF IsNew
  <2>4. \A v \in User : ~Owns(v, s)
    BY <2>2, <2>3 DEF Owns, Carries
  <2>. QED
    BY <2>1, <2>2, <2>3, <2>4, SessionPut
<1>7. ASSUME NEW r \in Request, NEW p \in Pair, Issue(r, p) PROVE SessionInv'
  BY <1>7, SessionIssue
<1>. QED
  BY <1>1, <1>2, <1>3, <1>5, <1>6, <1>7, Steps

LEMMA SessionInvariant == Spec => []SessionInv
<1>1. Init => SessionInv
  BY DEF Init, SessionInv, InFlight, Owns, HasRow, Carries
<1>. QED
  BY <1>1, SessionStep, Invariant, InvInit, PTL DEF Spec

-----------------------------------------------------------------------------
(* A session without live tokens but in these rows, and without a request   *)
(* that will mint some.                                                     *)
Closed(s, rows) ==
  /\ \A p \in Pair \ rows :
       user_access[p] # NoRow /\ user_access[p].session = s => ~IsLive(user_access[p])
  /\ \A p \in Pair \ rows :
       refresh[p] # NoRow /\ refresh[p].session = s => ~IsLive(refresh[p])
  /\ \A r \in SigningIn : request[r].biscuit.session # s

(* A running UPDATE has found all there was to end: what was in flight, and *)
(* what came in since, is late.                                             *)
UpdatesAreComplete ==
  \A q \in Running :
    /\ update[q].at <= now
    /\ \A s \in update[q].sessions \ update[q].late : Closed(s, update[q].rows)

EndedInv == EndedSessionsStayEnded /\ UpdatesAreComplete

LEMMA SigningInIsTyped ==
  ASSUME Inv, NEW r \in SigningIn
  PROVE  /\ r \in InFlight /\ request[r].biscuit.type \in {"password", "refresh"}
         /\ request[r].biscuit.user \in User /\ request[r].biscuit.session \in Session
         /\ request[r].biscuit.type = "refresh" => request[r].biscuit.expires \in Nat
<1>1. r \in InFlight /\ Proper(request[r])
  BY DEF SigningIn, Inv, AllProper
<1>2. request[r].biscuit.type \in {"password", "refresh"}
  BY <1>1 DEF SigningIn, Proper
<1>. QED
  BY <1>1, <1>2 DEF Proper, WellFormed

LEMMA LiveLess ==
  ASSUME Inv, Quiet, NEW p \in Pair
  PROVE  /\ IsLive(user_access[p])' =>
              IsLive(user_access[p]) /\ user_access'[p].session = user_access[p].session
         /\ IsLive(refresh[p])' =>
              IsLive(refresh[p]) /\ refresh'[p].session = refresh[p].session
<1>1. now \in Nat /\ now' \in Nat /\ now <= now'
  BY DEF Quiet, Inv, TypeOK
<1>2. /\ user_access[p] # NoRow => user_access[p].expired_at \in Nat
      /\ refresh[p] # NoRow => refresh[p].expired_at \in Nat
  BY RowsAreOwned DEF Inv
<1>3. /\ user_access'[p] # NoRow => user_access'[p].expired_at \in Nat
      /\ refresh'[p] # NoRow => refresh'[p].expired_at \in Nat
  BY DEF Quiet, TokensTyped, AccessRow, RefreshRow
<1>. QED
  BY <1>1, <1>2, <1>3 DEF Quiet, TokensFade, Fades, IsLive

LEMMA SigningInLess ==
  ASSUME Inv, Quiet, NEW r \in SigningIn'
  PROVE  r \in SigningIn /\ request'[r] = request[r]
<1>1. r \in InFlight /\ request'[r] = request[r] /\ Proper(request[r])
  BY DEF SigningIn, Quiet, Inv, AllProper
<1>2. now \in Nat /\ now' \in Nat /\ now <= now'
  BY DEF Quiet, Inv, TypeOK
<1>3. CASE request[r].step \in {"verified", "minted"}
  BY <1>1, <1>3 DEF SigningIn
<1>4. CASE request[r].action = "auth:refresh" /\ MayRefresh(request[r].biscuit, now')
  <2>1. request[r].biscuit.type = "refresh" /\ request[r].biscuit.expires \in Nat
    BY <1>1, <1>4 DEF Proper, WellFormed, MayRefresh
  <2>2. MayRefresh(request[r].biscuit, now)
    BY <1>2, <1>4, <2>1 DEF MayRefresh
  <2>. QED
    BY <1>1, <1>4, <2>2 DEF SigningIn
<1>. QED
  BY <1>1, <1>3, <1>4 DEF SigningIn

LEMMA ClosedQuiet ==
  ASSUME Inv, Quiet, NEW s, NEW rows, Closed(s, rows)
  PROVE  Closed(s, rows)'
<1>1. \A p \in Pair \ rows : user_access'[p].session = s => ~IsLive(user_access[p])'
  BY LiveLess DEF Closed, IsLive
<1>2. \A p \in Pair \ rows : refresh'[p].session = s => ~IsLive(refresh[p])'
  BY LiveLess DEF Closed, IsLive
<1>3. \A r \in SigningIn' : request'[r].biscuit.session # s
  BY SigningInLess DEF Closed
<1>. QED
  BY <1>1, <1>2, <1>3 DEF Closed

LEMMA ClosedPut ==
  ASSUME Inv, NEW r \in Request, NEW row \in RequestRow, Put(r, row), Proper(row), Quietly,
         NEW s, NEW rows, Closed(s, rows),
         \/ row.step = "granted"
         \/ row.step = "authenticated" /\ row.action # "auth:refresh"
         \/ row.biscuit.session # s
  PROVE  Closed(s, rows)'
<1>1. UNCHANGED <<now, user_access, refresh>>
  BY DEF Quietly, tokens
<1>2. /\ InFlight' = InFlight \cup {r} /\ request'[r] = row
      /\ \A q \in Request : q # r => request'[q] = request[q]
  BY PutIsTyped DEF Inv
<1>3. ASSUME NEW q \in InFlight'
      PROVE  q = r \/ (q \in InFlight /\ request'[q] = request[q])
  <2>1. InFlight \subseteq Request
    BY DEF InFlight
  <2>. QED
    BY <1>2, <2>1
<1>4. \A q \in SigningIn' : q # r => q \in SigningIn /\ request'[q] = request[q]
  BY <1>1, <1>3 DEF SigningIn
<1>5. row.step = "granted" => row.action # "auth:refresh"
  BY DEF Proper, Action, Personal, OnApplication, OnOrganization
<1>6. r \in SigningIn' => row.biscuit.session # s
  BY <1>2, <1>5 DEF SigningIn
<1>7. \A q \in SigningIn' : request'[q].biscuit.session # s
  BY <1>2, <1>4, <1>6 DEF Closed
<1>. QED
  BY <1>1, <1>7 DEF Closed, IsLive

(* Whoever inserts tokens was about to.                                     *)
LEMMA ClosedIssue ==
  ASSUME Inv, NEW r \in Request, NEW p \in Pair, Issue(r, p), NEW s, NEW rows, Closed(s, rows)
  PROVE  Closed(s, rows)'
<1>. DEFINE b == request[r].biscuit
<1>1. UNCHANGED now /\ now \in Nat
  BY DEF Issue, Inv, TypeOK
<1>2. \A q \in InFlight' : q \in InFlight /\ request'[q] = request[q]
  BY InvIssue
<1>3. /\ r \in SigningIn /\ request[r].at \in Nat /\ request[r].at <= now
      /\ user_access'[p].session = b.session /\ refresh'[p].session = b.session
      /\ \A q \in Pair \ {p} :
           /\ user_access'[q] = user_access[q]
           /\ q # b.id => refresh'[q] = refresh[q]
           /\ q = b.id => refresh'[q].expired_at = request[r].at
  BY IssuedRows DEF SigningIn
<1>4. b.session # s
  BY <1>3 DEF Closed
<1>5. \A q \in SigningIn' : request'[q].biscuit.session # s
  BY <1>1, <1>2 DEF Closed, SigningIn
<1>6. \A q \in Pair \ rows :
        user_access'[q] # NoRow /\ user_access'[q].session = s => ~IsLive(user_access[q])'
  BY <1>1, <1>3, <1>4 DEF Closed, IsLive
<1>7. ASSUME NEW q \in Pair \ rows, refresh'[q].session = s, IsLive(refresh[q])'
      PROVE  FALSE
  <2>1. q # p
    BY <1>3, <1>4, <1>7
  <2>2. q # b.id
    BY <1>1, <1>3, <1>7, <2>1 DEF IsLive
  <2>. QED
    BY <1>1, <1>3, <1>7, <2>1, <2>2 DEF Closed, IsLive
<1>. QED
  BY <1>5, <1>6, <1>7 DEF Closed

(* A session that is not new stays closed, unless a refresh comes in.       *)
LEMMA ClosedStep ==
  ASSUME Inv, [Next]_vars, NEW s, NEW rows, Closed(s, rows), ~IsNew(s),
         \A r \in Request, b \in Accepted :
           b.type = "refresh" /\ Authenticate(r, b, "auth:refresh", NoRow) => b.session # s
  PROVE  Closed(s, rows)'
<1>1. CASE Alone
  BY <1>1, AloneIsQuiet, ClosedQuiet
<1>2. ASSUME NEW r \in Request, Effect(r) PROVE Closed(s, rows)'
  BY <1>2, EffectIsQuiet, ClosedQuiet
<1>3. ASSUME NEW r \in Request, ComesIn(r) PROVE Closed(s, rows)'
  <2>1. PICK b \in Accepted, action \in Action \cup {"auth:refresh"},
             target \in Organization \cup Application \cup {NoRow} :
          /\ Authenticate(r, b, action, target)
          /\ \/ action = "auth:refresh" /\ target = NoRow /\ b.type = "refresh"
             \/ action \in Action /\ target \in Targets(action)
    BY <1>3 DEF ComesIn
  <2>2. PICK row \in RequestRow :
          /\ Put(r, row) /\ Proper(row) /\ Quietly /\ row.biscuit = b
          /\ row.step = "authenticated" /\ row.action = action
    BY <2>1, AuthenticatePuts
  <2>3. "auth:refresh" \notin Action
    BY DEF Action, Personal, OnApplication, OnOrganization
  <2>4. row.action = "auth:refresh" => row.biscuit.session # s
    BY <2>1, <2>2, <2>3
  <2>. QED
    BY <2>2, <2>4, ClosedPut
<1>4. ASSUME NEW r \in SigningIn, NEW row \in RequestRow, Put(r, row), Proper(row), Quietly,
             row.biscuit.session = request[r].biscuit.session
      PROVE  Closed(s, rows)'
  <2>1. row.biscuit.session # s /\ r \in Request
    BY <1>4 DEF Closed, SigningIn, InFlight
  <2>. QED
    BY <1>4, <2>1, ClosedPut
<1>5. ASSUME NEW r \in Request, SignIn(r) PROVE Closed(s, rows)'
  <2>1. r \in SigningIn
    BY <1>5, SignInPuts DEF SigningIn
  <2>. QED
    BY <1>4, <1>5, <2>1, SignInPuts
<1>6. ASSUME NEW r \in Request, Exchange(r) PROVE Closed(s, rows)'
  <2>1. r \in SigningIn
    BY <1>6, ExchangePuts DEF SigningIn
  <2>. QED
    BY <1>4, <1>6, <2>1, ExchangePuts
<1>7. ASSUME NEW r \in Request, Grant(r) PROVE Closed(s, rows)'
  <2>1. PICK row \in RequestRow :
          Put(r, row) /\ Proper(row) /\ Quietly /\ row.step = "granted"
    BY <1>7, GrantPuts
  <2>. QED
    BY <2>1, ClosedPut
<1>8. ASSUME NEW r \in Request, NEW u \in User, LookUp(r, u) PROVE Closed(s, rows)'
  <2>1. PICK row \in RequestRow :
          Put(r, row) /\ Proper(row) /\ Quietly /\ IsNew(row.biscuit.session)
    BY <1>8, LookUpPuts
  <2>2. row.biscuit.session # s
    BY <2>1
  <2>. QED
    BY <2>1, <2>2, ClosedPut
<1>9. ASSUME NEW r \in Request, NEW p \in Pair, Issue(r, p) PROVE Closed(s, rows)'
  BY <1>9, ClosedIssue
<1>. QED
  BY <1>1, <1>2, <1>3, <1>5, <1>6, <1>7, <1>8, <1>9, Steps

-----------------------------------------------------------------------------
(* What a step does to the UPDATEs that are running.                        *)
Continues(q) ==
  /\ q \in Running
  /\ update'[q].rows = update[q].rows /\ update'[q].at = update[q].at
  /\ update'[q].sessions = update[q].sessions /\ update[q].late \subseteq update'[q].late

LEMMA SameContinues ==
  ASSUME UNCHANGED update, NEW q \in Running'
  PROVE  Continues(q)
BY DEF Running, Continues

LEMMA StopContinues ==
  ASSUME Inv, NEW x \in Update, update' = [update EXCEPT ![x] = NoRow], NEW q \in Running'
  PROVE  Continues(q)
<1>1. q \in Update /\ update'[q] # NoRow
  BY DEF Running
<1>2. q # x /\ update'[q] = update[q]
  BY <1>1 DEF Inv, TypeOK
<1>. QED
  BY <1>1, <1>2 DEF Running, Continues

LEMMA UpdatesContinue ==
  ASSUME Inv, [Next]_vars, NEW q \in Running',
         \A r \in Request : ~Logout(r) /\ ~ChangePassword(r),
         \A u \in User : ~ResetPassword(u)
  PROVE  Continues(q)
<1>1. CASE Alone
  <2>1. CASE \E x \in Update : EndSessions(x) \/ FailToEnd(x)
    BY <2>1, StopContinues DEF EndSessions, FailToEnd
  <2>2. CASE ~\E x \in Update : EndSessions(x) \/ FailToEnd(x)
    BY <1>1, <2>2, SameContinues DEF Alone, vars, sessions, CleanUp, Tick, VerifyEmail
  <2>. QED
    BY <2>1, <2>2
<1>2. ASSUME NEW r \in Request, Effect(r) PROVE Continues(q)
  BY <1>2, SameContinues
  DEF Effect, sessions, Return, DeleteApplication, EditRole, Invite, Revoke, CreateKey, DeleteKey
<1>3. ASSUME NEW r \in Request, ComesIn(r) PROVE Continues(q)
  <2>1. PICK b \in Accepted, action \in Action \cup {"auth:refresh"},
             target \in Organization \cup Application \cup {NoRow} :
          /\ Authenticate(r, b, action, target)
          /\ \/ action = "auth:refresh" /\ target = NoRow /\ b.type = "refresh"
             \/ action \in Action /\ target \in Targets(action)
    BY <1>3 DEF ComesIn
  <2>2. CASE action = "auth:refresh"
    <3>1. b.type = "refresh"
      BY <2>1, <2>2 DEF Action, Personal, OnApplication, OnOrganization
    <3>2. b.session \in Session /\ update' = Overtaking(b.session)
      BY <2>1, <2>2, <3>1, AcceptedIsTyped DEF WellFormed, Inv, Authenticate
    <3>. QED
      BY <3>2, OvertakingIsTyped DEF Running, Continues
  <2>3. CASE action # "auth:refresh"
    BY <2>1, <2>3, SameContinues DEF Authenticate
  <2>. QED
    BY <2>2, <2>3
<1>4. ASSUME NEW r \in Request, SignIn(r) \/ Exchange(r) \/ Grant(r) PROVE Continues(q)
  BY <1>4, SameContinues DEF SignIn, Exchange, Grant, sessions
<1>5. ASSUME NEW r \in Request, NEW u \in User, LookUp(r, u) PROVE Continues(q)
  BY <1>5, SameContinues DEF LookUp, sessions
<1>6. ASSUME NEW r \in Request, NEW p \in Pair, Issue(r, p) PROVE Continues(q)
  BY <1>6, SameContinues DEF Issue, sessions
<1>. QED
  BY <1>1, <1>2, <1>3, <1>4, <1>5, <1>6, Steps

LEMMA OvertakenIsLate ==
  ASSUME Inv, NEW r \in Request, NEW b \in Accepted, b.type = "refresh",
         Authenticate(r, b, "auth:refresh", NoRow),
         NEW q \in Running, b.session \in update[q].sessions
  PROVE  b.session \in update'[q].late
<1>1. b.session \in Session /\ update' = Overtaking(b.session)
  BY AcceptedIsTyped DEF WellFormed, Inv, Authenticate
<1>. QED
  BY <1>1, OvertakingIsTyped DEF Running

LEMMA NowGrows ==
  ASSUME Inv, [Next]_vars
  PROVE  now \in Nat /\ now' \in Nat /\ now <= now'
<1>1. now \in Nat
  BY DEF Inv, TypeOK
<1>2. ASSUME Quiet PROVE now' \in Nat /\ now <= now'
  BY <1>2 DEF Quiet
<1>3. ASSUME NEW r \in Request,
             \/ ComesIn(r) \/ SignIn(r) \/ Exchange(r) \/ Grant(r)
             \/ \E u \in User : LookUp(r, u)
             \/ \E p \in Pair : Issue(r, p)
      PROVE  UNCHANGED now
  BY <1>3 DEF ComesIn, Authenticate, SignIn, Exchange, Grant, LookUp, Issue
<1>. QED
  BY <1>1, <1>2, <1>3, Steps, AloneIsQuiet, EffectIsQuiet

-----------------------------------------------------------------------------
LEMMA CompleteNext ==
  ASSUME NEW q, NEW s, NEW rows, rows = update'[q].rows, Closed(s, rows)'
  PROVE  Closed(s, update[q].rows)'
BY DEF Closed

(* An UPDATE that starts has found all there was: what it does not end is   *)
(* in flight.                                                               *)
LEMMA StartIsComplete ==
  ASSUME Inv, SessionInv, UpdatesAreComplete, Quiet, UNCHANGED now,
         NEW u \in User, NEW ss \in SUBSET Session, NEW rows \in SUBSET Pair,
         NEW verifies \in SUBSET User, Start(u, ss, rows, verifies),
         \A s \in ss : Owns(u, s),
         \A p \in Pair :
           /\ IsLive(user_access[p]) /\ user_access[p].session \in ss => p \in rows
           /\ IsLive(refresh[p]) /\ refresh[p].session \in ss => p \in rows
  PROVE  UpdatesAreComplete'
<1>1. ASSUME NEW s \in ss \ Opening(u) PROVE Closed(s, rows)'
  <2>1. ASSUME NEW r \in SigningIn, request[r].biscuit.session = s PROVE FALSE
    <3>1. r \in Request /\ r \in InFlight /\ request[r].biscuit.user \in User
      BY SigningInIsTyped DEF InFlight
    <3>2. Owns(request[r].biscuit.user, s)
      BY <2>1, <3>1 DEF Owns, Carries
    <3>3. request[r].biscuit.user = u
      BY <3>1, <3>2 DEF SessionInv
    <3>. QED
      BY <2>1, <3>3 DEF Opening
  <2>2. Closed(s, rows)
    BY <2>1 DEF Closed
  <2>. QED
    BY <2>2, ClosedQuiet
<1>2. PICK x \in Update : StartsAs(x, u, ss, rows)
  BY StartIsTyped
<1>3. now \in Nat /\ now' = now
  BY DEF Inv, TypeOK
<1>4. ASSUME NEW q \in Running'
      PROVE  /\ update'[q].at <= now'
             /\ \A s \in update'[q].sessions \ update'[q].late : Closed(s, update[q].rows)'
  <2>1. CASE q = x
    <3>1. update'[q].at <= now'
      BY <1>2, <1>3, <2>1 DEF StartsAs
    <3>2. \A s \in update'[q].sessions \ update'[q].late : s \in ss \ Opening(u)
      BY <1>2, <2>1 DEF StartsAs
    <3>3. \A s \in update'[q].sessions \ update'[q].late : Closed(s, update[q].rows)'
      BY <1>1, <1>2, <2>1, <3>2, CompleteNext DEF StartsAs
    <3>. QED
      BY <3>1, <3>3
  <2>2. CASE q # x
    <3>1. q \in Running /\ update'[q] = update[q]
      BY <1>2, <2>2 DEF Running, StartsAs
    <3>2. PICK old : old = update[q].rows
      OBVIOUS
    <3>3. \A s \in update[q].sessions \ update[q].late : Closed(s, old)
      BY <3>1, <3>2 DEF UpdatesAreComplete, Closed
    <3>4. \A s \in update[q].sessions \ update[q].late : Closed(s, old)'
      BY <3>3, ClosedQuiet
    <3>5. update[q].at <= now
      BY <3>1 DEF UpdatesAreComplete
    <3>. QED
      BY <1>3, <3>1, <3>2, <3>4, <3>5, CompleteNext
  <2>. QED
    BY <2>1, <2>2
<1>. QED
  BY <1>4 DEF UpdatesAreComplete

LEMMA LogoutIsComplete ==
  ASSUME Inv, SessionInv, UpdatesAreComplete, NEW r \in Request, Logout(r)
  PROVE  UpdatesAreComplete'
<1>1. PICK u \in User, s \in Session :
        /\ r \in InFlight /\ u = request[r].biscuit.user /\ s = request[r].biscuit.session
        /\ LiveIn(user_access, u, s) \cup LiveIn(refresh, u, s) \in SUBSET Pair
        /\ Start(u, {s}, LiveIn(user_access, u, s) \cup LiveIn(refresh, u, s), {})
  BY LogoutStarts
<1>2. Quiet /\ UNCHANGED now /\ Owns(u, s)
  BY <1>1, LogoutIsQuiet DEF Logout, Owns, Carries
<1>3. ASSUME NEW p \in Pair, IsLive(user_access[p]), user_access[p].session = s
      PROVE  p \in LiveIn(user_access, u, s)
  <2>1. user_access[p].user = u
    BY <1>2, <1>3, RowsAreOwned DEF SessionInv, Owns, IsLive, Inv
  <2>. QED
    BY <1>3, <2>1 DEF LiveIn, Live
<1>4. ASSUME NEW p \in Pair, IsLive(refresh[p]), refresh[p].session = s
      PROVE  p \in LiveIn(refresh, u, s)
  <2>1. refresh[p].user = u
    BY <1>2, <1>4, RowsAreOwned DEF SessionInv, Owns, IsLive, Inv
  <2>. QED
    BY <1>4, <2>1 DEF LiveIn, Live
<1>5. PICK rows : rows = LiveIn(user_access, u, s) \cup LiveIn(refresh, u, s)
  OBVIOUS
<1>6. /\ rows \in SUBSET Pair /\ Start(u, {s}, rows, {})
      /\ \A p \in Pair :
           /\ IsLive(user_access[p]) /\ user_access[p].session \in {s} => p \in rows
           /\ IsLive(refresh[p]) /\ refresh[p].session \in {s} => p \in rows
  BY <1>1, <1>3, <1>4, <1>5
<1>. QED
  BY <1>2, <1>6, StartIsComplete

LEMMA ChangeIsComplete ==
  ASSUME Inv, SessionInv, UpdatesAreComplete, Quiet, NEW u \in User,
         NEW verifies \in SUBSET User, DoChangePassword(u, verifies)
  PROVE  UpdatesAreComplete'
<1>1. PICK rows, ss : rows = Live(user_access) \cup Live(refresh)
                      /\ ss = SessionsOf(u) \cup Opening(u)
  OBVIOUS
<1>2. /\ ss \in SUBSET Session /\ rows \in SUBSET Pair /\ Start(u, ss, rows, verifies)
      /\ UNCHANGED now
  BY <1>1, ChangeStarts
<1>3. ASSUME NEW s \in SessionsOf(u) PROVE Owns(u, s)
  BY <1>3 DEF SessionsOf, Owns, HasRow
<1>4. ASSUME NEW s \in Opening(u) PROVE Owns(u, s)
  BY <1>4 DEF Opening, SigningIn, InFlight, Owns, Carries
<1>5. \A p \in Pair : IsLive(user_access[p]) \/ IsLive(refresh[p]) => p \in rows
  BY <1>1 DEF Live
<1>6. \A s \in ss : Owns(u, s)
  BY <1>1, <1>3, <1>4
<1>. QED
  BY <1>2, <1>5, <1>6, StartIsComplete

LEMMA UpdatesStep ==
  ASSUME Inv, SessionInv, UpdatesAreComplete, [Next]_vars
  PROVE  UpdatesAreComplete'
<1>1. ASSUME NEW r \in Request, Logout(r) PROVE UpdatesAreComplete'
  BY <1>1, LogoutIsComplete
<1>2. ASSUME NEW r \in Request, ChangePassword(r) PROVE UpdatesAreComplete'
  BY <1>2, ChangePasswordIsQuiet, ChangeIsComplete DEF ChangePassword
<1>3. ASSUME NEW u \in User, ResetPassword(u) PROVE UpdatesAreComplete'
  BY <1>3, ResetPasswordIsQuiet, ChangeIsComplete DEF ResetPassword
<1>4. ASSUME \A r \in Request : ~Logout(r) /\ ~ChangePassword(r),
             \A u \in User : ~ResetPassword(u)
      PROVE  UpdatesAreComplete'
  <2>. SUFFICES ASSUME NEW q \in Running'
               PROVE  /\ update'[q].at <= now'
                      /\ \A s \in update'[q].sessions \ update'[q].late :
                           Closed(s, update[q].rows)'
    BY DEF UpdatesAreComplete
  <2>1. Continues(q)
    BY <1>4, UpdatesContinue
  <2>2. update'[q].at <= now'
    <3>1. update[q].at \in Nat /\ update[q].at <= now
      BY <2>1 DEF Continues, Running, UpdatesAreComplete, Inv, TypeOK, UpdateRow
    <3>. QED
      BY <2>1, <3>1, NowGrows DEF Continues
  <2>3. ASSUME NEW s \in update'[q].sessions \ update'[q].late
        PROVE  Closed(s, update[q].rows)'
    <3>1. PICK rows : rows = update[q].rows
      OBVIOUS
    <3>2. q \in Running /\ s \in update[q].sessions \ update[q].late
      BY <2>1, <2>3 DEF Continues
    <3>3. Closed(s, rows)
      BY <3>1, <3>2 DEF UpdatesAreComplete, Closed
    <3>4. ~IsNew(s)
      BY <3>2 DEF IsNew
    <3>5. \A r \in Request, b \in Accepted :
            b.type = "refresh" /\ Authenticate(r, b, "auth:refresh", NoRow) => b.session # s
      BY <2>3, <3>2, OvertakenIsLate
    <3>6. Closed(s, rows)'
      BY <3>3, <3>4, <3>5, ClosedStep
    <3>7. rows = update'[q].rows
      BY <2>1, <3>1 DEF Continues
    <3>. QED
      BY <3>6, <3>7, CompleteNext
  <2>. QED
    BY <2>2, <2>3
<1>. QED
  BY <1>1, <1>2, <1>3, <1>4

-----------------------------------------------------------------------------
(* Only an UPDATE that is done ends sessions.                               *)
LEMMA OnlyUpdatesEnd ==
  ASSUME Inv, [Next]_vars
  PROVE  UNCHANGED <<ended, escaped>> \/ \E q \in Update : EndSessions(q)
<1>1. CASE Alone
  <2>1. ASSUME NEW u \in User, ResetPassword(u) PROVE UNCHANGED <<ended, escaped>>
    BY <2>1 DEF ResetPassword, DoChangePassword
  <2>. QED
    BY <1>1, <2>1 DEF Alone, vars, sessions, CleanUp, Tick, VerifyEmail, FailToEnd
<1>2. ASSUME NEW r \in Request, Effect(r) PROVE UNCHANGED <<ended, escaped>>
  BY <1>2 DEF Effect, sessions, Return, Logout, ChangePassword, DoChangePassword,
              DeleteApplication, EditRole, Invite, Revoke, CreateKey, DeleteKey
<1>3. ASSUME NEW r \in Request,
             \/ ComesIn(r) \/ SignIn(r) \/ Exchange(r) \/ Grant(r)
             \/ \E u \in User : LookUp(r, u)
             \/ \E p \in Pair : Issue(r, p)
      PROVE  UNCHANGED <<ended, escaped>>
  BY <1>3 DEF ComesIn, Authenticate, SignIn, Exchange, Grant, LookUp, Issue, sessions
<1>. QED
  BY <1>1, <1>2, <1>3, Steps

LEMMA EndedIsClosed ==
  ASSUME Inv, EndedSessionsStayEnded, [Next]_vars, NEW s \in ended \ escaped
  PROVE  Closed(s, {})'
<1>1. Closed(s, {}) /\ ~IsNew(s)
  BY DEF EndedSessionsStayEnded, Closed, IsNew
<1>2. ASSUME NEW b \in Accepted, b.type = "refresh" PROVE b.session # s
  <2>1. b.id \in Pair /\ IsLive(refresh[b.id]) /\ refresh[b.id].session = b.session
    BY <1>2, AcceptedIsTyped, LiveRefreshIsTyped DEF Inv
  <2>. QED
    BY <1>1, <2>1 DEF Closed, IsLive
<1>. QED
  BY <1>1, <1>2, ClosedStep

(* An UPDATE that is done has expired the rows that it found, and there are *)
(* no others.                                                               *)
LEMMA DoneIsClosed ==
  ASSUME Inv, UpdatesAreComplete, NEW q \in Update, EndSessions(q),
         NEW s \in update[q].sessions \ update[q].late
  PROVE  Closed(s, {})'
<1>1. q \in Running /\ UNCHANGED now /\ now \in Nat /\ TypeOK
  BY DEF EndSessions, Inv, TypeOK
<1>2. PICK rows, at : rows = update[q].rows /\ at = update[q].at
  OBVIOUS
<1>3. /\ at \in Nat /\ TokensTyped'
      /\ \A p \in rows :
           /\ user_access'[p] # NoRow => user_access'[p].expired_at <= at
           /\ refresh'[p] # NoRow => refresh'[p].expired_at <= at
  BY <1>1, <1>2, EndSessionsFades DEF UpdateRow
<1>4. at <= now /\ Closed(s, rows)
  BY <1>1, <1>2 DEF UpdatesAreComplete, Closed
<1>5. Closed(s, rows)'
  BY <1>4, EndSessionsIsQuiet, ClosedQuiet
<1>6. ASSUME NEW p \in Pair, p \in rows PROVE ~IsLive(user_access[p])' /\ ~IsLive(refresh[p])'
  <2>1. /\ user_access'[p] # NoRow => user_access'[p].expired_at \in Nat
        /\ refresh'[p] # NoRow => refresh'[p].expired_at \in Nat
    BY <1>3 DEF TokensTyped, AccessRow, RefreshRow
  <2>. QED
    BY <1>1, <1>3, <1>4, <1>6, <2>1 DEF IsLive
<1>. QED
  BY <1>5, <1>6 DEF Closed

LEMMA EndedStep == Inv /\ SessionInv /\ EndedInv /\ [Next]_vars => EndedInv'
<1>. SUFFICES ASSUME Inv, SessionInv, EndedInv, [Next]_vars PROVE EndedInv'
  OBVIOUS
<1>1. EndedSessionsStayEnded /\ UpdatesAreComplete
  BY DEF EndedInv
<1>2. UpdatesAreComplete'
  BY <1>1, UpdatesStep
<1>3. ASSUME NEW s \in ended' \ escaped' PROVE Closed(s, {})'
  <2>1. CASE s \in ended \ escaped
    BY <1>1, <2>1, EndedIsClosed
  <2>2. CASE s \notin ended \ escaped
    <3>1. PICK q \in Update : EndSessions(q)
      BY <1>3, <2>2, OnlyUpdatesEnd
    <3>2. s \in update[q].sessions \ update[q].late
      BY <1>3, <2>2, <3>1 DEF EndSessions
    <3>. QED
      BY <1>1, <3>1, <3>2, DoneIsClosed
  <2>. QED
    BY <2>1, <2>2
<1>4. EndedSessionsStayEnded'
  BY <1>3 DEF EndedSessionsStayEnded, Closed
<1>. QED
  BY <1>2, <1>4 DEF EndedInv

(* A session that has ended stays without live tokens, for any number of    *)
(* sessions, refreshes and requests, unless it escaped.                     *)
THEOREM EndedSessionsStayEndedHolds == Spec => []EndedSessionsStayEnded
<1>1. Init => EndedInv
  BY DEF Init, EndedInv, EndedSessionsStayEnded, UpdatesAreComplete, Running
<1>2. EndedInv => EndedSessionsStayEnded
  BY DEF EndedInv
<1>. QED
  BY <1>1, <1>2, EndedStep, Invariant, SessionInvariant, PTL DEF Spec

-----------------------------------------------------------------------------
LiveOf(s) == {p \in Pair : IsLive(refresh[p]) /\ refresh[p].session = s}

Minting(s) ==
  {r \in InFlight : request[r].step = "minted" /\ request[r].biscuit.session = s}

(* Of a session that has not forked, there is one live refresh token, or    *)
(* one request that holds it and is about to replace it.                    *)
Single(s) ==
  /\ \A p, q \in LiveOf(s) : p = q
  /\ \A r \in Minting(s) :
       request[r].biscuit.type = "refresh" => LiveOf(s) \subseteq {request[r].biscuit.id}
  /\ \A r, q \in Minting(s) : r = q

Matches(b) ==
  b.type = "refresh" /\ b.id # NoRow /\ refresh[b.id] # NoRow =>
    refresh[b.id].session = b.session

RotationInv ==
  /\ \A s \in Session \ forked : Single(s)
  /\ \A r \in InFlight : Matches(request[r].biscuit)

LEMMA RotationQuiet ==
  ASSUME Inv, RotationInv, Quiet, UNCHANGED forked
  PROVE  RotationInv'
<1>1. ASSUME NEW s \in Session \ forked PROVE Single(s)'
  <2>1. LiveOf(s)' \subseteq LiveOf(s)
    BY LiveLess DEF LiveOf
  <2>2. \A r \in Minting(s)' : r \in Minting(s) /\ request'[r] = request[r]
    BY DEF Minting, Quiet
  <2>. QED
    BY <2>1, <2>2 DEF RotationInv, Single
<1>2. ASSUME NEW r \in InFlight' PROVE Matches(request[r].biscuit)'
  <2>1. r \in InFlight /\ request'[r] = request[r]
    BY DEF Quiet
  <2>2. Proper(request[r]) /\ Matches(request[r].biscuit)
    BY <2>1 DEF Inv, AllProper, RotationInv
  <2>3. request[r].biscuit.type = "refresh" => request[r].biscuit.id \in Pair \cup {NoRow}
    BY <2>2 DEF Proper, WellFormed
  <2>. QED
    BY <2>1, <2>2, <2>3 DEF Matches, Quiet, TokensFade, Fades
<1>. QED
  BY <1>1, <1>2 DEF RotationInv

LEMMA RotationPut ==
  ASSUME Inv, RotationInv, NEW r \in Request, NEW row \in RequestRow, Put(r, row), Proper(row),
         Quietly, forked \subseteq forked', Matches(row.biscuit),
         row.step = "minted" /\ row.biscuit.session \notin forked' =>
           /\ row.biscuit.type = "refresh" =>
                LiveOf(row.biscuit.session) \subseteq {row.biscuit.id}
           /\ Minting(row.biscuit.session) \subseteq {r}
  PROVE  RotationInv'
<1>1. UNCHANGED <<now, refresh>>
  BY DEF Quietly, tokens
<1>2. /\ InFlight' = InFlight \cup {r} /\ request'[r] = row
      /\ \A q \in Request : q # r => request'[q] = request[q]
  BY PutIsTyped DEF Inv
<1>3. ASSUME NEW q \in InFlight'
      PROVE  q = r \/ (q \in InFlight /\ request'[q] = request[q])
  <2>1. InFlight \subseteq Request
    BY DEF InFlight
  <2>. QED
    BY <1>2, <2>1
<1>4. ASSUME NEW s \in Session \ forked' PROVE Single(s)'
  <2>1. LiveOf(s)' = LiveOf(s)
    BY <1>1 DEF LiveOf, IsLive
  <2>2. Single(s)
    BY DEF RotationInv
  <2>3. \A q \in Minting(s)' :
          \/ q = r /\ row.step = "minted" /\ row.biscuit.session = s
          \/ q \in Minting(s) /\ request'[q] = request[q]
    BY <1>2, <1>3 DEF Minting
  <2>4. CASE row.step = "minted" /\ row.biscuit.session = s
    BY <1>2, <2>1, <2>2, <2>3, <2>4 DEF Single
  <2>5. CASE ~(row.step = "minted" /\ row.biscuit.session = s)
    BY <2>1, <2>2, <2>3, <2>5 DEF Single
  <2>. QED
    BY <2>4, <2>5
<1>5. ASSUME NEW q \in InFlight' PROVE Matches(request[q].biscuit)'
  BY <1>1, <1>2, <1>3 DEF RotationInv, Matches
<1>. QED
  BY <1>4, <1>5 DEF RotationInv

LEMMA RotationIssue ==
  ASSUME Inv, SessionInv, RotationInv, NEW r \in Request, NEW p \in Pair, Issue(r, p)
  PROVE  RotationInv'
<1>. PICK b : b = request[r].biscuit
  OBVIOUS
<1>1. UNCHANGED <<now, forked>> /\ now \in Nat
  BY DEF Issue, sessions, Inv, TypeOK
<1>2. \A q \in InFlight' : q \in InFlight \ {r} /\ request'[q] = request[q]
  BY InvIssue
<1>3. /\ r \in InFlight /\ request[r].step = "minted" /\ IsFree(p)
      /\ request[r].at \in Nat /\ request[r].at <= now
      /\ refresh'[p].session = b.session
      /\ \A q \in Pair \ {p} :
           /\ q # b.id => refresh'[q] = refresh[q]
           /\ q = b.id => /\ refresh[q] # NoRow /\ refresh'[q] # NoRow
                          /\ refresh'[q].session = refresh[q].session
                          /\ refresh'[q].expired_at = request[r].at
  BY IssuedRows
<1>4. Proper(request[r])
  BY <1>3 DEF Inv, AllProper
<1>5. \A s : LiveOf(s)' \subseteq (LiveOf(s) \ {b.id}) \cup {q \in {p} : b.session = s}
  <2>. SUFFICES ASSUME NEW s, NEW q \in LiveOf(s)'
               PROVE  q \in (LiveOf(s) \ {b.id}) \cup {x \in {p} : b.session = s}
    OBVIOUS
  <2>1. q \in Pair /\ IsLive(refresh[q])' /\ refresh'[q].session = s
    BY DEF LiveOf
  <2>2. CASE q = p
    BY <1>3, <2>1, <2>2
  <2>3. CASE q # p
    <3>1. q # b.id
      BY <1>1, <1>3, <2>1, <2>3 DEF IsLive
    <3>2. refresh'[q] = refresh[q]
      BY <1>3, <2>1, <2>3, <3>1
    <3>. QED
      BY <1>1, <2>1, <3>1, <3>2 DEF LiveOf, IsLive
  <2>. QED
    BY <2>2, <2>3
<1>6. b.session \notin forked => LiveOf(b.session)' \subseteq {p}
  <2>. SUFFICES ASSUME b.session \notin forked PROVE LiveOf(b.session)' \subseteq {p}
    OBVIOUS
  <2>1. b.type \in {"password", "refresh"} /\ b.session \in Session
    BY <1>3, <1>4 DEF Proper, WellFormed
  <2>2. CASE b.type = "password"
    <3>1. \A u \in User : ~HasRow(u, b.session)
      BY <1>3, <2>2 DEF SessionInv, Apart
    <3>2. LiveOf(b.session) = {}
      BY <3>1, RowsAreOwned DEF LiveOf, IsLive, Inv
    <3>. QED
      BY <1>5, <3>2
  <2>3. CASE b.type = "refresh"
    <3>1. Single(b.session) /\ r \in Minting(b.session)
      BY <1>3, <2>1 DEF RotationInv, Minting
    <3>2. LiveOf(b.session) \subseteq {b.id}
      BY <2>3, <3>1 DEF Single
    <3>. QED
      BY <1>5, <3>2
  <2>. QED
    BY <2>1, <2>2, <2>3
<1>7. ASSUME NEW s \in Session \ forked PROVE Single(s)'
  <2>1. Single(s)
    BY DEF RotationInv
  <2>2. \A q \in Minting(s)' : q \in Minting(s) \ {r} /\ request'[q] = request[q]
    BY <1>2 DEF Minting
  <2>3. CASE s = b.session
    <3>1. r \in Minting(s)
      BY <1>3, <2>3 DEF Minting
    <3>2. Minting(s)' = {}
      BY <2>1, <2>2, <3>1 DEF Single
    <3>. QED
      BY <1>6, <2>3, <3>2 DEF Single
  <2>4. CASE s # b.session
    <3>1. LiveOf(s)' \subseteq LiveOf(s)
      BY <1>5, <2>4
    <3>. QED
      BY <2>1, <2>2, <3>1 DEF Single
  <2>. QED
    BY <2>3, <2>4
<1>8. ASSUME NEW q \in InFlight' PROVE Matches(request[q].biscuit)'
  <2>1. q \in InFlight /\ request'[q] = request[q] /\ Proper(request[q])
    BY <1>2 DEF Inv, AllProper
  <2>2. request[q].biscuit.id # p
    BY <1>3, <2>1 DEF IsFree
  <2>3. request[q].biscuit.type = "refresh" => request[q].biscuit.id \in Pair \cup {NoRow}
    BY <2>1 DEF Proper, WellFormed
  <2>4. Matches(request[q].biscuit)
    BY <2>1 DEF RotationInv
  <2>. QED
    BY <1>3, <2>1, <2>2, <2>3, <2>4 DEF Matches
<1>. QED
  BY <1>1, <1>7, <1>8 DEF RotationInv

LEMMA RotationExchange ==
  ASSUME Inv, SessionInv, RotationInv, NEW r \in Request, Exchange(r)
  PROVE  RotationInv'
<1>1. PICK row \in RequestRow, p \in Pair :
        /\ Put(r, row) /\ Proper(row) /\ Quietly
        /\ r \in InFlight /\ request[r].step = "authenticated"
        /\ request[r].biscuit.id = p /\ p \notin Locked
        /\ row.biscuit.type = "refresh" /\ request[r].biscuit.type = "refresh"
        /\ row.biscuit.session = request[r].biscuit.session
        /\ \/ IsLive(refresh[p]) /\ row.biscuit.id = p /\ UNCHANGED forked
           \/ /\ ~IsLive(refresh[p]) /\ row.biscuit.id = NoRow
              /\ forked' = forked \cup {row.biscuit.session}
  BY <1>1, ExchangePuts
<1>. PICK s : s = row.biscuit.session
  OBVIOUS
<1>2. s \in Session
  BY <1>1 DEF Proper, WellFormed
<1>3. Matches(request[r].biscuit)
  BY <1>1 DEF RotationInv
<1>4. Matches(row.biscuit)
  BY <1>1, <1>3 DEF Matches
<1>5. ASSUME s \notin forked'
      PROVE  LiveOf(s) \subseteq {row.biscuit.id} /\ Minting(s) \subseteq {r}
  <2>1. IsLive(refresh[p]) /\ row.biscuit.id = p /\ s \notin forked
    BY <1>1, <1>5
  <2>2. Single(s)
    BY <1>2, <2>1 DEF RotationInv
  <2>3. p \in LiveOf(s)
    <3>1. p # NoRow /\ refresh[p] # NoRow
      BY <2>1, AuthorizationAssumption DEF IsLive
    <3>. QED
      BY <1>1, <1>3, <2>1, <3>1 DEF Matches, LiveOf
  <2>4. ASSUME NEW q \in Minting(s), q # r PROVE FALSE
    <3>1. q \in InFlight /\ Proper(request[q]) /\ request[q].step = "minted"
          /\ request[q].biscuit.session = s
      BY DEF Minting, Inv, AllProper
    <3>2. request[q].biscuit.type \in {"password", "refresh"}
      BY <3>1 DEF Proper
    <3>3. CASE request[q].biscuit.type = "password"
      BY <1>1, <2>4, <3>1, <3>3 DEF SessionInv, Apart
    <3>4. CASE request[q].biscuit.type = "refresh"
      <4>1. request[q].biscuit.id = p
        BY <2>2, <2>3, <3>4 DEF Single
      <4>2. p \in Locked
        BY <2>1, <3>1, <4>1 DEF Locked, Held
      <4>. QED
        BY <1>1, <4>2
    <3>. QED
      BY <3>2, <3>3, <3>4
  <2>. QED
    BY <2>1, <2>2, <2>3, <2>4 DEF Single
<1>6. forked \subseteq forked'
  BY <1>1
<1>. QED
  BY <1>1, <1>4, <1>5, <1>6, RotationPut

LEMMA RotationStep == Inv /\ SessionInv /\ RotationInv /\ [Next]_vars => RotationInv'
<1>. SUFFICES ASSUME Inv, SessionInv, RotationInv, [Next]_vars PROVE RotationInv'
  OBVIOUS
<1>1. CASE Alone
  <2>1. UNCHANGED forked
    BY <1>1
    DEF Alone, vars, sessions, CleanUp, Tick, VerifyEmail, ResetPassword, DoChangePassword,
        EndSessions, FailToEnd
  <2>. QED
    BY <1>1, <2>1, AloneIsQuiet, RotationQuiet
<1>2. ASSUME NEW r \in Request, Effect(r) PROVE RotationInv'
  <2>1. UNCHANGED forked
    BY <1>2
    DEF Effect, sessions, Return, Logout, ChangePassword, DoChangePassword, DeleteApplication,
        EditRole, Invite, Revoke, CreateKey, DeleteKey
  <2>. QED
    BY <1>2, <2>1, EffectIsQuiet, RotationQuiet
<1>3. ASSUME NEW r \in Request, ComesIn(r) PROVE RotationInv'
  <2>1. PICK b \in Accepted, row \in RequestRow :
          /\ Put(r, row) /\ Proper(row) /\ Quietly /\ UNCHANGED forked
          /\ row.biscuit = b /\ row.step = "authenticated"
    BY <1>3, AuthenticatePuts DEF ComesIn
  <2>2. Matches(b)
    BY AcceptedIsTyped, LiveRefreshIsTyped DEF Matches, Inv
  <2>. QED
    BY <2>1, <2>2, RotationPut
<1>4. ASSUME NEW r \in Request, SignIn(r) PROVE RotationInv'
  <2>1. PICK row \in RequestRow :
          /\ Put(r, row) /\ Proper(row) /\ Quietly /\ UNCHANGED forked
          /\ r \in InFlight /\ request[r].biscuit.type = "password"
          /\ row.biscuit.type = "password"
          /\ row.biscuit.session = request[r].biscuit.session
    BY <1>4, SignInPuts
  <2>2. Minting(row.biscuit.session) \subseteq {r}
    BY <2>1 DEF SessionInv, Apart, Minting
  <2>3. Matches(row.biscuit)
    BY <2>1 DEF Matches
  <2>. QED
    BY <2>1, <2>2, <2>3, RotationPut
<1>5. ASSUME NEW r \in Request, Exchange(r) PROVE RotationInv'
  BY <1>5, RotationExchange
<1>6. ASSUME NEW r \in Request, Grant(r) PROVE RotationInv'
  <2>1. PICK row \in RequestRow :
          /\ Put(r, row) /\ Proper(row) /\ Quietly /\ UNCHANGED forked
          /\ r \in InFlight /\ row.step = "granted" /\ row.biscuit = request[r].biscuit
    BY <1>6, GrantPuts
  <2>. QED
    BY <2>1, RotationPut DEF RotationInv
<1>7. ASSUME NEW r \in Request, NEW u \in User, LookUp(r, u) PROVE RotationInv'
  <2>1. PICK row \in RequestRow :
          /\ Put(r, row) /\ Proper(row) /\ Quietly /\ UNCHANGED forked
          /\ row.step = "verified" /\ row.biscuit.type = "password"
    BY <1>7, LookUpPuts
  <2>2. Matches(row.biscuit)
    BY <2>1 DEF Matches
  <2>. QED
    BY <2>1, <2>2, RotationPut
<1>8. ASSUME NEW r \in Request, NEW p \in Pair, Issue(r, p) PROVE RotationInv'
  BY <1>8, RotationIssue
<1>. QED
  BY <1>1, <1>2, <1>3, <1>4, <1>5, <1>6, <1>7, <1>8, Steps

(* Refresh tokens rotate: a session whose refreshes all found their token   *)
(* live has one live refresh token at most, whichever of the requests wait  *)
(* for each other.                                                          *)
THEOREM RefreshTokensRotateHolds == Spec => []RefreshTokensRotate
<1>1. Init => RotationInv
  BY DEF Init, RotationInv, Single, LiveOf, Minting, InFlight, IsLive
<1>2. Inv /\ RotationInv => RefreshTokensRotate
  <2>. SUFFICES ASSUME Inv, RotationInv, NEW p \in Live(refresh), NEW q \in Live(refresh), p # q,
                      refresh[p].session = refresh[q].session,
                      refresh[p].session \notin forked
               PROVE  FALSE
    BY DEF RefreshTokensRotate
  <2>1. refresh[p].session \in Session
    BY RowsAreOwned DEF Live, IsLive, Inv
  <2>2. p \in LiveOf(refresh[p].session) /\ q \in LiveOf(refresh[p].session)
    BY DEF Live, LiveOf
  <2>. QED
    BY <2>1, <2>2 DEF RotationInv, Single
<1>. QED
  BY <1>1, <1>2, RotationStep, Invariant, SessionInvariant, InvInit, PTL DEF Spec
=============================================================================
