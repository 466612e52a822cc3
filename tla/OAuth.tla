-------------------------------- MODULE OAuth --------------------------------
(***************************************************************************)
(* The OAuth server of the MCP endpoint: internal/oauth/oauth.go and       *)
(* telegram_login.go over the tables of internal/db/oauth.go, with the     *)
(* revocations that come from the bot (internal/bot/oauth.go) and from a   *)
(* logout.                                                                 *)
(*                                                                         *)
(* Every table is a set of rows, every transaction one step, and a         *)
(* transaction that fails leaves nothing behind.  The sign-in at Telegram  *)
(* is the one handler of several transactions: between them other          *)
(* requests, logouts and the clock go on.  Requests that are refused, by   *)
(* the limiter, by a wrong secret, verifier or address, change no table.   *)
(***************************************************************************)
EXTENDS Naturals, FiniteSets

CONSTANTS
  Users,              \* Telegram users
  MaxClients,         \* maxClients
  MaxPending,         \* maxPendingRequests
  (* durations *)
  ReuseGrace, CodeTTL, RequestTTL, AccessTTL, RefreshTTL, MaxGrantLifetime,
  UsedRetention,      \* usedTokenRetention
  RequestRetention, GrantRetention, ClientRetention,  \* of pruneOAuthTx
  (* bounds *)
  MaxTime, MaxIds, MaxPairs,
  None                \* no user

ASSUME OAuthAssumption ==
  /\ {MaxClients, MaxPending, ReuseGrace, CodeTTL, RequestTTL, AccessTTL, RefreshTTL,
      MaxGrantLifetime, UsedRetention, RequestRetention, GrantRetention,
      ClientRetention, MaxTime, MaxIds, MaxPairs} \subseteq Nat
  /\ None \notin Users /\ MaxTime # 0
  /\ RefreshTTL # 0                  \* a new refresh token is not expired
  /\ CodeTTL <= RequestRetention     \* no request is pruned before its code expires

VARIABLES
  now,        \* Unix time
  clients,    \* oauth_clients: [id, created]
  requests,   \* oauth_requests: [id, client, status, login, user, coded, codeUntil, created, until]
  grants,     \* oauth_grants: [id, request, client, user, created, revoked]
  tokens,     \* oauth_tokens: [pair, kind, grant, until, used]
  callbacks,  \* sign-ins between two transactions: [login, request, pc, user, at]
  connected,  \* users with a stored session
  leaving,    \* users whose logout has deleted the session and revokes next
  made,       \* [clients, requests, logins, pairs]: how many there have been
  cut         \* requests whose connection was cut off, as somebody was told

tables == <<clients, requests, grants, tokens>>
accounts == <<connected, leaving>>
vars == <<now, clients, requests, grants, tokens, callbacks, connected, leaving, made, cut>>

Init ==
  /\ now = 1
  /\ clients = {} /\ requests = {} /\ grants = {} /\ tokens = {} /\ callbacks = {}
  /\ connected \in SUBSET Users /\ leaving = {}
  /\ made = [clients |-> 0, requests |-> 0, logins |-> 0, pairs |-> 0]
  /\ cut = {}

Older(t, age) == t + age < now   \* t < now - age
Bump(field) == made' = [made EXCEPT ![field] = @ + 1]

(***************************************************************************)
(* pruneOAuthTx, one statement after the other.                            *)
(***************************************************************************)
KeptRequests ==
  {r \in requests : ~Older(r.until, RequestRetention)
     /\ (r.status \in {"denied", "exchanged"} => ~Older(r.created, RequestRetention))}
(* used_at is 0 for a token that was not used. *)
Stale(t) == t.used # 0 /\ Older(t.used, UsedRetention)
OldGrant(g) == g.revoked # 0 /\ Older(g.revoked, GrantRetention)
LiveTokens == {t \in tokens : t.until >= now /\ ~Stale(t)}
KeptGrants ==
  {g \in grants : ~OldGrant(g)
     /\ (g.revoked = 0 => \E t \in LiveTokens : t.grant = g.id /\ t.used = 0)}
KeptTokens == {t \in LiveTokens : \E g \in KeptGrants : t.grant = g.id}
ClientsWithGrants ==
  {c \in clients : ~Older(c.created, ClientRetention)
     \/ (\E g \in KeptGrants : g.client = c.id /\ g.revoked = 0)}
ClientsWithRequests ==                 \* mutant: a connection does not keep its client
  {c \in clients : ~Older(c.created, ClientRetention) \/ \E r \in KeptRequests : r.client = c.id}
KeptClients ==
  {c \in clients : ~Older(c.created, ClientRetention)
     \/ (\E g \in KeptGrants : g.client = c.id /\ g.revoked = 0)
     \/ \E r \in KeptRequests : r.client = c.id}

(***************************************************************************)
(* Registration and the authorization page.                                *)
(***************************************************************************)
CreateOAuthClient ==
  /\ Cardinality(KeptClients) < MaxClients
  /\ clients' = KeptClients \cup {[id |-> made.clients + 1, created |-> now]}
  /\ requests' = KeptRequests /\ grants' = KeptGrants /\ tokens' = KeptTokens

register ==
  /\ made.clients < MaxIds
  /\ CreateOAuthClient
  /\ Bump("clients")
  /\ UNCHANGED <<now, callbacks, accounts, cut>>

(* The client is looked up before the transaction, whose first statements  *)
(* may prune it: then the request has no client to refer to, the insert    *)
(* fails and takes the pruning back.                                       *)
CreateOAuthRequest(c) ==
  /\ Cardinality({r \in KeptRequests : r.status = "pending" /\ r.until > now}) < MaxPending
  /\ c \in KeptClients
  /\ requests' = KeptRequests \cup
       {[id |-> made.requests + 1, client |-> c.id, status |-> "pending", login |-> 0,
         user |-> None, coded |-> FALSE, codeUntil |-> 0, created |-> now,
         until |-> now + RequestTTL]}
  /\ clients' = KeptClients /\ grants' = KeptGrants /\ tokens' = KeptTokens

authorize(c) ==
  /\ made.requests < MaxIds
  /\ CreateOAuthRequest(c)
  /\ Bump("requests")
  /\ UNCHANGED <<now, callbacks, accounts, cut>>

(***************************************************************************)
(* The sign-in with Telegram.                                              *)
(***************************************************************************)
Set(r, new) == requests' = (requests \ {r}) \cup {new}
Pending(r) == r.status = "pending" /\ r.until > now
PendingAt(r, at) == r.status = "pending" /\ r.until > at
ById(id) == {r \in requests : r.id = id}
Goes(c, pc) == callbacks' = (callbacks \ {c}) \cup {[c EXCEPT !.pc = pc]}
SignInOnly == UNCHANGED <<now, clients, grants, tokens, accounts>>

(* A new attempt replaces the state of the one before. *)
StartOAuthTelegramLogin(r, state) == Pending(r) /\ Set(r, [r EXCEPT !.login = state])

telegramStart(r) ==
  /\ made.logins < MaxIds
  /\ StartOAuthTelegramLogin(r, made.logins + 1)
  /\ Bump("logins")
  /\ UNCHANGED <<callbacks, cut>> /\ SignInOnly

(* telegramCallback: the state is consumed, once. *)
FinishOAuthTelegramLogin(r) ==
  /\ Pending(r) /\ r.login # 0
  /\ Set(r, [r EXCEPT !.login = 0])
  /\ callbacks' = callbacks \cup
       {[login |-> r.login, request |-> r.id, pc |-> "finished", user |-> None, at |-> 0]}
  /\ UNCHANGED <<made, cut>> /\ SignInOnly

(* Telegram says that the sign-in was cancelled. *)
Deny(c) ==
  /\ c.pc = "finished"
  /\ \E r \in ById(c.request) :
       IF Pending(r) THEN Set(r, [r EXCEPT !.status = "denied"]) ELSE UNCHANGED requests
  /\ callbacks' = callbacks \ {c}
  /\ UNCHANGED <<made, cut>> /\ SignInOnly

(* Telegram names the user, whose account is then looked up. *)
userID(c, u) ==
  /\ c.pc = "finished"
  /\ callbacks' = (callbacks \ {c}) \cup {[c EXCEPT !.pc = "check", !.user = u]}
  /\ UNCHANGED <<requests, made, cut>> /\ SignInOnly

OAuthAccountConnected(c) ==
  /\ c.pc = "check" /\ c.user \in connected
  /\ Goes(c, "decide")
  /\ UNCHANGED <<requests, made, cut>> /\ SignInOnly

(* One time is taken for the approval and for the code. *)
DecideOAuthRequest(c) ==
  /\ c.pc = "decide"
  /\ \E r \in ById(c.request) :
       /\ Pending(r)
       /\ Set(r, [r EXCEPT !.status = "approved", !.user = c.user])
  /\ callbacks' = (callbacks \ {c}) \cup {[c EXCEPT !.pc = "issue", !.at = now]}
  /\ UNCHANGED <<made, cut>> /\ SignInOnly

IssueOAuthCode(c) ==
  /\ c.pc = "issue"
  /\ \E r \in ById(c.request) :
       /\ r.status = "approved" /\ ~r.coded /\ r.until > c.at
       /\ Set(r, [r EXCEPT !.coded = TRUE, !.codeUntil = c.at + CodeTTL])
  /\ callbacks' = callbacks \ {c}
  /\ UNCHANGED <<made, cut>> /\ SignInOnly

(* Every other end of the handler: Telegram does not confirm the sign-in,  *)
(* the user has no account, the request was decided or pruned meanwhile, a *)
(* statement fails, the browser goes away, the process stops.              *)
CallbackEnds(c) ==
  /\ callbacks' = callbacks \ {c}
  /\ UNCHANGED <<requests, made, cut>> /\ SignInOnly

telegramCallback(c) ==
  \/ Deny(c) \/ OAuthAccountConnected(c) \/ DecideOAuthRequest(c) \/ IssueOAuthCode(c)
  \/ CallbackEnds(c) \/ \E u \in Users : userID(c, u)

(***************************************************************************)
(* The token endpoint.                                                     *)
(***************************************************************************)
TokenOnly == UNCHANGED <<now, clients, callbacks, accounts>>
newTokenPair(g) ==
  {[pair |-> made.pairs + 1, kind |-> k, grant |-> g, used |-> 0,
    until |-> now + (IF k = "access" THEN AccessTTL ELSE RefreshTTL)] : k \in {"access", "refresh"}}

authenticateClient(id) == \E c \in clients : c.id = id

ExchangeOAuthCode(r) ==
  /\ r.coded /\ r.status = "approved" /\ r.codeUntil > now
  /\ Set(r, [r EXCEPT !.status = "exchanged"])
  /\ grants' = grants \cup {[id |-> made.pairs + 1, request |-> r.id, client |-> r.client,
                             user |-> r.user, created |-> now, revoked |-> 0]}
  /\ tokens' = tokens \cup newTokenPair(made.pairs + 1)

exchangeCode(r) ==
  /\ authenticateClient(r.client) /\ made.pairs < MaxPairs
  /\ ExchangeOAuthCode(r)
  /\ Bump("pairs")
  /\ UNCHANGED cut /\ TokenOnly

revokeOAuthGrantTx(g) ==
  /\ grants' = {IF h = g /\ h.revoked = 0 THEN [h EXCEPT !.revoked = now] ELSE h : h \in grants}
  /\ tokens' = {t \in tokens : t.grant # g.id}
  /\ cut' = cut \cup {g.request}

GrantOf(t) == CHOOSE g \in grants : g.id = t.grant
Refreshable(t) == t.kind = "refresh" /\ GrantOf(t).revoked = 0
AnyAge(g) == TRUE
WithinLifetime(g) == g.created + MaxGrantLifetime >= now
MarkNothing(t) == t
Mark(t) == [t EXCEPT !.used = now]

(* A refresh token is spent on a new pair. *)
RefreshOAuthTokens(t) ==
  /\ Refreshable(t) /\ t.used = 0 /\ t.until > now
  /\ WithinLifetime(GrantOf(t))
  /\ tokens' = {o \in (tokens \ {t}) \cup {Mark(t)} : o.grant # t.grant \/ o.until > now}
                 \cup newTokenPair(t.grant)

(* A spent one comes back after the grace period: the grant is revoked, in *)
(* a transaction that commits although the answer is an error.             *)
TokenReuse(t) ==
  /\ Refreshable(t) /\ t.used # 0 /\ t.used + ReuseGrace < now
  /\ revokeOAuthGrantTx(GrantOf(t))

refresh(t) ==
  /\ authenticateClient(GrantOf(t).client)
  /\ \/ RefreshOAuthTokens(t) /\ made.pairs < MaxPairs /\ Bump("pairs") /\ UNCHANGED <<grants, cut>>
     \/ TokenReuse(t) /\ UNCHANGED made
  /\ UNCHANGED requests /\ TokenOnly

(***************************************************************************)
(* Revocation: the client's own request with any of its tokens, the button *)
(* of the bot, and the logout of a user.                                   *)
(***************************************************************************)
RevokeOAuthToken(t) == revokeOAuthGrantTx(GrantOf(t))
revoke(t) ==
  /\ authenticateClient(GrantOf(t).client)
  /\ RevokeOAuthToken(t)
  /\ UNCHANGED <<requests, made>> /\ TokenOnly

RevokeOAuthGrant(g) == g.revoked = 0 /\ revokeOAuthGrantTx(g)
handleOAuthRevokeCallback(g) ==
  /\ RevokeOAuthGrant(g)
  /\ UNCHANGED <<requests, made>> /\ TokenOnly

(* Manager.Logout, as far as it matters here: Accounts.tla has its steps. *)
DeleteTelegramSession(u) ==
  /\ u \in connected
  /\ connected' = connected \ {u} /\ leaving' = leaving \cup {u}
  /\ UNCHANGED <<now, tables, callbacks, made, cut>>

ApprovedKept(u) == requests
WithoutApprovals(u) ==
  {IF r.user = u /\ r.status = "approved" THEN [r EXCEPT !.status = "denied", !.coded = FALSE]
                                          ELSE r : r \in requests}
RevokeOAuthGrantsForUser(u) ==
  /\ u \in leaving
  /\ requests' = WithoutApprovals(u)
  /\ tokens' = {t \in tokens : GrantOf(t).user # u}
  /\ grants' = {IF g.user = u /\ g.revoked = 0 THEN [g EXCEPT !.revoked = now] ELSE g : g \in grants}
  /\ cut' = cut \cup {r.id : r \in {r \in requests : r.user = u /\ r.status = "approved"}}
                \cup {g.request : g \in {g \in grants : g.user = u}}
  /\ leaving' = leaving \ {u}
  /\ UNCHANGED <<now, clients, callbacks, connected, made>>

(* A statement of the logout fails, or the process stops. *)
LogoutFails(u) ==
  /\ u \in leaving
  /\ leaving' = leaving \ {u}
  /\ UNCHANGED <<now, tables, callbacks, connected, made, cut>>

(* Manager.Login stores a session, perhaps while a logout is on its way. *)
SaveTelegramSession(u) ==
  /\ u \notin connected
  /\ connected' = connected \cup {u}
  /\ UNCHANGED <<now, tables, callbacks, leaving, made, cut>>

Tick ==
  /\ now < MaxTime /\ now' = now + 1
  /\ UNCHANGED <<tables, callbacks, accounts, made, cut>>

Next ==
  \/ register \/ Tick
  \/ \E c \in clients : authorize(c)
  \/ \E r \in requests : telegramStart(r) \/ FinishOAuthTelegramLogin(r) \/ exchangeCode(r)
  \/ \E c \in callbacks : telegramCallback(c)
  \/ \E t \in tokens : refresh(t) \/ revoke(t)
  \/ \E g \in grants : handleOAuthRevokeCallback(g)
  \/ \E u \in Users : DeleteTelegramSession(u) \/ RevokeOAuthGrantsForUser(u)
                        \/ LogoutFails(u) \/ SaveTelegramSession(u)

Spec == Init /\ [][Next]_vars

(***************************************************************************)
(* Properties.                                                             *)
(***************************************************************************)
Ids == 1..MaxIds
Times == 0..(MaxTime + RefreshTTL + RequestTTL + CodeTTL + AccessTTL)
Pairs == 1..MaxPairs
Client == [id : Ids, created : Times]
Request == [id : Ids, client : Ids, user : Users \cup {None}, login : 0..MaxIds,
            status : {"pending", "approved", "denied", "exchanged"}, coded : BOOLEAN,
            codeUntil : Times, created : Times, until : Times]
Grant == [id : Pairs, request : Ids, client : Ids, user : Users, created : Times,
          revoked : Times]
Token == [pair : Pairs, kind : {"access", "refresh"}, grant : Pairs, until : Times,
          used : Times]
Callback == [login : Ids, request : Ids, user : Users \cup {None}, at : Times,
             pc : {"finished", "check", "decide", "issue"}]
Rows ==
  /\ clients \subseteq Client /\ requests \subseteq Request /\ grants \subseteq Grant
  /\ tokens \subseteq Token /\ callbacks \subseteq Callback
Books ==
  /\ now \in 1..MaxTime /\ connected \subseteq Users /\ leaving \subseteq Users
  /\ made \in [clients : 0..MaxIds, requests : 0..MaxIds, logins : 0..MaxIds, pairs : 0..MaxPairs]
  /\ cut \subseteq Ids
(* primary and foreign keys *)
PrimaryKeys ==
  \A r, s \in requests : r.id = s.id => r = s
ForeignKeys ==
  /\ \A r \in requests : \E c \in clients : c.id = r.client
  /\ \A t \in tokens : Cardinality({g \in grants : g.id = t.grant}) = 1
TypeOK == Rows /\ Books /\ PrimaryKeys /\ ForeignKeys

(* VerifyOAuthAccessToken *)
Valid(t) == t.kind = "access" /\ t.until > now /\ GrantOf(t).revoked = 0
(* A refresh token that was not spent is what its client, if it is still   *)
(* registered, can turn into a valid token.                                *)
Unspent(t) == Refreshable(t) /\ t.used = 0 /\ t.until > now
Renewable(t) == Unspent(t) /\ authenticateClient(GrantOf(t).client)
Usable(t) == Valid(t) \/ Renewable(t)

(* A connection that was cut off stays cut off: once the user's button,    *)
(* the client, the detection of a reused token or a logout has ended it,   *)
(* neither a code that was on its way, nor a refresh, nor a spent token    *)
(* gives anybody a usable token of it again.                               *)
CutOff == \A t \in tokens : GrantOf(t).request \in cut => ~Valid(t) /\ ~Unspent(t)

(* One sign-in leads to at most one connection, and a connection has at    *)
(* most one refresh token that works, whatever is repeated.                *)
OneConnection ==
  /\ \A g, h \in grants : g.request = h.request => g = h
  /\ \A t, s \in tokens : Unspent(t) /\ Unspent(s) /\ t.grant = s.grant => t = s

(* Nobody loses a connection to the housekeeping of others: while the      *)
(* clock stands still, what a client could use it still can, except the    *)
(* refresh token it spends and the connection that is cut in this step:    *)
(* its client, its grant and its tokens are all still there.               *)
(* The same holds for codes on their way and requests being signed in.     *)
NothingUsableLost ==
  [][now' = now =>
       /\ \A t \in tokens : Usable(t) =>
            \/ (\E s \in tokens' : s.grant = t.grant /\ s.kind = t.kind /\ Usable(s)')
            \/ GrantOf(t).request \in cut'
       /\ \A r \in requests :
            Pending(r) \/ (r.status = "approved" /\ r.coded /\ r.codeUntil > now)
              => r.id \in cut' \/ \E s \in requests' : s.id = r.id /\
                   (s.status = r.status \/ (\E c \in callbacks : c.request = r.id)
                                        \/ \E g \in grants' : g.request = r.id)]_vars

(* README: connections end after a year. However often it is refreshed, a  *)
(* connection has no valid access token later than the lifetime of one     *)
(* after the last moment a refresh was accepted.                           *)
EndsAfterLifetime ==
  \A t \in tokens : Valid(t) => now < GrantOf(t).created + MaxGrantLifetime + AccessTTL
===============================================================================
