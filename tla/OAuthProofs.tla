------------------------------ MODULE OAuthProofs ------------------------------
(***************************************************************************)
(* What OAuth.tla states of connections, proved for every set of users,    *)
(* every limit and every lifetime.                                         *)
(*                                                                         *)
(* The argument is one of keys: a grant is the only one of its id and of   *)
(* its request, a token's grant exists, and ids only grow.  With that, a   *)
(* connection that was cut off has no unrevoked grant, and its request is  *)
(* in a state no code is exchanged in.                                     *)
(***************************************************************************)
EXTENDS OAuth, FiniteSetTheorems, TLAPS

(* Ids only grow: whatever is numbered next is not in use. *)
Numbered ==
  /\ \A r \in requests : r.id <= made.requests
  /\ \A g \in grants : g.id <= made.pairs /\ g.request <= made.requests
  /\ \A id \in cut : id <= made.requests
Keyed ==
  /\ PrimaryKeys
  /\ \A g, h \in grants : g.id = h.id \/ g.request = h.request => g = h
  /\ \A r \in requests : \E c \in clients : c.id = r.client
  /\ \A t \in tokens : \E g \in grants : g.id = t.grant
(* An access token is never spent, and a refresh token is spent before     *)
(* there is another.                                                       *)
Spent ==
  /\ \A t \in tokens : t.kind = "access" => t.used = 0
  /\ \A t, s \in tokens :
       t.kind = "refresh" /\ s.kind = "refresh" /\ t.used = 0 /\ s.used = 0
         /\ t.grant = s.grant => t = s
Deadlines ==
  /\ \A t \in tokens, g \in grants : t.kind = "access" /\ t.grant = g.id =>
       t.until <= g.created + MaxGrantLifetime + AccessTTL
  /\ \A r \in requests : r.coded => r.codeUntil <= r.until + CodeTTL
  /\ \A c \in callbacks : c.at <= now
SignedIn ==
  /\ \A r \in requests : r.status = "approved" => r.user \in Users
  /\ \A c \in callbacks : c.pc # "finished" => c.user \in Users
(* A request that led to a connection, or was cut off on its way, leads to *)
(* no other.                                                               *)
UsedUp ==
  /\ \A r \in requests, g \in grants : g.request = r.id => r.status = "exchanged"
  /\ \A r \in requests : r.id \in cut => r.status \in {"denied", "exchanged"}
  /\ \A g \in grants : g.request \in cut => g.revoked # 0

OAuthInv == Rows /\ Books /\ Numbered /\ Keyed /\ Spent /\ Deadlines /\ SignedIn /\ UsedUp

(***************************************************************************)
(* The numbers, and the grant of a token.                                  *)
(***************************************************************************)
LEMMA Numbers ==
  /\ MaxClients \in Nat /\ MaxPending \in Nat /\ ReuseGrace \in Nat /\ CodeTTL \in Nat
  /\ RequestTTL \in Nat /\ AccessTTL \in Nat /\ RefreshTTL \in Nat /\ MaxGrantLifetime \in Nat
  /\ UsedRetention \in Nat /\ RequestRetention \in Nat /\ GrantRetention \in Nat
  /\ ClientRetention \in Nat /\ MaxTime \in Nat /\ MaxIds \in Nat /\ MaxPairs \in Nat
  /\ MaxTime # 0 /\ RefreshTTL # 0 /\ CodeTTL <= RequestRetention /\ None \notin Users
BY OAuthAssumption

LEMMA TheGrant ==
  ASSUME Keyed, NEW t \in tokens
  PROVE  /\ GrantOf(t) \in grants /\ GrantOf(t).id = t.grant
         /\ \A g \in grants : g.id = t.grant => g = GrantOf(t)
BY DEF Keyed, GrantOf

(* A deadline counted from now fits in the times of the model. *)
LEMMA Deadline ==
  ASSUME Books
  PROVE  /\ now \in Nat /\ now # 0 /\ now \in Times /\ 0 \in Times
         /\ now + RequestTTL \in Times /\ now + AccessTTL \in Times /\ now + RefreshTTL \in Times
         /\ \A at \in Times : at <= now => at + CodeTTL \in Times
BY Numbers DEF Books, Times

(***************************************************************************)
(* The housekeeping, with which a registration and an authorization start. *)
(***************************************************************************)
LEMMA PruneKeeps ==
  ASSUME OAuthInv,
         NEW newC \in SUBSET Client, NEW newR \in SUBSET Request,
         \A r \in newR : /\ r.id = made.requests + 1 /\ r.status = "pending" /\ ~r.coded
                         /\ \E c \in KeptClients : c.id = r.client,
         \A r, s \in newR : r = s,
         clients' = KeptClients \cup newC, requests' = KeptRequests \cup newR,
         grants' = KeptGrants, tokens' = KeptTokens,
         UNCHANGED <<now, callbacks, accounts, cut>>,
         made' \in [clients : 0..MaxIds, requests : 0..MaxIds, logins : 0..MaxIds,
                    pairs : 0..MaxPairs],
         made'.requests >= made.requests, newR # {} => made'.requests = made.requests + 1,
         made'.pairs = made.pairs
  PROVE  OAuthInv'
<1>kept. /\ KeptRequests \subseteq requests /\ KeptGrants \subseteq grants
         /\ KeptClients \subseteq clients /\ KeptTokens \subseteq tokens
  BY DEF KeptRequests, KeptGrants, KeptClients, KeptTokens, LiveTokens
<1>rows. Rows'
  BY <1>kept DEF OAuthInv, Rows, Client, Request, Grant, Token, Callback
<1>books. Books' /\ made.requests \in Nat /\ made.pairs \in Nat /\ made'.requests \in Nat
  BY Numbers DEF OAuthInv, Books, accounts
<1>ids. \A r \in requests : r.id \in Nat /\ r.id # made.requests + 1
  <2>1. \A r \in requests : r.id \in Nat /\ r.id <= made.requests
    BY Numbers DEF OAuthInv, Rows, Request, Numbered, Ids
  <2> QED BY <2>1, <1>books
<1>fields. \A g \in grants : g.id \in Nat /\ g.request \in Nat
  BY Numbers DEF OAuthInv, Rows, Grant, Ids, Pairs
<1>cut. \A id \in cut : id \in Nat /\ id # made.requests + 1
  <2>1. \A id \in cut : id \in Nat /\ id <= made.requests
    BY Numbers DEF OAuthInv, Books, Numbered, Ids
  <2> QED BY <2>1, <1>books
<1>numbered. Numbered'
  <2>1. \A r \in requests' : r.id <= made'.requests
    BY <1>kept, <1>ids, <1>books DEF OAuthInv, Numbered
  <2>2. \A g \in grants' : g.id <= made'.pairs /\ g.request <= made'.requests
    BY <1>kept, <1>fields, <1>books DEF OAuthInv, Numbered
  <2>3. \A id \in cut' : id <= made'.requests
    BY <1>cut, <1>books DEF OAuthInv, Numbered
  <2> QED BY <2>1, <2>2, <2>3 DEF Numbered
<1>keyed. Keyed'
  <2>1. PrimaryKeys'
    BY <1>kept, <1>ids DEF OAuthInv, Keyed, PrimaryKeys
  <2>2. \A g, h \in grants' : g.id = h.id \/ g.request = h.request => g = h
    BY <1>kept DEF OAuthInv, Keyed
  <2>3. \A r \in requests' : \E c \in clients' : c.id = r.client
    <3>1. \A r \in KeptRequests : \E c \in KeptClients : c.id = r.client
      BY <1>kept DEF OAuthInv, Keyed, KeptClients
    <3> QED BY <3>1
  <2>4. \A t \in tokens' : \E g \in grants' : g.id = t.grant
    BY DEF KeptTokens
  <2> QED BY <2>1, <2>2, <2>3, <2>4 DEF Keyed
<1>spent. Spent'
  BY <1>kept DEF OAuthInv, Spent
<1>deadlines. Deadlines'
  BY <1>kept DEF OAuthInv, Deadlines
<1>signed. SignedIn'
  BY <1>kept DEF OAuthInv, SignedIn
<1>used. UsedUp'
  <2>1. \A r \in requests', g \in grants' : g.request = r.id => r.status = "exchanged"
    <3>1. \A g \in grants : g.request # made.requests + 1
      BY <1>fields, <1>books DEF OAuthInv, Numbered
    <3> QED BY <3>1, <1>kept DEF OAuthInv, UsedUp
  <2>2. \A r \in requests' : r.id \in cut' => r.status \in {"denied", "exchanged"}
    BY <1>kept, <1>cut DEF OAuthInv, UsedUp
  <2>3. \A g \in grants' : g.request \in cut' => g.revoked # 0
    BY <1>kept DEF OAuthInv, UsedUp
  <2> QED BY <2>1, <2>2, <2>3 DEF UsedUp
<1> QED
  BY <1>rows, <1>books, <1>numbered, <1>keyed, <1>spent, <1>deadlines, <1>signed, <1>used
  DEF OAuthInv

(* A counter that is below its bound may be bumped. *)
LEMMA Bumped ==
  ASSUME Books, NEW field \in {"clients", "requests", "logins", "pairs"}, Bump(field),
         made[field] < IF field = "pairs" THEN MaxPairs ELSE MaxIds
  PROVE  /\ made' \in [clients : 0..MaxIds, requests : 0..MaxIds, logins : 0..MaxIds,
                       pairs : 0..MaxPairs]
         /\ made'[field] = made[field] + 1
         /\ \A f \in {"clients", "requests", "logins", "pairs"} \ {field} : made'[f] = made[f]
BY Numbers DEF Books, Bump

LEMMA RegisterKeeps == ASSUME OAuthInv, register PROVE OAuthInv'
<1> DEFINE new == [id |-> made.clients + 1, created |-> now]
<1>1. Books
  BY DEF OAuthInv
<1>2. made.clients + 1 \in Ids /\ now \in Times /\ made.clients < MaxIds
  BY <1>1, Numbers, Deadline DEF register, Books, Ids
<1>3. new \in Client
  BY <1>2 DEF Client
<1>4. /\ made' \in [clients : 0..MaxIds, requests : 0..MaxIds, logins : 0..MaxIds,
                    pairs : 0..MaxPairs]
      /\ made'.requests = made.requests /\ made'.pairs = made.pairs
  BY <1>1, <1>2, Bumped DEF register
<1>5. made.requests \in Nat
  BY <1>1, Numbers DEF Books
<1>6. /\ clients' = KeptClients \cup {new} /\ requests' = KeptRequests \cup {}
      /\ grants' = KeptGrants /\ tokens' = KeptTokens
      /\ UNCHANGED <<now, callbacks, accounts, cut>>
  BY DEF register, CreateOAuthClient
<1> HIDE DEF new
<1>7. /\ {new} \in SUBSET Client /\ {} \in SUBSET Request
      /\ made'.requests >= made.requests
  BY <1>3, <1>4, <1>5
<1>8. /\ \A r \in {} : /\ r.id = made.requests + 1 /\ r.status = "pending" /\ ~r.coded
                       /\ \E c \in KeptClients : c.id = r.client
      /\ \A r, s \in {} : r = s
      /\ {} # {} => made'.requests = made.requests + 1
  OBVIOUS
<1> QED
  BY <1>4, <1>6, <1>7, <1>8, PruneKeeps, Zenon

LEMMA AuthorizeKeeps ==
  ASSUME OAuthInv, NEW c \in clients, authorize(c) PROVE OAuthInv'
<1> DEFINE new == [id |-> made.requests + 1, client |-> c.id, status |-> "pending",
                   login |-> 0, user |-> None, coded |-> FALSE, codeUntil |-> 0,
                   created |-> now, until |-> now + RequestTTL]
<1>1. Books /\ c.id \in Ids /\ c \in KeptClients
  BY DEF OAuthInv, Rows, Client, authorize, CreateOAuthRequest
<1>2. /\ made.requests + 1 \in Ids /\ made.requests < MaxIds /\ made.requests \in Nat
      /\ now \in Times /\ now + RequestTTL \in Times /\ 0 \in Times /\ 0 \in 0..MaxIds
  BY <1>1, Numbers, Deadline DEF authorize, Books, Ids
<1>3. new \in Request
  BY <1>1, <1>2 DEF Request
<1>4. new.id = made.requests + 1 /\ new.status = "pending" /\ ~new.coded /\ c.id = new.client
  OBVIOUS
<1>5. /\ made' \in [clients : 0..MaxIds, requests : 0..MaxIds, logins : 0..MaxIds,
                    pairs : 0..MaxPairs]
      /\ made'.requests = made.requests + 1 /\ made'.pairs = made.pairs
  BY <1>1, <1>2, Bumped DEF authorize
<1>6. /\ clients' = KeptClients \cup {} /\ requests' = KeptRequests \cup {new}
      /\ grants' = KeptGrants /\ tokens' = KeptTokens
      /\ UNCHANGED <<now, callbacks, accounts, cut>>
  BY DEF authorize, CreateOAuthRequest
<1> HIDE DEF new
<1>7. /\ {} \in SUBSET Client /\ {new} \in SUBSET Request
      /\ made'.requests >= made.requests
  BY <1>2, <1>3, <1>5
<1>8. /\ \A r \in {new} : /\ r.id = made.requests + 1 /\ r.status = "pending" /\ ~r.coded
                          /\ \E k \in KeptClients : k.id = r.client
      /\ \A r, s \in {new} : r = s
      /\ {new} # {} => made'.requests = made.requests + 1
  BY <1>1, <1>4, <1>5
<1> QED
  BY <1>5, <1>6, <1>7, <1>8, PruneKeeps, Zenon

(***************************************************************************)
(* The sign-in with Telegram: one request changes, and the callbacks.      *)
(***************************************************************************)
(* What the callbacks are after a step of one of them. *)
CallbacksOK ==
  /\ callbacks' \subseteq Callback
  /\ \A c \in callbacks' : c.at <= now /\ (c.pc # "finished" => c.user \in Users)

Counters == [clients : 0..MaxIds, requests : 0..MaxIds, logins : 0..MaxIds, pairs : 0..MaxPairs]

(* The tables stay as they are. *)
LEMMA SameTables ==
  ASSUME OAuthInv, UNCHANGED <<tables, cut, made>>, CallbacksOK,
         now' \in 1..MaxTime, now' >= now, connected' \subseteq Users, leaving' \subseteq Users
  PROVE  OAuthInv'
<1>1. now \in Nat /\ now' \in Nat /\ Books' /\ Rows'
  BY Numbers DEF OAuthInv, Books, Rows, CallbacksOK, tables, Client, Request, Grant, Token,
     Callback
<1>2. Numbered' /\ Keyed' /\ Spent' /\ UsedUp'
  BY DEF OAuthInv, Numbered, Keyed, PrimaryKeys, Spent, UsedUp, tables
<1>3. \A c \in callbacks' : c.at <= now'
  <2>1. \A c \in callbacks' : c.at \in Nat /\ c.at <= now
    BY Numbers DEF CallbacksOK, Callback, Times
  <2> QED BY <1>1, <2>1
<1>4. Deadlines' /\ SignedIn'
  BY <1>3 DEF OAuthInv, Deadlines, SignedIn, CallbacksOK, tables
<1> QED
  BY <1>1, <1>2, <1>4 DEF OAuthInv

LEMMA SetKeeps ==
  ASSUME OAuthInv, NEW r \in requests, NEW new \in Request, Set(r, new),
         new.id = r.id, new.client = r.client, r.status \in {"pending", "approved"},
         new.status \in {"pending", "approved", "denied"},
         new.status = "approved" => new.user \in Users,
         new.coded => new.codeUntil <= new.until + CodeTTL,
         UNCHANGED <<now, clients, grants, tokens, accounts, cut>>, CallbacksOK,
         made' \in Counters, made'.requests = made.requests, made'.pairs = made.pairs
  PROVE  OAuthInv'
<1>set. requests' = (requests \ {r}) \cup {new}
  BY DEF Set
<1>rows. Rows'
  BY <1>set DEF OAuthInv, Rows, CallbacksOK, Client, Request, Grant, Token, Callback
<1>books. Books'
  BY DEF OAuthInv, Books, accounts, Counters
<1>numbered. Numbered'
  BY <1>set DEF OAuthInv, Numbered
<1>keyed. Keyed'
  <2>1. PrimaryKeys'
    BY <1>set DEF OAuthInv, Keyed, PrimaryKeys
  <2>2. \A q \in requests' : \E c \in clients' : c.id = q.client
    BY <1>set DEF OAuthInv, Keyed
  <2> QED BY <2>1, <2>2 DEF OAuthInv, Keyed
<1>rest. Spent' /\ Deadlines' /\ SignedIn'
  BY <1>set DEF OAuthInv, Spent, Deadlines, SignedIn, CallbacksOK
<1>used. UsedUp'
  <2>1. r.id \notin cut /\ \A g \in grants : g.request # r.id
    BY DEF OAuthInv, UsedUp
  <2> QED BY <1>set, <2>1 DEF OAuthInv, UsedUp
<1> QED
  BY <1>rows, <1>books, <1>numbered, <1>keyed, <1>rest, <1>used DEF OAuthInv

LEMMA SameCallbacks == ASSUME OAuthInv, UNCHANGED callbacks PROVE CallbacksOK
BY DEF OAuthInv, Rows, Deadlines, SignedIn, CallbacksOK

(* A callback goes on, with what it has learnt, or ends. *)
LEMMA OneGoesOn ==
  ASSUME OAuthInv, NEW c \in callbacks, NEW d,
         callbacks' = (callbacks \ {c}) \cup d, d \subseteq Callback,
         \A e \in d : e.at <= now /\ (e.pc # "finished" => e.user \in Users)
  PROVE  CallbacksOK
BY DEF OAuthInv, Rows, Deadlines, SignedIn, CallbacksOK

LEMMA OneEnds ==
  ASSUME OAuthInv, NEW c \in callbacks, callbacks' = callbacks \ {c} PROVE CallbacksOK
BY DEF OAuthInv, Rows, Deadlines, SignedIn, CallbacksOK

LEMMA TelegramStartKeeps ==
  ASSUME OAuthInv, NEW r \in requests, telegramStart(r) PROVE OAuthInv'
<1> DEFINE new == [r EXCEPT !.login = made.logins + 1]
<1>1. Books /\ r \in Request /\ CallbacksOK
  BY SameCallbacks DEF OAuthInv, Rows, telegramStart
<1>2. /\ made.logins < MaxIds /\ Set(r, new) /\ Pending(r) /\ made.logins + 1 \in 0..MaxIds
      /\ UNCHANGED <<now, clients, grants, tokens, accounts, cut>>
  BY <1>1, Numbers DEF telegramStart, StartOAuthTelegramLogin, SignInOnly, Books
<1>3. made' \in Counters /\ made'.requests = made.requests /\ made'.pairs = made.pairs
  BY <1>1, <1>2, Bumped DEF telegramStart, Counters
<1>4. /\ new \in Request /\ new.id = r.id /\ new.client = r.client /\ new.status = r.status
      /\ new.user = r.user /\ new.until = r.until /\ new.coded = r.coded
      /\ new.codeUntil = r.codeUntil
  BY <1>1, <1>2 DEF Request
<1>5. r.status = "pending" /\ (r.coded => r.codeUntil <= r.until + CodeTTL)
  BY <1>2 DEF OAuthInv, Deadlines, Pending
<1> HIDE DEF new
<1> QED
  BY <1>1, <1>2, <1>3, <1>4, <1>5, SetKeeps

LEMMA FinishKeeps ==
  ASSUME OAuthInv, NEW r \in requests, FinishOAuthTelegramLogin(r) PROVE OAuthInv'
<1> DEFINE new == [r EXCEPT !.login = 0]
           call == [login |-> r.login, request |-> r.id, pc |-> "finished", user |-> None,
                    at |-> 0]
<1>1. Books /\ r \in Request /\ 0 \in 0..MaxIds /\ 0 \in Times
  BY Numbers, Deadline DEF OAuthInv, Rows
<1>2. /\ Set(r, new) /\ Pending(r) /\ r.login # 0
      /\ UNCHANGED <<now, clients, grants, tokens, accounts, cut, made>>
      /\ callbacks' = callbacks \cup {call}
  BY DEF FinishOAuthTelegramLogin, SignInOnly
<1>3. call \in Callback /\ call.pc = "finished" /\ call.at <= now
  BY <1>1, <1>2, Numbers, Deadline DEF Request, Callback, Ids
<1>4. /\ new \in Request /\ new.id = r.id /\ new.client = r.client /\ new.status = r.status
      /\ new.user = r.user /\ new.until = r.until /\ new.coded = r.coded
      /\ new.codeUntil = r.codeUntil
  BY <1>1 DEF Request
<1>5. r.status = "pending" /\ (r.coded => r.codeUntil <= r.until + CodeTTL)
  BY <1>2 DEF OAuthInv, Deadlines, Pending
<1> HIDE DEF new, call
<1>6. CallbacksOK
  BY <1>2, <1>3 DEF OAuthInv, Rows, Deadlines, SignedIn, CallbacksOK
<1>7. made' \in Counters /\ made'.requests = made.requests /\ made'.pairs = made.pairs
  BY <1>1, <1>2 DEF Books, Counters
<1>8. /\ r.status \in {"pending", "approved"} /\ new.status \in {"pending", "approved", "denied"}
      /\ new.status # "approved" /\ (new.coded => new.codeUntil <= new.until + CodeTTL)
  BY <1>4, <1>5
<1>9. UNCHANGED <<now, clients, grants, tokens, accounts, cut>>
  BY <1>2
<1> QED
  BY <1>2, <1>4, <1>6, <1>7, <1>8, <1>9, SetKeeps

LEMMA DenyKeeps ==
  ASSUME OAuthInv, NEW c \in callbacks, Deny(c) PROVE OAuthInv'
<1>1. /\ UNCHANGED <<now, clients, grants, tokens, accounts, cut, made>> /\ Books
      /\ callbacks' = callbacks \ {c}
  BY DEF Deny, SignInOnly, OAuthInv
<1>2. CallbacksOK
  BY <1>1, OneEnds
<1>3. made' \in Counters
  BY <1>1 DEF Books, Counters
<1>4. PICK r \in requests :
        IF Pending(r) THEN Set(r, [r EXCEPT !.status = "denied"]) ELSE UNCHANGED requests
  BY DEF Deny, ById
<1>5. CASE Pending(r)
  <2> DEFINE new == [r EXCEPT !.status = "denied"]
  <2>1. Set(r, new) /\ r.status = "pending" /\ r \in Request
        /\ (r.coded => r.codeUntil <= r.until + CodeTTL)
    BY <1>4, <1>5 DEF Pending, OAuthInv, Rows, Deadlines
  <2>2. /\ new \in Request /\ new.id = r.id /\ new.client = r.client /\ new.status = "denied"
        /\ new.until = r.until /\ new.coded = r.coded /\ new.codeUntil = r.codeUntil
    BY <2>1 DEF Request
  <2> HIDE DEF new
  <2> QED BY <1>1, <1>2, <1>3, <2>1, <2>2, SetKeeps
<1>6. CASE ~Pending(r)
  <2>1. /\ UNCHANGED <<tables, cut, made, now>> /\ connected' \subseteq Users
        /\ leaving' \subseteq Users /\ now' \in 1..MaxTime /\ now' >= now
    BY <1>1, <1>4, <1>6, Numbers DEF tables, accounts, Books
  <2> QED BY <1>2, <2>1, SameTables
<1> QED
  BY <1>5, <1>6

(* Between its transactions a callback changes no table. *)
LEMMA CallbackAloneKeeps ==
  ASSUME OAuthInv, NEW c \in callbacks,
         (\E u \in Users : userID(c, u)) \/ OAuthAccountConnected(c) \/ CallbackEnds(c)
  PROVE  OAuthInv'
<1>1. /\ UNCHANGED <<tables, cut, made, now>> /\ connected' \subseteq Users
      /\ leaving' \subseteq Users /\ now' \in 1..MaxTime /\ now' >= now
  <2>1. UNCHANGED <<tables, cut, made, now, connected, leaving>>
    BY DEF userID, OAuthAccountConnected, CallbackEnds, SignInOnly, tables, accounts
  <2> QED BY <2>1, Numbers DEF OAuthInv, Books
<1>2. c \in Callback /\ c.at <= now
  BY DEF OAuthInv, Rows, Deadlines
<1>3. CallbacksOK
  <2>1. CASE \E u \in Users : userID(c, u)
    <3>1. PICK u \in Users : userID(c, u)
      BY <2>1
    <3> DEFINE d == [c EXCEPT !.pc = "check", !.user = u]
    <3>2. callbacks' = (callbacks \ {c}) \cup {d}
      BY <3>1 DEF userID
    <3>3. d \in Callback /\ d.at = c.at /\ d.user = u
      BY <1>2 DEF Callback
    <3> HIDE DEF d
    <3> QED BY <1>2, <3>2, <3>3, OneGoesOn
  <2>2. CASE OAuthAccountConnected(c)
    <3> DEFINE d == [c EXCEPT !.pc = "decide"]
    <3>1. callbacks' = (callbacks \ {c}) \cup {d} /\ c.user \in Users
      BY <2>2 DEF OAuthAccountConnected, Goes, OAuthInv, Books
    <3>2. d \in Callback /\ d.at = c.at /\ d.user = c.user
      BY <1>2 DEF Callback
    <3> HIDE DEF d
    <3> QED BY <1>2, <3>1, <3>2, OneGoesOn
  <2>3. CASE CallbackEnds(c)
    BY <2>3, OneEnds DEF CallbackEnds
  <2> QED BY <2>1, <2>2, <2>3
<1> QED
  BY <1>1, <1>3, SameTables

LEMMA DecideKeeps ==
  ASSUME OAuthInv, NEW c \in callbacks, DecideOAuthRequest(c) PROVE OAuthInv'
<1> DEFINE d == [c EXCEPT !.pc = "issue", !.at = now]
<1>1. /\ UNCHANGED <<now, clients, grants, tokens, accounts, cut, made>> /\ Books
      /\ callbacks' = (callbacks \ {c}) \cup {d}
  BY DEF DecideOAuthRequest, SignInOnly, OAuthInv
<1>2. c \in Callback /\ c.user \in Users /\ now \in Times /\ now <= now
  BY <1>1, Deadline DEF OAuthInv, Rows, SignedIn, DecideOAuthRequest
<1>3. d \in Callback /\ d.at = now /\ d.user = c.user
  BY <1>2 DEF Callback
<1>4. CallbacksOK
  <2> HIDE DEF d
  <2> QED BY <1>1, <1>2, <1>3, OneGoesOn
<1>5. made' \in Counters
  BY <1>1 DEF Books, Counters
<1>6. PICK r \in requests :
        Pending(r) /\ Set(r, [r EXCEPT !.status = "approved", !.user = c.user])
  BY DEF DecideOAuthRequest, ById
<1> DEFINE new == [r EXCEPT !.status = "approved", !.user = c.user]
<1>7. Set(r, new) /\ r.status = "pending" /\ r \in Request
      /\ (r.coded => r.codeUntil <= r.until + CodeTTL)
  BY <1>6 DEF Pending, OAuthInv, Rows, Deadlines
<1>8. /\ new \in Request /\ new.id = r.id /\ new.client = r.client /\ new.status = "approved"
      /\ new.user \in Users /\ new.until = r.until /\ new.coded = r.coded
      /\ new.codeUntil = r.codeUntil
  BY <1>2, <1>7 DEF Request
<1> HIDE DEF new, d
<1>9. /\ r.status \in {"pending", "approved"} /\ new.status \in {"pending", "approved", "denied"}
      /\ (new.coded => new.codeUntil <= new.until + CodeTTL)
  BY <1>7, <1>8
<1>10. /\ UNCHANGED <<now, clients, grants, tokens, accounts, cut>>
       /\ made'.requests = made.requests /\ made'.pairs = made.pairs
  BY <1>1
<1> QED
  BY <1>4, <1>5, <1>7, <1>8, <1>9, <1>10, SetKeeps

LEMMA IssueKeeps ==
  ASSUME OAuthInv, NEW c \in callbacks, IssueOAuthCode(c) PROVE OAuthInv'
<1>1. /\ UNCHANGED <<now, clients, grants, tokens, accounts, cut, made>> /\ Books
      /\ callbacks' = callbacks \ {c}
  BY DEF IssueOAuthCode, SignInOnly, OAuthInv
<1>2. CallbacksOK /\ made' \in Counters
  BY <1>1, OneEnds DEF Books, Counters
<1>3. PICK r \in requests :
        /\ r.status = "approved" /\ ~r.coded /\ r.until > c.at
        /\ Set(r, [r EXCEPT !.coded = TRUE, !.codeUntil = c.at + CodeTTL])
  BY DEF IssueOAuthCode, ById
<1>4. /\ r \in Request /\ r.user \in Users /\ r.until \in Nat /\ c.at \in Nat
      /\ c.at + CodeTTL \in Times
  <2>1. c \in Callback /\ r \in Request /\ c.at <= now
    BY DEF OAuthInv, Rows, Deadlines
  <2>2. c.at \in Times /\ r.until \in Times
    BY <2>1 DEF Callback, Request
  <2> QED BY <1>1, <1>3, <2>1, <2>2, Numbers, Deadline DEF OAuthInv, SignedIn, Times
<1> DEFINE new == [r EXCEPT !.coded = TRUE, !.codeUntil = c.at + CodeTTL]
<1>5. /\ new \in Request /\ new.id = r.id /\ new.client = r.client /\ new.status = "approved"
      /\ new.user = r.user /\ new.until = r.until /\ new.codeUntil = c.at + CodeTTL
  BY <1>3, <1>4 DEF Request
<1>6. Set(r, new)
  BY <1>3
<1> HIDE DEF new
<1>7. new.codeUntil <= new.until + CodeTTL
  BY <1>3, <1>4, <1>5, Numbers
<1> QED
  BY <1>1, <1>2, <1>3, <1>4, <1>5, <1>6, <1>7, SetKeeps

(***************************************************************************)
(* The token endpoint.                                                     *)
(***************************************************************************)
(* A new pair is two tokens, one of each kind, neither of them spent. *)
LEMMA NewPair ==
  ASSUME OAuthInv, made.pairs < MaxPairs, NEW g \in Pairs
  PROVE  /\ newTokenPair(g) \subseteq Token
         /\ \A t \in newTokenPair(g) : /\ t.grant = g /\ t.used = 0
                                       /\ t.kind = "access" => t.until = now + AccessTTL
                                       /\ t.kind = "refresh" => t.until = now + RefreshTTL
         /\ \A t, s \in newTokenPair(g) : t.kind = s.kind => t = s
         /\ \A k \in {"access", "refresh"} : \E t \in newTokenPair(g) : t.kind = k
<1> DEFINE T(k) == [pair |-> made.pairs + 1, kind |-> k, grant |-> g, used |-> 0,
                    until |-> now + (IF k = "access" THEN AccessTTL ELSE RefreshTTL)]
<1>1. newTokenPair(g) = {T(k) : k \in {"access", "refresh"}}
  BY DEF newTokenPair
<1>2. /\ now \in Nat /\ now + AccessTTL \in Times /\ now + RefreshTTL \in Times /\ 0 \in Times
      /\ made.pairs + 1 \in Pairs
  BY Deadline, Numbers DEF OAuthInv, Books, Pairs
<1>3. \A k \in {"access", "refresh"} :
        /\ T(k) \in Token /\ T(k).kind = k /\ T(k).grant = g /\ T(k).used = 0
        /\ k = "access" => T(k).until = now + AccessTTL
        /\ k = "refresh" => T(k).until = now + RefreshTTL
  BY <1>2 DEF Token
<1> HIDE DEF T
<1> QED
  BY <1>1, <1>3

LEMMA ExchangeKeeps ==
  ASSUME OAuthInv, NEW r \in requests, exchangeCode(r) PROVE OAuthInv'
<1> DEFINE new == [r EXCEPT !.status = "exchanged"]
           id == made.pairs + 1
           g == [id |-> id, request |-> r.id, client |-> r.client, user |-> r.user,
                 created |-> now, revoked |-> 0]
<1>1. /\ made.pairs < MaxPairs /\ r.coded /\ r.status = "approved" /\ Set(r, new)
      /\ grants' = grants \cup {g} /\ tokens' = tokens \cup newTokenPair(id)
      /\ UNCHANGED <<now, clients, callbacks, accounts, cut>> /\ Bump("pairs")
  BY DEF exchangeCode, ExchangeOAuthCode, TokenOnly
<1>2. /\ Books /\ r \in Request /\ r.user \in Users /\ r.id \in Nat /\ made.pairs \in Nat
      /\ now \in Nat /\ id \in Pairs /\ now \in Times /\ 0 \in Times
  <2>1. Books /\ r \in Request /\ r.user \in Users
    BY <1>1 DEF OAuthInv, Rows, SignedIn
  <2> QED BY <1>1, <2>1, Numbers, Deadline DEF Books, Request, Ids, Pairs
<1>3. /\ new \in Request /\ new.id = r.id /\ new.client = r.client /\ new.status = "exchanged"
      /\ new.coded = r.coded /\ new.codeUntil = r.codeUntil /\ new.until = r.until
  BY <1>2 DEF Request
<1>4. g \in Grant
  BY <1>2 DEF Grant, Request
<1>5. /\ made' \in Counters /\ made'.requests = made.requests /\ made'.pairs = id
  BY <1>1, <1>2, Bumped DEF Counters
<1>6. /\ r.id \notin cut /\ \A h \in grants : h.request # r.id
      /\ \A q \in requests : q.id = r.id => q = r
  BY <1>1 DEF OAuthInv, UsedUp, Keyed, PrimaryKeys
<1>7. \A h \in grants : h.id \in Nat /\ h.id # id
  <2>1. \A h \in grants : h.id \in Nat /\ h.id <= made.pairs
    BY Numbers DEF OAuthInv, Rows, Grant, Numbered, Pairs
  <2> QED BY <1>2, <2>1
<1>8. \A t \in tokens : t.grant # id
  BY <1>7 DEF OAuthInv, Keyed
<1>p. /\ newTokenPair(id) \subseteq Token
      /\ \A t \in newTokenPair(id) : /\ t.grant = id /\ t.used = 0
                                     /\ t.kind = "access" => t.until = now + AccessTTL
      /\ \A t, s \in newTokenPair(id) : t.kind = s.kind => t = s
  BY <1>1, <1>2, NewPair
<1>g. g.id = id /\ g.request = r.id /\ g.created = now
  OBVIOUS
<1>set. requests' = (requests \ {r}) \cup {new}
  BY <1>1 DEF Set
<1> DEFINE Pair == newTokenPair(id)
<1> HIDE DEF new, g, Pair
<1>t. tokens' = tokens \cup Pair
  BY <1>1 DEF Pair
<1>q. /\ Pair \subseteq Token
      /\ \A t \in Pair : /\ t.grant = id /\ t.used = 0
                         /\ t.kind = "access" => t.until = now + AccessTTL
      /\ \A t, s \in Pair : t.kind = s.kind => t = s
  BY <1>p DEF Pair
<1>rows. Rows'
  BY <1>1, <1>3, <1>4, <1>t, <1>q, <1>set
  DEF OAuthInv, Rows, Client, Request, Grant, Token, Callback
<1>books. Books'
  BY <1>1, <1>5 DEF OAuthInv, Books, accounts, Counters
<1>numbered. Numbered'
  <2>1. \A h \in grants : h.id \in Nat /\ h.id <= made.pairs
    BY Numbers DEF OAuthInv, Rows, Grant, Numbered, Pairs
  <2>2. \A h \in grants' : h.id <= made'.pairs
    BY <2>1, <1>1, <1>2, <1>5, <1>g
  <2> QED BY <2>2, <1>1, <1>3, <1>5, <1>g, <1>set DEF OAuthInv, Numbered
<1>keyed. Keyed'
  <2>1. PrimaryKeys'
    BY <1>set, <1>3, <1>6 DEF OAuthInv, Keyed, PrimaryKeys
  <2>2. \A h, k \in grants' : h.id = k.id \/ h.request = k.request => h = k
    BY <1>1, <1>g, <1>6, <1>7 DEF OAuthInv, Keyed
  <2>3. \A q \in requests' : \E c \in clients' : c.id = q.client
    BY <1>set, <1>3, <1>1 DEF OAuthInv, Keyed
  <2>4. \A t \in tokens' : \E h \in grants' : h.id = t.grant
    BY <1>1, <1>t, <1>q, <1>g DEF OAuthInv, Keyed
  <2> QED BY <2>1, <2>2, <2>3, <2>4 DEF Keyed
<1>spent. Spent'
  BY <1>t, <1>q, <1>8 DEF OAuthInv, Spent
<1>deadlines. Deadlines'
  <2>1. \A t \in tokens', h \in grants' : t.kind = "access" /\ t.grant = h.id =>
          t.until <= h.created + MaxGrantLifetime + AccessTTL
    <3> SUFFICES ASSUME NEW t \in tokens', NEW h \in grants', t.kind = "access", t.grant = h.id
                 PROVE  t.until <= h.created + MaxGrantLifetime + AccessTTL
      OBVIOUS
    <3>1. CASE t \in tokens
      BY <3>1, <1>1, <1>8, <1>g DEF OAuthInv, Deadlines
    <3>2. CASE t \in Pair
      <4>1. h = g
        BY <3>2, <1>1, <1>7, <1>q
      <4> QED BY <3>2, <4>1, <1>q, <1>g, <1>2, Numbers
    <3> QED BY <3>1, <3>2, <1>t
  <2> QED BY <2>1, <1>set, <1>1, <1>3 DEF OAuthInv, Deadlines
<1>signed. SignedIn'
  BY <1>set, <1>1, <1>3 DEF OAuthInv, SignedIn
<1>used. UsedUp'
  BY <1>set, <1>1, <1>3, <1>6, <1>g DEF OAuthInv, UsedUp
<1> QED
  BY <1>rows, <1>books, <1>numbered, <1>keyed, <1>spent, <1>deadlines, <1>signed, <1>used
  DEF OAuthInv

LEMMA RotateKeeps ==
  ASSUME OAuthInv, NEW t \in tokens, RefreshOAuthTokens(t), made.pairs < MaxPairs, Bump("pairs"),
         UNCHANGED <<grants, cut, requests>>, TokenOnly
  PROVE  OAuthInv'
<1> DEFINE spent == Mark(t)
           Pair == newTokenPair(t.grant)
<1>1. /\ t.kind = "refresh" /\ t.used = 0 /\ WithinLifetime(GrantOf(t))
      /\ UNCHANGED <<now, clients, callbacks, accounts>>
      /\ tokens' \subseteq (tokens \ {t}) \cup {spent} \cup Pair
  BY DEF RefreshOAuthTokens, Refreshable, TokenOnly
<1>2. Books /\ t \in Token /\ now \in Times /\ now \in Nat /\ now # 0
  BY Deadline DEF OAuthInv, Rows
<1>3. spent \in Token /\ spent.kind = "refresh" /\ spent.used = now /\ spent.grant = t.grant
  BY <1>1, <1>2 DEF Token, Mark
<1>4. /\ Pair \subseteq Token
      /\ \A s \in Pair : /\ s.grant = t.grant /\ s.used = 0
                         /\ s.kind = "access" => s.until = now + AccessTTL
      /\ \A s, o \in Pair : s.kind = o.kind => s = o
  BY <1>2, NewPair DEF Token
<1>5. /\ made' \in Counters /\ made'.requests = made.requests /\ made'.pairs = made.pairs + 1
  BY <1>2, Bumped DEF Counters
<1> HIDE DEF spent, Pair
<1>rows. Rows'
  BY <1>1, <1>3, <1>4 DEF OAuthInv, Rows, Client, Request, Grant, Token, Callback
<1>books. Books'
  BY <1>1, <1>5 DEF OAuthInv, Books, accounts, Counters
<1>numbered. Numbered'
  <2>1. \A h \in grants : h.id \in Nat /\ h.id <= made.pairs
    BY Numbers DEF OAuthInv, Rows, Grant, Numbered, Pairs
  <2>2. made.pairs \in Nat
    BY <1>2, Numbers DEF Books
  <2>3. \A h \in grants' : h.id <= made'.pairs
    BY <2>1, <2>2, <1>5
  <2> QED BY <2>3, <1>5 DEF OAuthInv, Numbered
<1>keyed. Keyed'
  <2>1. \A s \in tokens' : \E h \in grants : h.id = s.grant
    BY <1>1, <1>3, <1>4 DEF OAuthInv, Keyed
  <2> QED BY <2>1, <1>1 DEF OAuthInv, Keyed, PrimaryKeys
<1>spent. Spent'
  <2>1. \A s \in tokens' : s.kind = "access" => s.used = 0
    BY <1>1, <1>3, <1>4 DEF OAuthInv, Spent
  <2>2. \A s \in tokens' : s.kind = "refresh" /\ s.used = 0 /\ s.grant = t.grant => s \in Pair
    BY <1>1, <1>2, <1>3 DEF OAuthInv, Spent
  <2>3. \A s \in tokens' : s.grant # t.grant => s \in tokens
    BY <1>1, <1>3, <1>4
  <2> QED BY <2>1, <2>2, <2>3, <1>4 DEF OAuthInv, Spent
<1>deadlines. Deadlines'
  <2>1. \A s \in tokens', h \in grants' : s.kind = "access" /\ s.grant = h.id =>
          s.until <= h.created + MaxGrantLifetime + AccessTTL
    <3> SUFFICES ASSUME NEW s \in tokens', NEW h \in grants, s.kind = "access", s.grant = h.id
                 PROVE  s.until <= h.created + MaxGrantLifetime + AccessTTL
      OBVIOUS
    <3>1. CASE s \in tokens
      BY <3>1 DEF OAuthInv, Deadlines
    <3>2. CASE s \in Pair
      <4>1. h = GrantOf(t) /\ h.created \in Nat
        BY <3>2, <1>4, TheGrant DEF OAuthInv, Rows, Grant, Times
      <4>2. h.created + MaxGrantLifetime >= now /\ s.until = now + AccessTTL
        BY <3>2, <4>1, <1>1, <1>4 DEF WithinLifetime
      <4> QED BY <4>1, <4>2, <1>2, Numbers
    <3> QED BY <3>1, <3>2, <1>1, <1>3
  <2> QED BY <2>1, <1>1 DEF OAuthInv, Deadlines
<1>rest. SignedIn' /\ UsedUp'
  BY <1>1 DEF OAuthInv, SignedIn, UsedUp
<1> QED
  BY <1>rows, <1>books, <1>numbered, <1>keyed, <1>spent, <1>deadlines, <1>rest DEF OAuthInv

(***************************************************************************)
(* Whoever cuts connections off: grants are revoked, approvals denied,     *)
(* and tokens deleted.                                                     *)
(***************************************************************************)
(* The grants of S are revoked, by G, and the approvals of W denied, by R. *)
Revokes(G, S) ==
  /\ grants' = {G[h] : h \in grants}
  /\ \A h \in grants :
       /\ G[h] \in Grant /\ G[h].id = h.id /\ G[h].request = h.request
       /\ G[h].created = h.created /\ (h.revoked # 0 \/ h \in S => G[h].revoked # 0)
Denies(R, W) ==
  /\ requests' = {R[r] : r \in requests}
  /\ \A r \in requests :
       /\ R[r] \in Request /\ R[r].id = r.id /\ R[r].client = r.client
       /\ R[r].user = r.user /\ R[r].until = r.until /\ R[r].codeUntil = r.codeUntil
       /\ (r \in W => R[r].status = "denied" /\ ~R[r].coded)
       /\ (r \notin W => R[r] = r)
(* What else happens then. *)
CutsOff(S, W) ==
  /\ S \subseteq grants /\ W \subseteq requests /\ \A r \in W : r.status = "approved"
  /\ tokens' \subseteq tokens
  /\ cut' = cut \cup {r.id : r \in W} \cup {g.request : g \in S}
  /\ UNCHANGED <<now, clients, callbacks, made>>
  /\ connected' \subseteq Users /\ leaving' \subseteq Users

LEMMA MappedKeeps ==
  ASSUME OAuthInv, NEW S, NEW W, NEW G, NEW R, Revokes(G, S), Denies(R, W), CutsOff(S, W)
  PROVE  OAuthInv'
<1> USE DEF Revokes, Denies, CutsOff
<1>rows. Rows'
  BY DEF OAuthInv, Rows, Client, Request, Grant, Token, Callback
<1>books. Books'
  <2>1. \A r \in W : r.id \in Ids
    BY DEF OAuthInv, Rows, Request
  <2>2. \A g \in S : g.request \in Ids
    BY DEF OAuthInv, Rows, Grant
  <2> QED BY <2>1, <2>2 DEF OAuthInv, Books
<1>numbered. Numbered'
  BY DEF OAuthInv, Numbered
<1>keyed. Keyed'
  <2>1. PrimaryKeys'
    BY DEF OAuthInv, Keyed, PrimaryKeys
  <2>2. \A g, h \in grants' : g.id = h.id \/ g.request = h.request => g = h
    BY DEF OAuthInv, Keyed
  <2>3. \A r \in requests' : \E c \in clients' : c.id = r.client
    BY DEF OAuthInv, Keyed
  <2>4. \A t \in tokens' : \E g \in grants' : g.id = t.grant
    BY DEF OAuthInv, Keyed
  <2> QED BY <2>1, <2>2, <2>3, <2>4 DEF Keyed
<1>spent. Spent'
  BY DEF OAuthInv, Spent
<1>deadlines. Deadlines'
  <2>1. \A t \in tokens', g \in grants' : t.kind = "access" /\ t.grant = g.id =>
          t.until <= g.created + MaxGrantLifetime + AccessTTL
    BY DEF OAuthInv, Deadlines
  <2>2. \A r \in requests' : r.coded => r.codeUntil <= r.until + CodeTTL
    BY DEF OAuthInv, Deadlines
  <2> QED BY <2>1, <2>2 DEF OAuthInv, Deadlines
<1>signed. SignedIn'
  BY DEF OAuthInv, SignedIn
<1>used. UsedUp'
  <2>1. \A r \in requests', g \in grants' : g.request = r.id => r.status = "exchanged"
    BY DEF OAuthInv, UsedUp
  <2>2. \A r \in requests' : r.id \in cut' => r.status \in {"denied", "exchanged"}
    <3> SUFFICES ASSUME NEW r \in requests, R[r].id \in cut'
                 PROVE  R[r].status \in {"denied", "exchanged"}
      OBVIOUS
    <3>1. CASE r \in W
      BY <3>1
    <3>2. CASE r \notin W
      <4>1. R[r] = r /\ r.id \notin {q.id : q \in W}
        BY <3>2 DEF OAuthInv, Keyed, PrimaryKeys
      <4> QED BY <4>1 DEF OAuthInv, UsedUp
    <3> QED BY <3>1, <3>2
  <2>3. \A g \in grants' : g.request \in cut' => g.revoked # 0
    <3> SUFFICES ASSUME NEW g \in grants, G[g].request \in cut'
                 PROVE  G[g].revoked # 0
      OBVIOUS
    <3>1. \A r \in W : r.id # g.request
      BY DEF OAuthInv, UsedUp
    <3>2. g.request \in cut => g.revoked # 0
      BY DEF OAuthInv, UsedUp
    <3>3. g.request \in {h.request : h \in S} => g \in S
      BY DEF OAuthInv, Keyed
    <3> QED BY <3>1, <3>2, <3>3
  <2> QED BY <2>1, <2>2, <2>3 DEF UsedUp
<1> QED
  BY <1>rows, <1>books, <1>numbered, <1>keyed, <1>spent, <1>deadlines, <1>signed, <1>used
  DEF OAuthInv

LEMMA CutKeeps ==
  ASSUME OAuthInv, NEW S, NEW W, CutsOff(S, W),
         grants' = {IF h \in S /\ h.revoked = 0 THEN [h EXCEPT !.revoked = now] ELSE h :
                      h \in grants},
         requests' = {IF r \in W THEN [r EXCEPT !.status = "denied", !.coded = FALSE] ELSE r :
                        r \in requests}
  PROVE  OAuthInv'
<1>a. PICK G : G = [h \in grants |->
                  IF h \in S /\ h.revoked = 0 THEN [h EXCEPT !.revoked = now] ELSE h]
  OBVIOUS
<1>b. PICK R : R = [r \in requests |->
                  IF r \in W THEN [r EXCEPT !.status = "denied", !.coded = FALSE] ELSE r]
  OBVIOUS
<1>1. grants' = {G[h] : h \in grants} /\ requests' = {R[r] : r \in requests}
  BY <1>a, <1>b
<1>2. now \in Times /\ now # 0
  BY Deadline DEF OAuthInv
<1>3. \A h \in grants :
        /\ G[h] \in Grant /\ G[h].id = h.id /\ G[h].request = h.request
        /\ G[h].created = h.created /\ (h.revoked # 0 \/ h \in S => G[h].revoked # 0)
  <2> SUFFICES ASSUME NEW h \in grants
               PROVE  /\ G[h] \in Grant /\ G[h].id = h.id /\ G[h].request = h.request
                      /\ G[h].created = h.created
                      /\ (h.revoked # 0 \/ h \in S => G[h].revoked # 0)
    OBVIOUS
  <2>1. h \in Grant
    BY DEF OAuthInv, Rows
  <2> QED BY <2>1, <1>2, <1>a DEF Grant
<1>4. \A r \in requests :
        /\ R[r] \in Request /\ R[r].id = r.id /\ R[r].client = r.client
        /\ R[r].user = r.user /\ R[r].until = r.until /\ R[r].codeUntil = r.codeUntil
        /\ (r \in W => R[r].status = "denied" /\ ~R[r].coded)
        /\ (r \notin W => R[r] = r)
  <2> SUFFICES ASSUME NEW r \in requests
               PROVE  /\ R[r] \in Request /\ R[r].id = r.id /\ R[r].client = r.client
                      /\ R[r].user = r.user /\ R[r].until = r.until
                      /\ R[r].codeUntil = r.codeUntil
                      /\ (r \in W => R[r].status = "denied" /\ ~R[r].coded)
                      /\ (r \notin W => R[r] = r)
    OBVIOUS
  <2>1. r \in Request
    BY DEF OAuthInv, Rows
  <2> QED BY <2>1, <1>b DEF Request
<1>5. Revokes(G, S)
  BY <1>1, <1>3 DEF Revokes
<1>6. Denies(R, W)
  BY <1>1, <1>4 DEF Denies
<1> QED
  BY <1>5, <1>6, MappedKeeps

LEMMA RevokeTxKeeps ==
  ASSUME OAuthInv, NEW g \in grants, revokeOAuthGrantTx(g), UNCHANGED <<requests, made>>, TokenOnly
  PROVE  OAuthInv'
<1>1. CutsOff({g}, {})
  BY DEF OAuthInv, Books, revokeOAuthGrantTx, CutsOff, TokenOnly, accounts
<1>2. grants' = {IF h \in {g} /\ h.revoked = 0 THEN [h EXCEPT !.revoked = now] ELSE h :
                   h \in grants}
  BY DEF revokeOAuthGrantTx
<1>3. requests' = {IF r \in {} THEN [r EXCEPT !.status = "denied", !.coded = FALSE] ELSE r :
                     r \in requests}
  OBVIOUS
<1> QED
  BY <1>1, <1>2, <1>3, CutKeeps

LEMMA RefreshKeeps == ASSUME OAuthInv, NEW t \in tokens, refresh(t) PROVE OAuthInv'
<1>1. UNCHANGED requests /\ TokenOnly /\ GrantOf(t) \in grants
  BY TheGrant DEF refresh, OAuthInv
<1>2. CASE /\ RefreshOAuthTokens(t) /\ made.pairs < MaxPairs /\ Bump("pairs")
           /\ UNCHANGED <<grants, cut>>
  BY <1>1, <1>2, RotateKeeps
<1>3. CASE TokenReuse(t) /\ UNCHANGED made
  BY <1>1, <1>3, RevokeTxKeeps DEF TokenReuse
<1> QED
  BY <1>2, <1>3 DEF refresh

LEMMA RevokeForUserKeeps ==
  ASSUME OAuthInv, NEW u \in Users, RevokeOAuthGrantsForUser(u) PROVE OAuthInv'
<1> DEFINE S == {g \in grants : g.user = u}
           W == {r \in requests : r.user = u /\ r.status = "approved"}
<1>1. CutsOff(S, W)
  BY DEF OAuthInv, Books, RevokeOAuthGrantsForUser, CutsOff
<1>2. grants' = {IF h \in S /\ h.revoked = 0 THEN [h EXCEPT !.revoked = now] ELSE h :
                   h \in grants}
  BY DEF RevokeOAuthGrantsForUser
<1>3. requests' = {IF r \in W THEN [r EXCEPT !.status = "denied", !.coded = FALSE] ELSE r :
                     r \in requests}
  BY DEF RevokeOAuthGrantsForUser, WithoutApprovals
<1> HIDE DEF S, W
<1> QED
  BY <1>1, <1>2, <1>3, CutKeeps

(* Accounts and the clock. *)
LEMMA AroundKeeps ==
  ASSUME OAuthInv,
         Tick \/ \E u \in Users : DeleteTelegramSession(u) \/ LogoutFails(u)
                                    \/ SaveTelegramSession(u)
  PROVE  OAuthInv'
<1>1. now \in Nat
  BY Deadline DEF OAuthInv
<1>2. /\ UNCHANGED <<tables, cut, made, callbacks>> /\ now' \in 1..MaxTime /\ now' >= now
      /\ connected' \subseteq Users /\ leaving' \subseteq Users
  BY <1>1, Numbers DEF Tick, DeleteTelegramSession, LogoutFails, SaveTelegramSession, accounts,
     OAuthInv, Books
<1> QED
  BY <1>2, SameCallbacks, SameTables

LEMMA InitKeeps == ASSUME Init PROVE OAuthInv
<1>1. Rows /\ Books
  BY Numbers DEF Init, Rows, Books
<1>2. Numbered /\ Keyed /\ Spent /\ Deadlines /\ SignedIn /\ UsedUp
  BY DEF Init, Numbered, Keyed, PrimaryKeys, Spent, Deadlines, SignedIn, UsedUp
<1> QED
  BY <1>1, <1>2 DEF OAuthInv

LEMMA StepKeeps == ASSUME OAuthInv, [Next]_vars PROVE OAuthInv'
<1>1. CASE register
  BY <1>1, RegisterKeeps
<1>2. CASE \E c \in clients : authorize(c)
  BY <1>2, AuthorizeKeeps
<1>3. CASE \E r \in requests : telegramStart(r) \/ FinishOAuthTelegramLogin(r) \/ exchangeCode(r)
  BY <1>3, TelegramStartKeeps, FinishKeeps, ExchangeKeeps
<1>4. CASE \E c \in callbacks : telegramCallback(c)
  BY <1>4, DenyKeeps, CallbackAloneKeeps, DecideKeeps, IssueKeeps DEF telegramCallback
<1>5. CASE \E t \in tokens : refresh(t)
  BY <1>5, RefreshKeeps
<1>6. CASE \E t \in tokens : revoke(t)
  <2>1. PICK t \in tokens : revoke(t)
    BY <1>6
  <2>2. GrantOf(t) \in grants
    BY TheGrant DEF OAuthInv
  <2> QED BY <2>1, <2>2, RevokeTxKeeps DEF revoke, RevokeOAuthToken
<1>7. CASE \E g \in grants : handleOAuthRevokeCallback(g)
  BY <1>7, RevokeTxKeeps DEF handleOAuthRevokeCallback, RevokeOAuthGrant
<1>8. CASE \E u \in Users : RevokeOAuthGrantsForUser(u)
  BY <1>8, RevokeForUserKeeps
<1>9. CASE Tick \/ \E u \in Users : DeleteTelegramSession(u) \/ LogoutFails(u)
                                      \/ SaveTelegramSession(u)
  BY <1>9, AroundKeeps
<1>10. CASE UNCHANGED vars
  <2>1. Rows' /\ Books' /\ Numbered' /\ Keyed'
    BY <1>10 DEF vars, tables, accounts, OAuthInv, Rows, Books, Numbered, Keyed, PrimaryKeys,
       Client, Request, Grant, Token, Callback
  <2>2. Spent' /\ Deadlines' /\ SignedIn' /\ UsedUp'
    BY <1>10 DEF vars, tables, accounts, OAuthInv, Spent, Deadlines, SignedIn, UsedUp
  <2> QED BY <2>1, <2>2 DEF OAuthInv
<1> QED
  BY <1>1, <1>2, <1>3, <1>4, <1>5, <1>6, <1>7, <1>8, <1>9, <1>10 DEF Next

(* The invariant of the OAuth server, from which the rest follows: keys    *)
(* are unique and refer to rows that exist, ids are never used again, and  *)
(* a request that led to a connection, or was cut off before, is in a      *)
(* status from which no code is exchanged.                                 *)
THEOREM ServerInvariant == Spec => []OAuthInv
BY InitKeeps, StepKeeps, PTL DEF Spec

(* Types, primary and foreign keys of the tables of internal/db/oauth.go:  *)
(* however the housekeeping, the transactions and the handlers interleave, *)
(* no token is left without its one grant, and no request without client.  *)
THEOREM ServerTypes == Spec => []TypeOK
<1>1. ASSUME OAuthInv PROVE TypeOK
  <2>1. ASSUME NEW t \in tokens PROVE Cardinality({g \in grants : g.id = t.grant}) = 1
    <3>1. {g \in grants : g.id = t.grant} = {GrantOf(t)}
      BY <1>1, TheGrant DEF OAuthInv
    <3> QED BY <3>1, FS_Singleton
  <2> QED BY <1>1, <2>1 DEF OAuthInv, Keyed, TypeOK, ForeignKeys
<1> QED
  BY <1>1, ServerInvariant, PTL

(* A connection that was cut off, by the button of the bot, its client,    *)
(* the detection of a reused token or a logout, stays cut off.             *)
THEOREM CutOffAlways == Spec => []CutOff
<1>1. ASSUME OAuthInv PROVE CutOff
  BY <1>1, TheGrant DEF OAuthInv, UsedUp, CutOff, Valid, Unspent, Refreshable
<1> QED
  BY <1>1, ServerInvariant, PTL

(* One sign-in leads to at most one connection, and a connection has one   *)
(* refresh token that works, whatever request is repeated.                 *)
THEOREM OneConnectionAlways == Spec => []OneConnection
<1>1. ASSUME OAuthInv PROVE OneConnection
  BY <1>1 DEF OAuthInv, Keyed, Spent, OneConnection, Unspent, Refreshable
<1> QED
  BY <1>1, ServerInvariant, PTL

(* However often it is refreshed, a connection has no valid access token   *)
(* once the lifetime of a connection and that of one token have passed.    *)
THEOREM EndsAfterLifetimeAlways == Spec => []EndsAfterLifetime
<1>1. ASSUME OAuthInv PROVE EndsAfterLifetime
  <2> SUFFICES ASSUME NEW t \in tokens, Valid(t)
               PROVE  now < GrantOf(t).created + MaxGrantLifetime + AccessTTL
    BY DEF EndsAfterLifetime
  <2>1. GrantOf(t) \in Grant /\ t \in Token /\ GrantOf(t) \in grants /\ t.grant = GrantOf(t).id
    BY <1>1, TheGrant DEF OAuthInv, Rows
  <2>2. t.until <= GrantOf(t).created + MaxGrantLifetime + AccessTTL /\ t.until > now
    BY <1>1, <2>1 DEF OAuthInv, Deadlines, Valid
  <2>3. t.until \in Nat /\ GrantOf(t).created \in Nat /\ now \in Nat
    BY <1>1, <2>1, Deadline DEF OAuthInv, Token, Grant, Times
  <2> QED BY <2>2, <2>3, Numbers
<1> QED
  BY <1>1, ServerInvariant, PTL

(***************************************************************************)
(* Nothing usable is lost: what NothingUsableLost says of a step, in two   *)
(* halves.                                                                 *)
(***************************************************************************)
TokensKept ==
  \A t \in tokens : Usable(t) =>
    \/ (\E s \in tokens' : s.grant = t.grant /\ s.kind = t.kind /\ Usable(s)')
    \/ GrantOf(t).request \in cut'
OnItsWay(r) == Pending(r) \/ (r.status = "approved" /\ r.coded /\ r.codeUntil > now)
RequestsKept ==
  \A r \in requests : OnItsWay(r) =>
    r.id \in cut' \/ \E s \in requests' : s.id = r.id /\
      (s.status = r.status \/ (\E c \in callbacks : c.request = r.id)
                           \/ \E g \in grants' : g.request = r.id)

(* The client of a connection stays registered. *)
ClientStays(t) ==
  authenticateClient(GrantOf(t).client) => \E c \in clients' : c.id = GrantOf(t).client
LEMMA SameClientsStay ==
  ASSUME UNCHANGED clients, NEW t PROVE ClientStays(t)
BY DEF ClientStays, authenticateClient

LEMMA TokenStays ==
  ASSUME OAuthInv, OAuthInv', now' = now, NEW t \in tokens, t \in tokens', Usable(t),
         GrantOf(t) \in grants', ClientStays(t)
  PROVE  Usable(t)'
<1>1. GrantOf(t)' = GrantOf(t)
  BY TheGrant DEF OAuthInv, Keyed, GrantOf
<1> QED
  BY <1>1 DEF Usable, Valid, Renewable, Unspent, Refreshable, ClientStays, authenticateClient

(* Where tokens and grants stay, or become more. *)
LEMMA GrowingKeepsTokens ==
  ASSUME OAuthInv, OAuthInv', now' = now, tokens \subseteq tokens', grants \subseteq grants',
         UNCHANGED clients
  PROVE  TokensKept
BY TokenStays, SameClientsStay, TheGrant DEF OAuthInv, TokensKept

(* Where requests keep their id and status. *)
LEMMA SameRequestsKept ==
  ASSUME \A r \in requests : \E s \in requests' : s.id = r.id /\ s.status = r.status
  PROVE  RequestsKept
BY DEF RequestsKept

(* The housekeeping keeps what is usable: its grant has an unused token,   *)
(* and its request is not older than the code.                             *)
LEMMA PruneLosesNothing ==
  ASSUME OAuthInv, OAuthInv', now' = now, KeptRequests \subseteq requests',
         KeptClients \subseteq clients', grants' = KeptGrants, tokens' = KeptTokens
  PROVE  TokensKept /\ RequestsKept
<1>now. now \in Nat /\ now # 0
  BY Deadline DEF OAuthInv
<1>1. ASSUME NEW t \in tokens, Usable(t)
      PROVE  t \in KeptTokens /\ GrantOf(t) \in KeptGrants /\ ClientStays(t)
  <2>1. GrantOf(t) \in grants /\ GrantOf(t).id = t.grant
    BY TheGrant DEF OAuthInv
  <2>2. t.used = 0 /\ t.until > now /\ GrantOf(t).revoked = 0
    BY <1>1 DEF OAuthInv, Spent, Usable, Valid, Renewable, Unspent, Refreshable
  <2>3. t.until \in Nat
    BY DEF OAuthInv, Rows, Token, Times
  <2>4. t \in LiveTokens
    BY <1>now, <2>2, <2>3 DEF LiveTokens, Stale
  <2>5. GrantOf(t) \in KeptGrants
    BY <2>1, <2>2, <2>4 DEF KeptGrants, OldGrant
  <2>6. ClientStays(t)
    BY <2>2, <2>5 DEF ClientStays, authenticateClient, KeptClients
  <2> QED BY <2>1, <2>4, <2>5, <2>6 DEF KeptTokens
<1>2. TokensKept
  BY <1>1, TokenStays DEF TokensKept
<1>3. ASSUME NEW r \in requests, OnItsWay(r) PROVE r \in KeptRequests
  <2>1. r.status \in {"pending", "approved"}
    BY <1>3 DEF OnItsWay, Pending
  <2>2. r.until \in Nat /\ r.codeUntil \in Nat
    BY DEF OAuthInv, Rows, Request, Times
  <2>3. r.until > now \/ (r.codeUntil > now /\ r.codeUntil <= r.until + CodeTTL)
    BY <1>3 DEF OnItsWay, Pending, OAuthInv, Deadlines
  <2>4. ~Older(r.until, RequestRetention)
    BY <1>now, <2>2, <2>3, Numbers DEF Older
  <2> QED BY <2>1, <2>4 DEF KeptRequests
<1>4. RequestsKept
  BY <1>3, SameRequestsKept DEF RequestsKept
<1> QED
  BY <1>2, <1>4

(* A step of the sign-in, or of an account, leaves tokens and grants.      *)
LEMMA SetLosesNothing ==
  ASSUME NEW r \in requests, NEW new, Set(r, new), new.id = r.id,
         new.status = r.status \/ (\E c \in callbacks : c.request = r.id)
           \/ \E g \in grants' : g.request = r.id
  PROVE  RequestsKept
BY DEF Set, RequestsKept

LEMMA CallbackLosesNothing ==
  ASSUME OAuthInv, NEW c \in callbacks, telegramCallback(c) PROVE RequestsKept
<1>1. CASE UNCHANGED requests
  BY <1>1, SameRequestsKept
<1>2. ASSUME NEW r \in requests, NEW new, Set(r, new), new.id = r.id, r.id = c.request
      PROVE  RequestsKept
  BY <1>2, SetLosesNothing
<1>3. ASSUME NEW r \in requests, Set(r, [r EXCEPT !.status = "denied"]), r.id = c.request
      PROVE  RequestsKept
  <2>1. [r EXCEPT !.status = "denied"].id = r.id
    BY DEF OAuthInv, Rows, Request
  <2> QED BY <1>2, <1>3, <2>1
<1>4. ASSUME NEW r \in requests, Set(r, [r EXCEPT !.status = "approved", !.user = c.user]),
             r.id = c.request
      PROVE  RequestsKept
  <2>1. [r EXCEPT !.status = "approved", !.user = c.user].id = r.id
    BY DEF OAuthInv, Rows, Request
  <2> QED BY <1>2, <1>4, <2>1
<1>5. ASSUME NEW r \in requests, r.id = c.request,
             Set(r, [r EXCEPT !.coded = TRUE, !.codeUntil = c.at + CodeTTL])
      PROVE  RequestsKept
  <2>1. [r EXCEPT !.coded = TRUE, !.codeUntil = c.at + CodeTTL].id = r.id
    BY DEF OAuthInv, Rows, Request
  <2> QED BY <1>2, <1>5, <2>1
<1>6. CASE Deny(c)
  BY <1>1, <1>3, <1>6 DEF Deny, ById
<1>7. CASE DecideOAuthRequest(c)
  BY <1>4, <1>7 DEF DecideOAuthRequest, ById
<1>8. CASE IssueOAuthCode(c)
  BY <1>5, <1>8 DEF IssueOAuthCode, ById
<1>9. CASE OAuthAccountConnected(c) \/ CallbackEnds(c) \/ \E u \in Users : userID(c, u)
  BY <1>1, <1>9 DEF OAuthAccountConnected, CallbackEnds, userID
<1> QED
  BY <1>6, <1>7, <1>8, <1>9 DEF telegramCallback

LEMMA RequestStepLosesNothing ==
  ASSUME OAuthInv, NEW r \in requests,
         telegramStart(r) \/ FinishOAuthTelegramLogin(r) \/ exchangeCode(r)
  PROVE  RequestsKept
<1>0. r \in Request
  BY DEF OAuthInv, Rows
<1>1. CASE telegramStart(r)
  <2>1. PICK n : Set(r, [r EXCEPT !.login = n])
    BY <1>1 DEF telegramStart, StartOAuthTelegramLogin
  <2>2. /\ [r EXCEPT !.login = n].id = r.id /\ [r EXCEPT !.login = n].status = r.status
    BY <1>0 DEF Request
  <2> QED BY <2>1, <2>2, SetLosesNothing
<1>2. CASE FinishOAuthTelegramLogin(r)
  <2>1. Set(r, [r EXCEPT !.login = 0])
    BY <1>2 DEF FinishOAuthTelegramLogin
  <2>2. /\ [r EXCEPT !.login = 0].id = r.id /\ [r EXCEPT !.login = 0].status = r.status
    BY <1>0 DEF Request
  <2> QED BY <2>1, <2>2, SetLosesNothing
<1>3. CASE exchangeCode(r)
  <2> DEFINE g == [id |-> made.pairs + 1, request |-> r.id, client |-> r.client,
                   user |-> r.user, created |-> now, revoked |-> 0]
  <2>a. g \in grants' /\ g.request = r.id
    BY <1>3 DEF exchangeCode, ExchangeOAuthCode
  <2> HIDE DEF g
  <2>1. Set(r, [r EXCEPT !.status = "exchanged"]) /\ \E h \in grants' : h.request = r.id
    BY <1>3, <2>a DEF exchangeCode, ExchangeOAuthCode
  <2>2. [r EXCEPT !.status = "exchanged"].id = r.id
    BY <1>0 DEF Request
  <2> QED BY <2>1, <2>2, SetLosesNothing
<1> QED
  BY <1>1, <1>2, <1>3

(* The refresh token that is spent is followed by a new one, and only      *)
(* expired tokens of the connection are deleted.                           *)
LEMMA RotateLosesNothing ==
  ASSUME OAuthInv, OAuthInv', now' = now, NEW t \in tokens, RefreshOAuthTokens(t),
         made.pairs < MaxPairs, UNCHANGED <<clients, grants>>
  PROVE  TokensKept
<1>1. /\ t.kind = "refresh" /\ t.used = 0 /\ GrantOf(t).revoked = 0
      /\ tokens' = {o \in (tokens \ {t}) \cup {Mark(t)} : o.grant # t.grant \/ o.until > now}
                     \cup newTokenPair(t.grant)
  BY DEF RefreshOAuthTokens, Refreshable
<1>2. GrantOf(t) \in grants /\ t.grant \in Pairs /\ now \in Nat
  BY TheGrant, Deadline DEF OAuthInv, Rows, Token
<1>3. PICK n \in newTokenPair(t.grant) : n.kind = "refresh"
  BY <1>1, <1>2, NewPair
<1>4. n \in tokens' /\ n.grant = t.grant /\ n.used = 0 /\ n.until = now + RefreshTTL
  BY <1>1, <1>2, <1>3, NewPair
<1>5. GrantOf(n)' = GrantOf(t)
  BY <1>4, TheGrant DEF OAuthInv, GrantOf
<1>6. Usable(t) => Usable(n)'
  BY <1>1, <1>2, <1>3, <1>4, <1>5, Numbers
     DEF Usable, Valid, Renewable, Unspent, Refreshable, authenticateClient
<1>7. ASSUME NEW o \in tokens, Usable(o), o # t PROVE o \in tokens' /\ GrantOf(o) \in grants'
  BY <1>1, <1>7, TheGrant DEF OAuthInv, Usable, Valid, Renewable, Unspent
<1> QED
  BY <1>1, <1>3, <1>4, <1>6, <1>7, TokenStays, SameClientsStay DEF TokensKept

(* A revocation ends the connections it counts as cut off, and no other.   *)
LEMMA RevokeTxLosesNothing ==
  ASSUME OAuthInv, OAuthInv', now' = now, NEW g \in grants, revokeOAuthGrantTx(g),
         UNCHANGED clients
  PROVE  TokensKept
<1>1. ASSUME NEW t \in tokens, Usable(t), GrantOf(t) # g
      PROVE  t \in tokens' /\ GrantOf(t) \in grants'
  BY <1>1, TheGrant DEF OAuthInv, Keyed, revokeOAuthGrantTx
<1>2. g.request \in cut'
  BY DEF revokeOAuthGrantTx
<1> QED
  BY <1>1, <1>2, TokenStays, SameClientsStay DEF TokensKept

LEMMA RevokeForUserLosesNothing ==
  ASSUME OAuthInv, OAuthInv', NEW u \in Users, RevokeOAuthGrantsForUser(u)
  PROVE  TokensKept /\ RequestsKept
<1>1. ASSUME NEW t \in tokens, Usable(t), GrantOf(t).user # u
      PROVE  t \in tokens' /\ GrantOf(t) \in grants'
  BY <1>1, TheGrant DEF OAuthInv, RevokeOAuthGrantsForUser
<1>2. ASSUME NEW t \in tokens, GrantOf(t).user = u PROVE GrantOf(t).request \in cut'
  BY <1>2, TheGrant DEF OAuthInv, RevokeOAuthGrantsForUser
<1>3. now' = now /\ UNCHANGED clients
  BY DEF RevokeOAuthGrantsForUser
<1>4. TokensKept
  BY <1>1, <1>2, <1>3, TokenStays, SameClientsStay DEF TokensKept
<1>5. ASSUME NEW r \in requests, r.user = u, r.status = "approved" PROVE r.id \in cut'
  BY <1>5 DEF RevokeOAuthGrantsForUser
<1>6. ASSUME NEW r \in requests, ~(r.user = u /\ r.status = "approved") PROVE r \in requests'
  BY <1>6 DEF RevokeOAuthGrantsForUser, WithoutApprovals
<1> QED
  BY <1>4, <1>5, <1>6 DEF RequestsKept

LEMMA StepLosesNothing ==
  ASSUME OAuthInv, OAuthInv', Next, now' = now PROVE TokensKept /\ RequestsKept
<1>now. now \in Nat
  BY Deadline DEF OAuthInv
<1>1. CASE register \/ \E c \in clients : authorize(c)
  BY <1>1, PruneLosesNothing DEF register, CreateOAuthClient, authorize, CreateOAuthRequest
<1>2. CASE \E r \in requests : telegramStart(r) \/ FinishOAuthTelegramLogin(r) \/ exchangeCode(r)
  <2>1. tokens \subseteq tokens' /\ grants \subseteq grants' /\ UNCHANGED clients
    BY <1>2 DEF telegramStart, FinishOAuthTelegramLogin, SignInOnly, exchangeCode,
       ExchangeOAuthCode, TokenOnly
  <2> QED BY <1>2, <2>1, GrowingKeepsTokens, RequestStepLosesNothing
<1>3. CASE \E c \in callbacks : telegramCallback(c)
  <2>1. tokens' = tokens /\ grants' = grants /\ clients' = clients
    BY <1>3 DEF telegramCallback, Deny, userID, OAuthAccountConnected, DecideOAuthRequest,
       IssueOAuthCode, CallbackEnds, SignInOnly
  <2> QED BY <1>3, <2>1, GrowingKeepsTokens, CallbackLosesNothing
<1>4. CASE \E t \in tokens : refresh(t)
  <2>1. PICK t \in tokens : refresh(t)
    BY <1>4
  <2>2. RequestsKept /\ GrantOf(t) \in grants
    BY <2>1, SameRequestsKept, TheGrant DEF refresh, OAuthInv
  <2>3. TokensKept
    BY <2>1, <2>2, RotateLosesNothing, RevokeTxLosesNothing DEF refresh, TokenReuse, TokenOnly
  <2> QED BY <2>2, <2>3
<1>5. CASE \E t \in tokens : revoke(t)
  <2>1. PICK t \in tokens : revoke(t)
    BY <1>5
  <2>2. RequestsKept /\ GrantOf(t) \in grants
    BY <2>1, SameRequestsKept, TheGrant DEF revoke, OAuthInv
  <2> QED BY <2>1, <2>2, RevokeTxLosesNothing DEF revoke, RevokeOAuthToken, TokenOnly
<1>6. CASE \E g \in grants : handleOAuthRevokeCallback(g)
  BY <1>6, SameRequestsKept, RevokeTxLosesNothing
     DEF handleOAuthRevokeCallback, RevokeOAuthGrant, TokenOnly
<1>7. CASE \E u \in Users : RevokeOAuthGrantsForUser(u)
  BY <1>7, RevokeForUserLosesNothing
<1>8. CASE Tick
  BY <1>8, <1>now DEF Tick
<1>9. CASE \E u \in Users : DeleteTelegramSession(u) \/ LogoutFails(u) \/ SaveTelegramSession(u)
  <2>1. UNCHANGED <<clients, requests, grants, tokens>>
    BY <1>9 DEF DeleteTelegramSession, LogoutFails, SaveTelegramSession, tables
  <2> QED BY <2>1, GrowingKeepsTokens, SameRequestsKept
<1> QED
  BY <1>1, <1>2, <1>3, <1>4, <1>5, <1>6, <1>7, <1>8, <1>9 DEF Next

(* Nobody loses a connection to the housekeeping of others: in a step that *)
(* takes no time, what a client could use it still can, except what that   *)
(* step spends or cuts off; nor does it lose a code or a sign-in.          *)
THEOREM NothingUsableLostHolds == Spec => NothingUsableLost
<1> DEFINE Kept ==
      now' = now =>
        /\ \A t \in tokens : Usable(t) =>
             \/ (\E s \in tokens' : s.grant = t.grant /\ s.kind = t.kind /\ Usable(s)')
             \/ GrantOf(t).request \in cut'
        /\ \A r \in requests :
             Pending(r) \/ (r.status = "approved" /\ r.coded /\ r.codeUntil > now)
               => r.id \in cut' \/ \E s \in requests' : s.id = r.id /\
                    (s.status = r.status \/ (\E c \in callbacks : c.request = r.id)
                                         \/ \E g \in grants' : g.request = r.id)
<1>1. OAuthInv /\ OAuthInv' /\ [Next]_vars => [Kept]_vars
  <2> SUFFICES ASSUME OAuthInv, OAuthInv', Next PROVE Kept
    OBVIOUS
  <2>1. ASSUME now' = now PROVE TokensKept /\ RequestsKept
    BY <2>1, StepLosesNothing
  <2> QED BY <2>1, Zenon DEF TokensKept, RequestsKept, OnItsWay
<1>2. Spec => [][Kept]_vars
  <2> HIDE DEF Kept
  <2> QED BY <1>1, ServerInvariant, PTL DEF Spec
<1> QED
  BY <1>2 DEF NothingUsableLost

================================================================================
