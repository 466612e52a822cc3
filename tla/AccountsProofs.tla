---------------------------- MODULE AccountsProofs -----------------------------
(***************************************************************************)
(* What Accounts.tla states of the running accounts and of new logins,     *)
(* proved for every number of owners, runtimes, sign-ins and faults.       *)
(*                                                                         *)
(* Two facts carry the argument: whoever takes a runtime out of            *)
(* Manager.accounts holds it until it is cancelled or done, and a session  *)
(* that nobody has written over has at most an account that has not        *)
(* connected yet, so that none can learn of it that it was rejected.       *)
(***************************************************************************)
EXTENDS Accounts, SequenceTheorems, TLAPS

(* The file of an older version: what its phases rely on. *)
LegacyKnown ==
  /\ legacy # None => legacy \in Keys
  /\ phase \in {"save", "remove"} => legacy # None
(* No account runs before Run: Manager.start refuses. *)
BeforeRun == phase # "up" => \A r \in Runtimes : runtime[r].pc = "done"
(* Only a call that has detached an account holds one. *)
Holding ==
  /\ \A o \in Owners : login[o].pc \notin {"detached", "waiting"} => login[o].old = None
  /\ (logout.pc \in {"cancel", "wait"}) <=> (logout.old # None)
WithKey ==
  /\ \A o \in Owners : login[o].pc = "signed" => login[o].key # None
  /\ \A r \in Runtimes : runtime[r].pc = "loaded" => runtime[r].key # None
(* StoreSession writes an account's own session before it is connected. *)
FreshNotConnected ==
  \A o \in fresh : current[o] # None => runtime[current[o]].pc \in {"start", "loaded"}

AccountsInv ==
  /\ TypeOK /\ LegacyKnown /\ BeforeRun /\ Holding /\ WithKey
  /\ NoLostRuntime /\ FreshNotConnected

LEMMA Numbers ==
  /\ MaxKeys \in Nat /\ MaxKeys # 0 /\ MaxFaults \in Nat
  /\ None \notin Runtimes /\ None \notin 1..MaxKeys /\ NoAuth \notin 1..MaxKeys /\ NoAuth # None
BY AccountsAssumption

LEMMA Faults ==
  ASSUME TypeOK, Fault \/ NoFault PROVE faults' \in 0..MaxFaults
BY Numbers DEF TypeOK, Fault, NoFault

LEMMA Records ==
  /\ NoLogin \in LoginCall /\ NoLogin.pc = "idle" /\ NoLogin.old = None
  /\ \A o \in Owners : /\ NoLogout(o) \in LogoutCall /\ NoLogout(o).pc = "idle"
                       /\ NoLogout(o).old = None
                       /\ Ended(o) \in Runtime /\ Ended(o).pc = "done" /\ Ended(o).owner = o
BY DEF NoLogin, LoginCall, NoLogout, LogoutCall, Ended, Runtime

(* The account in Manager.accounts is the owner's, and is of one owner.    *)
LEMMA CurrentIsOwners ==
  ASSUME TypeOK, NEW o \in Owners, NEW r \in Runtimes, current[o] = r
  PROVE  runtime[r].owner = o /\ runtime[r].pc # "done" /\ current[o] # None
BY Numbers DEF TypeOK

(***************************************************************************)
(* The goroutine of one account.                                           *)
(***************************************************************************)
(* A step of account r that leaves it where it is held. *)
LEMMA AccountMoves ==
  ASSUME AccountsInv, NEW r \in Runtimes, NEW new \in Runtime,
         runtime' = [runtime EXCEPT ![r] = new],
         new.owner = runtime[r].owner, new.cancelled = runtime[r].cancelled,
         runtime[r].pc # "done", new.pc # "done",
         runtime[r].pc \in {"ending", "revoked"} => new.pc \in {"ending", "revoked"},
         new.pc = "loaded" => new.key # None,
         current[new.owner] = r /\ new.owner \in fresh' => new.pc \in {"start", "loaded"},
         fresh' \subseteq fresh, stored' \in [Owners -> (1..MaxKeys) \cup {None, NoAuth}],
         faults' \in 0..MaxFaults, UNCHANGED current, Elsewhere
  PROVE  AccountsInv'
<1>1. /\ runtime' \in [Runtimes -> Runtime] /\ runtime'[r] = new
      /\ \A q \in Runtimes \ {r} : runtime'[q] = runtime[q]
  BY DEF AccountsInv, TypeOK
<1>2. TypeOK'
  <2>1. \A o \in Owners : current'[o] # None =>
          runtime'[current'[o]].owner = o /\ runtime'[current'[o]].pc # "done"
    BY <1>1 DEF AccountsInv, TypeOK
  <2> QED BY <1>1, <2>1 DEF AccountsInv, TypeOK, Elsewhere, boot, Keys
<1>3. LegacyKnown' /\ Holding'
  BY DEF AccountsInv, LegacyKnown, Holding, Elsewhere, boot, Keys
<1>4. BeforeRun'
  BY DEF AccountsInv, BeforeRun, Elsewhere, boot
<1>5. WithKey'
  BY <1>1 DEF AccountsInv, WithKey, Elsewhere
<1>6. NoLostRuntime'
  BY <1>1 DEF AccountsInv, NoLostRuntime, At, Elsewhere
<1>7. FreshNotConnected'
  <2> SUFFICES ASSUME NEW o \in fresh', current[o] # None
               PROVE  runtime'[current[o]].pc \in {"start", "loaded"}
    BY DEF FreshNotConnected
  <2>1. o \in Owners /\ current[o] \in Runtimes /\ o \in fresh
    BY DEF AccountsInv, TypeOK
  <2>2. CASE current[o] = r
    <3>1. new.owner = o
      BY <2>1, <2>2, CurrentIsOwners DEF AccountsInv
    <3> QED BY <1>1, <2>2, <3>1
  <2>3. CASE current[o] # r
    BY <1>1, <2>1, <2>3 DEF AccountsInv, FreshNotConnected
  <2> QED BY <2>2, <2>3
<1> QED
  BY <1>2, <1>3, <1>4, <1>5, <1>6, <1>7 DEF AccountsInv

LEMMA LoadKeeps == ASSUME AccountsInv, NEW r \in Runtimes, LoadSession(r) PROVE AccountsInv'
<1> DEFINE k == IF stored[runtime[r].owner] = None THEN NoAuth ELSE stored[runtime[r].owner]
           new == [runtime[r] EXCEPT !.pc = "loaded", !.key = k]
<1>1. runtime[r] \in Runtime /\ runtime[r].owner \in Owners /\ runtime[r].pc = "start"
  BY DEF AccountsInv, TypeOK, Runtime, LoadSession, At
<1>2. k \in (1..MaxKeys) \cup {None, NoAuth} /\ k # None
  BY <1>1, Numbers DEF AccountsInv, TypeOK
<1>3. runtime' = [runtime EXCEPT ![r] = new]
  BY DEF LoadSession
<1> HIDE DEF k
<1>4. /\ new \in Runtime /\ new.owner = runtime[r].owner /\ new.pc = "loaded"
      /\ new.cancelled = runtime[r].cancelled /\ new.key # None
  BY <1>1, <1>2 DEF Runtime
<1> HIDE DEF new
<1>5. /\ fresh' \subseteq fresh /\ stored' \in [Owners -> (1..MaxKeys) \cup {None, NoAuth}]
      /\ faults' \in 0..MaxFaults /\ UNCHANGED current /\ Elsewhere
  BY DEF LoadSession, AccountsInv, TypeOK
<1> QED
  BY <1>1, <1>3, <1>4, <1>5, AccountMoves

(* The steps that change where the account is, and nothing else of it. *)
LEMMA PcOnly ==
  ASSUME TypeOK, NEW r \in Runtimes,
         NEW pc \in {"start", "loaded", "connected", "ready", "revoked", "ending"}, Step(r, pc)
  PROVE  LET new == [runtime[r] EXCEPT !.pc = pc]
         IN  /\ runtime' = [runtime EXCEPT ![r] = new] /\ new \in Runtime /\ new.pc = pc
             /\ new.owner = runtime[r].owner /\ new.cancelled = runtime[r].cancelled
             /\ new.key = runtime[r].key /\ runtime[r].owner \in Owners
<1>1. runtime[r] \in Runtime
  BY DEF TypeOK
<1> QED
  BY <1>1 DEF Step, Runtime

LEMMA StoreKeeps == ASSUME AccountsInv, NEW r \in Runtimes, StoreSession(r) PROVE AccountsInv'
<1>1. PICK new \in Runtime :
        /\ runtime' = [runtime EXCEPT ![r] = new] /\ new.pc = "connected"
        /\ new.owner = runtime[r].owner /\ new.cancelled = runtime[r].cancelled
  BY PcOnly DEF AccountsInv, StoreSession
<1>2. runtime[r] \in Runtime /\ runtime[r].pc = "loaded"
  BY DEF AccountsInv, TypeOK, StoreSession, At
<1>3. /\ fresh' = fresh \ {runtime[r].owner} /\ faults' \in 0..MaxFaults
      /\ UNCHANGED current /\ Elsewhere
      /\ stored' \in [Owners -> (1..MaxKeys) \cup {None, NoAuth}]
  BY <1>2 DEF StoreSession, AccountsInv, TypeOK, Runtime
<1> QED
  BY <1>1, <1>2, <1>3, AccountMoves

LEMMA NotFresh ==
  ASSUME AccountsInv, NEW r \in Runtimes, current[runtime[r].owner] = r,
         runtime[r].pc \notin {"start", "loaded"}
  PROVE  runtime[r].owner \notin fresh
BY Numbers DEF AccountsInv, FreshNotConnected

LEMMA StatusKeeps == ASSUME AccountsInv, NEW r \in Runtimes, CheckStatus(r) PROVE AccountsInv'
<1>0. PICK pc \in {"ready", "revoked"} : Step(r, pc)
  BY DEF CheckStatus
<1>1. PICK new \in Runtime :
        /\ runtime' = [runtime EXCEPT ![r] = new] /\ new.pc \in {"ready", "revoked"}
        /\ new.owner = runtime[r].owner /\ new.cancelled = runtime[r].cancelled
  BY <1>0, PcOnly DEF AccountsInv
<1>2. /\ runtime[r].pc = "connected" /\ UNCHANGED <<current, fresh>> /\ Elsewhere
      /\ fresh' \subseteq fresh /\ faults' \in 0..MaxFaults
      /\ stored' \in [Owners -> (1..MaxKeys) \cup {None, NoAuth}]
  BY DEF CheckStatus, At, AccountsInv, TypeOK
<1>3. ~(current[new.owner] = r /\ new.owner \in fresh')
  BY <1>1, <1>2, NotFresh
<1> QED
  BY <1>1, <1>2, <1>3, AccountMoves

LEMMA DisconnectKeeps == ASSUME AccountsInv, NEW r \in Runtimes, Disconnect(r) PROVE AccountsInv'
<1>1. PICK new \in Runtime :
        /\ runtime' = [runtime EXCEPT ![r] = new] /\ new.pc = "start"
        /\ new.owner = runtime[r].owner /\ new.cancelled = runtime[r].cancelled
  BY PcOnly DEF AccountsInv, Disconnect
<1>2. /\ runtime[r].pc \in {"loaded", "connected", "ready"} /\ UNCHANGED <<current, fresh>>
      /\ Elsewhere /\ fresh' \subseteq fresh
      /\ stored' \in [Owners -> (1..MaxKeys) \cup {None, NoAuth}]
  BY DEF Disconnect, At, AccountsInv, TypeOK
<1>3. faults' \in 0..MaxFaults
  BY Faults DEF AccountsInv, Disconnect
<1> QED
  BY <1>1, <1>2, <1>3, AccountMoves DEF Disconnect, At, AccountsInv, TypeOK

LEMMA DiscardKeeps ==
  ASSUME AccountsInv, NEW r \in Runtimes, discardRevokedSession(r) PROVE AccountsInv'
<1>1. PICK new \in Runtime :
        /\ runtime' = [runtime EXCEPT ![r] = new] /\ new.pc = "ending"
        /\ new.owner = runtime[r].owner /\ new.cancelled = runtime[r].cancelled
  BY PcOnly DEF AccountsInv, discardRevokedSession
<1>2. /\ runtime[r].pc = "revoked" /\ UNCHANGED <<current, fresh>> /\ Elsewhere
      /\ fresh' \subseteq fresh
      /\ stored' \in [Owners -> (1..MaxKeys) \cup {None, NoAuth}]
  BY DEF discardRevokedSession, At, AccountsInv, TypeOK
<1>3. ~(current[new.owner] = r /\ new.owner \in fresh')
  BY <1>1, <1>2, NotFresh
<1>4. faults' \in 0..MaxFaults
  BY Faults DEF AccountsInv, discardRevokedSession
<1> QED
  BY <1>1, <1>2, <1>3, <1>4, AccountMoves

LEMMA EndKeeps == ASSUME AccountsInv, NEW r \in Runtimes, EndAccount(r) PROVE AccountsInv'
<1>1. runtime[r].owner \in Owners
  BY DEF AccountsInv, TypeOK, Runtime
<1>2. /\ runtime' \in [Runtimes -> Runtime] /\ runtime'[r].pc = "done"
      /\ \A q \in Runtimes \ {r} : runtime'[q] = runtime[q]
  BY <1>1, Records DEF AccountsInv, TypeOK, EndAccount
<1>3. /\ current' \in [Owners -> Runtimes \cup {None}]
      /\ \A o \in Owners : current'[o] = IF current[o] = r THEN None ELSE current[o]
  BY DEF AccountsInv, TypeOK, EndAccount, Leave
<1>4. UNCHANGED <<stored, faults, fresh>> /\ Elsewhere
  BY DEF EndAccount
<1>5. TypeOK'
  <2>1. \A o \in Owners : current'[o] # None =>
          runtime'[current'[o]].owner = o /\ runtime'[current'[o]].pc # "done"
    BY <1>2, <1>3 DEF AccountsInv, TypeOK
  <2> QED BY <1>2, <1>3, <1>4, <2>1 DEF AccountsInv, TypeOK, Elsewhere, boot, Keys
<1>6. LegacyKnown' /\ Holding'
  BY <1>4 DEF AccountsInv, LegacyKnown, Holding, Elsewhere, boot, Keys
<1>7. BeforeRun' /\ WithKey'
  BY <1>2, <1>4 DEF AccountsInv, BeforeRun, WithKey, Elsewhere, boot
<1>8. NoLostRuntime'
  <2>1. \A q \in Runtimes : runtime[q].owner \in Owners
    BY DEF AccountsInv, TypeOK, Runtime
  <2> QED BY <2>1, <1>2, <1>3, <1>4 DEF AccountsInv, NoLostRuntime, At, Elsewhere
<1>9. FreshNotConnected'
  <2>1. fresh \subseteq Owners
    BY DEF AccountsInv, TypeOK
  <2> QED BY <2>1, <1>2, <1>3, <1>4 DEF AccountsInv, TypeOK, FreshNotConnected
<1> QED
  BY <1>5, <1>6, <1>7, <1>8, <1>9 DEF AccountsInv

(***************************************************************************)
(* Manager.start, as a login and Run call it.                              *)
(***************************************************************************)
LEMMA StartKeeps ==
  ASSUME AccountsInv, NEW o \in Owners, start(o), login' \in [Owners -> LoginCall],
         \A p \in Owners : \/ login'[p] = login[p]
                           \/ /\ login'[p].pc = "idle" /\ login'[p].old = None
                              /\ login[p].old = None \/ runtime[login[p].old].pc = "done",
         toStart' \subseteq Owners,
         UNCHANGED <<stored, tokens, legacy, keyOf, alive, phase, logout, unfinished, fresh, faults>>
  PROVE  AccountsInv'
<1>1. LegacyKnown' /\ Holding'
  BY DEF AccountsInv, LegacyKnown, Holding, Keys
<1>2. \A p \in Owners : login'[p].pc = "signed" => login'[p].key # None
  BY DEF AccountsInv, WithKey
<1>3. CASE ~MayStart(o)
  <2>1. UNCHANGED <<current, runtime>>
    BY <1>3 DEF start
  <2>2. TypeOK' /\ FreshNotConnected' /\ BeforeRun' /\ WithKey'
    BY <2>1, <1>2 DEF AccountsInv, TypeOK, FreshNotConnected, BeforeRun, WithKey, Keys
  <2>3. NoLostRuntime'
    BY <2>1 DEF AccountsInv, NoLostRuntime, At
  <2> QED BY <1>1, <2>2, <2>3 DEF AccountsInv
<1>4. CASE MayStart(o)
  <2> DEFINE new == [owner |-> o, pc |-> "start", key |-> None, cancelled |-> FALSE]
  <2>1. PICK r \in Runtimes : /\ runtime[r].pc = "done"
                              /\ current' = [current EXCEPT ![o] = r]
                              /\ runtime' = [runtime EXCEPT ![r] = new]
    BY <1>4 DEF start, Idle
  <2>2. phase = "up" /\ current[o] = None /\ new \in Runtime
    BY <1>4 DEF MayStart, Runtime
  <2>3. new.owner = o /\ new.pc = "start" /\ ~new.cancelled
    OBVIOUS
  <2> HIDE DEF new
  <2>4. /\ runtime' \in [Runtimes -> Runtime] /\ runtime'[r] = new
        /\ \A q \in Runtimes \ {r} : runtime'[q] = runtime[q]
        /\ current' \in [Owners -> Runtimes \cup {None}] /\ current'[o] = r
        /\ \A p \in Owners \ {o} : current'[p] = current[p] /\ current[p] # r
    BY <2>1, <2>2, Numbers DEF AccountsInv, TypeOK
  <2>5. \A p \in Owners : current'[p] # None =>
          runtime'[current'[p]].owner = p /\ runtime'[current'[p]].pc # "done"
    BY <2>3, <2>4 DEF AccountsInv, TypeOK
  <2>6. TypeOK'
    BY <2>4, <2>5 DEF AccountsInv, TypeOK, Keys
  <2>7. BeforeRun' /\ WithKey'
    BY <1>2, <2>2, <2>3, <2>4 DEF AccountsInv, BeforeRun, WithKey
  <2>8. FreshNotConnected'
    <3>1. fresh \subseteq Owners
      BY DEF AccountsInv, TypeOK
    <3> QED BY <3>1, <2>3, <2>4 DEF AccountsInv, TypeOK, FreshNotConnected
  <2>9. NoLostRuntime'
    <3>1. ASSUME NEW q \in Runtimes \ {r}, ~At(q, {"done", "ending", "revoked"}),
                 ~runtime[q].cancelled
          PROVE  \/ current'[runtime[q].owner] = q \/ logout'.old = q
                 \/ \E p \in Owners : login'[p].old = q
      <4>1. runtime[q].owner \in Owners
        BY DEF AccountsInv, TypeOK, Runtime
      <4>2. CASE current[runtime[q].owner] = q
        BY <4>1, <4>2, <2>2, <2>4, Numbers
      <4>3. CASE logout.old = q
        BY <4>3
      <4>4. CASE \E p \in Owners : login[p].old = q
        BY <4>4, <3>1, Numbers DEF At
      <4> QED BY <3>1, <4>2, <4>3, <4>4 DEF AccountsInv, NoLostRuntime
    <3> QED BY <3>1, <2>3, <2>4 DEF NoLostRuntime, At
  <2> QED BY <1>1, <2>6, <2>7, <2>8, <2>9 DEF AccountsInv
<1> QED
  BY <1>3, <1>4

LEMMA StartAgainKeeps == ASSUME AccountsInv, NEW o \in Owners, StartAgain(o) PROVE AccountsInv'
<1>1. /\ start(o) /\ login' = [login EXCEPT ![o] = NoLogin]
      /\ login[o].old = None \/ runtime[login[o].old].pc = "done"
  BY DEF StartAgain
<1>2. login' \in [Owners -> LoginCall]
  BY <1>1, Records DEF AccountsInv, TypeOK
<1>3. \A p \in Owners : \/ login'[p] = login[p]
                        \/ /\ login'[p].pc = "idle" /\ login'[p].old = None
                           /\ login[p].old = None \/ runtime[login[p].old].pc = "done"
  BY <1>1, Records DEF AccountsInv, TypeOK
<1>4. /\ UNCHANGED <<stored, tokens, legacy, keyOf, alive, phase, logout, unfinished, fresh, faults>>
      /\ toStart' \subseteq Owners
  BY DEF StartAgain, LoginOnly, telegram, boot, AccountsInv, TypeOK
<1> QED
  BY <1>1, <1>2, <1>3, <1>4, StartKeeps

LEMMA RunStartsKeeps == ASSUME AccountsInv, NEW o \in Owners, RunStarts(o) PROVE AccountsInv'
<1>1. /\ UNCHANGED <<stored, tokens, legacy, keyOf, alive, phase, logout, unfinished, fresh, faults>>
      /\ toStart' \subseteq Owners /\ start(o) /\ login' = login
      /\ login' \in [Owners -> LoginCall]
  BY DEF RunStarts, BootOnly, telegram, database, AccountsInv, TypeOK
<1> QED
  BY <1>1, StartKeeps

(***************************************************************************)
(* Manager.Login.                                                          *)
(***************************************************************************)
(* A step of a login that holds no account, before it stores its session. *)
LEMMA LoginKeeps ==
  ASSUME AccountsInv, NEW o \in Owners, NEW new \in LoginCall,
         login[o].pc \notin {"detached", "waiting"}, login' = [login EXCEPT ![o] = new],
         new.pc \notin {"detached", "waiting"}, new.old = None,
         new.pc = "signed" => new.key # None,
         keyOf' \in Seq(Owners), Len(keyOf') <= MaxKeys, Len(keyOf') >= Len(keyOf),
         alive' \subseteq 1..Len(keyOf'), faults' \in 0..MaxFaults,
         UNCHANGED <<stored, current, runtime, fresh>>, LoginOnly
  PROVE  AccountsInv'
<1>1. /\ login' \in [Owners -> LoginCall] /\ login'[o] = new
      /\ \A p \in Owners \ {o} : login'[p] = login[p]
  BY DEF AccountsInv, TypeOK
<1>2. TypeOK'
  BY <1>1 DEF AccountsInv, TypeOK, LoginOnly, boot, Keys
<1>3. LegacyKnown'
  <2>1. Len(keyOf) \in Nat /\ Len(keyOf') \in Nat
    BY DEF AccountsInv, TypeOK
  <2> QED BY <2>1 DEF AccountsInv, LegacyKnown, LoginOnly, boot, Keys
<1>4. BeforeRun' /\ FreshNotConnected'
  BY DEF AccountsInv, BeforeRun, FreshNotConnected, LoginOnly, boot
<1>5. Holding' /\ WithKey'
  BY <1>1 DEF AccountsInv, Holding, WithKey, LoginOnly
<1>6. NoLostRuntime'
  <2>1. \A q \in Runtimes : login[o].old # q
    BY Numbers DEF AccountsInv, Holding
  <2> QED BY <1>1, <2>1 DEF AccountsInv, NoLostRuntime, At, LoginOnly
<1> QED
  BY <1>2, <1>3, <1>4, <1>5, <1>6 DEF AccountsInv

(* What the steps of LoginKeeps leave of Telegram. *)
LEMMA TelegramSame ==
  ASSUME AccountsInv, UNCHANGED telegram
  PROVE  /\ keyOf' \in Seq(Owners) /\ Len(keyOf') <= MaxKeys /\ Len(keyOf') >= Len(keyOf)
         /\ alive' \subseteq 1..Len(keyOf')
BY DEF AccountsInv, TypeOK, telegram, Keys

LEMMA BeginKeeps == ASSUME AccountsInv, NEW o \in Owners, beginLogin(o) PROVE AccountsInv'
<1> DEFINE new == [login[o] EXCEPT !.pc = "prompting"]
<1>1. login[o] \in LoginCall /\ login[o].pc = "idle" /\ login[o].old = None
  BY DEF AccountsInv, TypeOK, Holding, beginLogin, MayLogin, LoginAt
<1>2. new \in LoginCall /\ new.pc = "prompting" /\ new.old = None
  BY <1>1 DEF LoginCall
<1>3. login' = [login EXCEPT ![o] = new]
  BY DEF beginLogin
<1>4. /\ UNCHANGED <<stored, current, runtime, fresh, telegram>> /\ LoginOnly
      /\ faults' \in 0..MaxFaults
  BY DEF beginLogin, AccountsInv, TypeOK
<1> HIDE DEF new
<1> QED
  BY <1>1, <1>2, <1>3, <1>4, TelegramSame, LoginKeeps

LEMMA LoginEndsKeeps ==
  ASSUME AccountsInv, NEW o \in Owners, LoginFails(o) \/ SaveFails(o) PROVE AccountsInv'
<1>1. /\ login[o].pc \in {"prompting", "signed"} /\ login' = [login EXCEPT ![o] = NoLogin]
      /\ UNCHANGED <<stored, current, runtime, fresh, telegram>> /\ LoginOnly
  BY DEF LoginFails, SaveFails, LoginAt
<1>2. faults' \in 0..MaxFaults
  BY Faults DEF LoginFails, SaveFails, AccountsInv, NoFault
<1> QED
  BY <1>1, <1>2, Records, TelegramSame, LoginKeeps

LEMMA SignInKeeps == ASSUME AccountsInv, NEW o \in Owners, SignIn(o) PROVE AccountsInv'
<1> DEFINE k == Len(keyOf')
           new == [login[o] EXCEPT !.pc = "signed", !.key = k]
<1>1. login[o] \in LoginCall /\ login[o].pc = "prompting" /\ login[o].old = None
  BY DEF AccountsInv, TypeOK, Holding, SignIn, LoginAt
<1>2. /\ keyOf' \in Seq(Owners) /\ k = Len(keyOf) + 1 /\ k \in 1..MaxKeys
      /\ k <= MaxKeys /\ k >= Len(keyOf) /\ Len(keyOf) \in Nat
  BY Numbers DEF AccountsInv, TypeOK, SignIn
<1>3. alive' \subseteq 1..k
  BY <1>2 DEF AccountsInv, TypeOK, SignIn, Keys
<1>4. login' = [login EXCEPT ![o] = new]
  BY DEF SignIn
<1>5. /\ UNCHANGED <<stored, current, runtime, fresh>> /\ LoginOnly /\ faults' \in 0..MaxFaults
  BY DEF SignIn, AccountsInv, TypeOK
<1>6. Len(keyOf') <= MaxKeys /\ Len(keyOf') >= Len(keyOf) /\ alive' \subseteq 1..Len(keyOf')
  BY <1>2, <1>3
<1> HIDE DEF k
<1>7. new \in LoginCall /\ new.pc = "signed" /\ new.old = None /\ new.key # None
  BY <1>1, <1>2, Numbers DEF LoginCall
<1> HIDE DEF new
<1> QED
  BY <1>1, <1>2, <1>4, <1>5, <1>6, <1>7, LoginKeeps

LEMMA ReplaceKeeps == ASSUME AccountsInv, NEW o \in Owners, replaceSession(o) PROVE AccountsInv'
<1> DEFINE new == [pc |-> "detached", key |-> None, old |-> current[o]]
<1>1. /\ login[o].pc = "signed" /\ login[o].old = None /\ login[o] \in LoginCall
      /\ login[o].key \in 1..MaxKeys /\ current[o] \in Runtimes \cup {None}
  BY DEF AccountsInv, TypeOK, Holding, WithKey, replaceSession, LoginAt, LoginCall
<1>2. new \in LoginCall /\ new.pc = "detached" /\ new.old = current[o]
  BY <1>1 DEF LoginCall
<1>3. login' = [login EXCEPT ![o] = new]
  BY DEF replaceSession
<1> HIDE DEF new
<1>4. /\ login' \in [Owners -> LoginCall] /\ login'[o] = new
      /\ \A p \in Owners \ {o} : login'[p] = login[p]
      /\ current' \in [Owners -> Runtimes \cup {None}] /\ current'[o] = None
      /\ \A p \in Owners \ {o} : current'[p] = current[p]
      /\ stored' \in [Owners -> (1..MaxKeys) \cup {None, NoAuth}]
      /\ fresh' = fresh \cup {o} /\ UNCHANGED <<telegram, runtime, faults>> /\ LoginOnly
  BY <1>1, <1>2, <1>3 DEF AccountsInv, TypeOK, replaceSession, NoFault
<1>5. TypeOK'
  BY <1>4 DEF AccountsInv, TypeOK, LoginOnly, boot, telegram, Keys
<1>6. LegacyKnown' /\ BeforeRun'
  BY <1>4 DEF AccountsInv, LegacyKnown, BeforeRun, LoginOnly, boot, telegram, Keys
<1>7. Holding' /\ WithKey'
  BY <1>2, <1>4 DEF AccountsInv, Holding, WithKey, LoginOnly
<1>8. FreshNotConnected'
  BY <1>4 DEF AccountsInv, TypeOK, FreshNotConnected
<1>9. NoLostRuntime'
  <2> SUFFICES ASSUME NEW q \in Runtimes, ~At(q, {"done", "ending", "revoked"}),
                      ~runtime[q].cancelled
               PROVE  \/ current'[runtime[q].owner] = q \/ logout.old = q
                      \/ \E p \in Owners : login'[p].old = q
    BY <1>4 DEF NoLostRuntime, At, LoginOnly
  <2>1. runtime[q].owner \in Owners
    BY DEF AccountsInv, TypeOK, Runtime
  <2>2. CASE current[runtime[q].owner] = q
    BY <2>1, <2>2, <1>2, <1>4
  <2>3. CASE \E p \in Owners : login[p].old = q
    BY <2>3, <1>1, <1>4, Numbers
  <2> QED BY <2>2, <2>3 DEF AccountsInv, NoLostRuntime
<1> QED
  BY <1>5, <1>6, <1>7, <1>8, <1>9 DEF AccountsInv

(* An account is cancelled, by whoever holds it. *)
LEMMA CancelKeeps ==
  ASSUME AccountsInv, NEW r \in Runtimes, runtime' = [runtime EXCEPT ![r].cancelled = TRUE],
         login' \in [Owners -> LoginCall], logout' \in LogoutCall,
         \A o \in Owners : login'[o] = login[o]
                           \/ (login'[o].pc = "waiting" /\ login'[o].old = login[o].old),
         logout'.old = logout.old, logout' = logout \/ (logout.old # None /\ logout'.pc = "wait"),
         UNCHANGED <<database, telegram, boot, current, unfinished, fresh, faults>>
  PROVE  AccountsInv'
<1> DEFINE new == [runtime[r] EXCEPT !.cancelled = TRUE]
<1>1. new \in Runtime /\ new.owner = runtime[r].owner /\ new.pc = runtime[r].pc
      /\ new.cancelled = TRUE /\ new.key = runtime[r].key
  <2>1. runtime[r] \in Runtime
    BY DEF AccountsInv, TypeOK
  <2> QED BY <2>1 DEF Runtime
<1>2. runtime' = [runtime EXCEPT ![r] = new]
  OBVIOUS
<1> HIDE DEF new
<1>3. /\ runtime' \in [Runtimes -> Runtime] /\ runtime'[r] = new
      /\ \A q \in Runtimes \ {r} : runtime'[q] = runtime[q]
  BY <1>1, <1>2 DEF AccountsInv, TypeOK
<1>4. \A q \in Runtimes : /\ runtime'[q].owner = runtime[q].owner
                          /\ runtime'[q].pc = runtime[q].pc /\ runtime'[q].key = runtime[q].key
                          /\ (q # r => runtime'[q] = runtime[q])
                          /\ (q = r => runtime'[q].cancelled = TRUE)
  BY <1>1, <1>3
<1>5. \A o \in Owners : current'[o] # None =>
        runtime'[current'[o]].owner = o /\ runtime'[current'[o]].pc # "done"
  BY <1>4 DEF AccountsInv, TypeOK
<1>6. TypeOK'
  BY <1>3, <1>5 DEF AccountsInv, TypeOK, database, telegram, boot, Keys
<1>7. LegacyKnown' /\ Holding'
  BY DEF AccountsInv, LegacyKnown, Holding, database, telegram, boot, Keys
<1>8. BeforeRun' /\ WithKey'
  BY <1>4 DEF AccountsInv, BeforeRun, WithKey, boot
<1>9. FreshNotConnected'
  BY <1>4 DEF AccountsInv, TypeOK, FreshNotConnected
<1>10. NoLostRuntime'
  <2> SUFFICES ASSUME NEW q \in Runtimes, ~At(q, {"done", "ending", "revoked"}), q # r,
                      ~runtime[q].cancelled
               PROVE  \/ current[runtime[q].owner] = q \/ logout'.old = q
                      \/ \E o \in Owners : login'[o].old = q
    <3>1. ASSUME NEW q \in Runtimes, ~At(q, {"done", "ending", "revoked"})',
                 ~runtime'[q].cancelled
          PROVE  q # r /\ runtime'[q] = runtime[q]
      BY <3>1, <1>4
    <3> QED BY <3>1 DEF NoLostRuntime, At
  <2>1. CASE \E o \in Owners : login[o].old = q
    BY <2>1
  <2> QED BY <2>1 DEF AccountsInv, NoLostRuntime
<1> QED
  BY <1>6, <1>7, <1>8, <1>9, <1>10 DEF AccountsInv

LEMMA CancelOldKeeps == ASSUME AccountsInv, NEW o \in Owners, CancelOld(o) PROVE AccountsInv'
<1> DEFINE new == [login[o] EXCEPT !.pc = "waiting"]
<1>1. /\ login[o] \in LoginCall /\ login[o].old \in Runtimes
  BY DEF AccountsInv, TypeOK, LoginCall, CancelOld
<1>2. new \in LoginCall /\ new.pc = "waiting" /\ new.old = login[o].old
  BY <1>1 DEF LoginCall
<1>3. login' = [login EXCEPT ![o] = new]
  BY DEF CancelOld
<1> HIDE DEF new
<1>4. /\ login' \in [Owners -> LoginCall]
      /\ \A p \in Owners : login'[p] = login[p]
                           \/ (login'[p].pc = "waiting" /\ login'[p].old = login[p].old)
  BY <1>2, <1>3 DEF AccountsInv, TypeOK
<1>5. /\ UNCHANGED <<database, telegram, boot, current, unfinished, fresh, faults, logout>>
      /\ runtime' = [runtime EXCEPT ![login[o].old].cancelled = TRUE] /\ logout' \in LogoutCall
  BY DEF CancelOld, LoginOnly, database, telegram, boot, AccountsInv, TypeOK
<1> QED
  BY <1>1, <1>4, <1>5, CancelKeeps

(***************************************************************************)
(* handleLogout and Manager.Logout.                                        *)
(***************************************************************************)
LEMMA StopKeeps == ASSUME AccountsInv, NEW o \in Owners, stop(o) PROVE AccountsInv'
<1> DEFINE new == [NoLogout(o) EXCEPT !.pc = IF current[o] = None THEN "load" ELSE "cancel",
                                      !.old = current[o]]
<1>1. logout.old = None /\ current[o] \in Runtimes \cup {None}
  BY DEF AccountsInv, TypeOK, Holding, stop, LogoutAt
<1>2. /\ new \in LogoutCall /\ new.old = current[o]
      /\ ((new.pc = "cancel" /\ current[o] # None) \/ (new.pc = "load" /\ current[o] = None))
  BY <1>1 DEF NoLogout, LogoutCall
<1>3. logout' = new
  BY DEF stop
<1> HIDE DEF new
<1>4. /\ current' \in [Owners -> Runtimes \cup {None}] /\ current'[o] = None
      /\ \A p \in Owners \ {o} : current'[p] = current[p]
      /\ unfinished' \subseteq Owners
      /\ UNCHANGED <<stored, tokens, alive, runtime, faults>> /\ LogoutOnly
  BY DEF AccountsInv, TypeOK, stop
<1>5. TypeOK'
  BY <1>2, <1>3, <1>4 DEF AccountsInv, TypeOK, LogoutOnly, boot, Keys
<1>6. LegacyKnown' /\ BeforeRun' /\ WithKey'
  BY <1>4 DEF AccountsInv, LegacyKnown, BeforeRun, WithKey, LogoutOnly, boot, Keys
<1>7. Holding'
  BY <1>2, <1>3, <1>4 DEF AccountsInv, Holding, LogoutOnly
<1>8. FreshNotConnected'
  BY <1>4 DEF AccountsInv, TypeOK, FreshNotConnected, LogoutOnly
<1>9. NoLostRuntime'
  <2> SUFFICES ASSUME NEW q \in Runtimes, ~At(q, {"done", "ending", "revoked"}),
                      ~runtime[q].cancelled
               PROVE  \/ current'[runtime[q].owner] = q \/ logout'.old = q
                      \/ \E p \in Owners : login[p].old = q
    BY <1>4 DEF NoLostRuntime, At, LogoutOnly
  <2>1. runtime[q].owner \in Owners
    BY DEF AccountsInv, TypeOK, Runtime
  <2>2. CASE current[runtime[q].owner] = q
    BY <2>1, <2>2, <1>2, <1>3, <1>4
  <2>3. logout.old # q
    BY <1>1, Numbers
  <2> QED BY <2>2, <2>3 DEF AccountsInv, NoLostRuntime
<1> QED
  BY <1>5, <1>6, <1>7, <1>8, <1>9 DEF AccountsInv

LEMMA StopCancelsKeeps == ASSUME AccountsInv, StopCancels PROVE AccountsInv'
<1> DEFINE new == [logout EXCEPT !.pc = "wait"]
<1>1. logout \in LogoutCall
  BY DEF AccountsInv, TypeOK
<1>a. logout.old \in Runtimes
  BY <1>1 DEF LogoutCall, StopCancels, LogoutAt, AccountsInv, Holding
<1>2. new \in LogoutCall /\ new.pc = "wait" /\ new.old = logout.old
  BY <1>1 DEF LogoutCall
<1>3. logout' = new
  BY DEF StopCancels
<1> HIDE DEF new
<1>4. /\ UNCHANGED <<database, telegram, boot, current, unfinished, fresh, faults, login>>
      /\ runtime' = [runtime EXCEPT ![logout.old].cancelled = TRUE]
      /\ login' \in [Owners -> LoginCall]
  BY DEF StopCancels, LogoutOnly, database, telegram, boot, AccountsInv, TypeOK
<1>5. /\ \A o \in Owners : login'[o] = login[o]
      /\ logout' \in LogoutCall /\ logout'.old = logout.old
      /\ logout.old # None /\ logout'.pc = "wait"
  BY <1>a, <1>2, <1>3, <1>4, Numbers
<1> QED
  BY <1>a, <1>4, <1>5, CancelKeeps

(* A step of a logout that holds no running account. *)
LEMMA LogoutKeeps ==
  ASSUME AccountsInv, logout.old = None \/ runtime[logout.old].pc = "done",
         logout' \in LogoutCall, logout'.old = None, logout'.pc \notin {"cancel", "wait"},
         stored' \in [Owners -> (1..MaxKeys) \cup {None, NoAuth}], tokens' \subseteq Owners,
         alive' \subseteq alive, unfinished' \subseteq Owners, faults' \in 0..MaxFaults,
         UNCHANGED <<current, runtime>>, LogoutOnly
  PROVE  AccountsInv'
<1>1. TypeOK'
  BY DEF AccountsInv, TypeOK, LogoutOnly, boot, Keys
<1>2. LegacyKnown' /\ BeforeRun' /\ WithKey' /\ Holding' /\ FreshNotConnected'
  BY DEF AccountsInv, LegacyKnown, BeforeRun, WithKey, Holding, FreshNotConnected, LogoutOnly,
     boot, Keys
<1>3. NoLostRuntime'
  BY Numbers DEF AccountsInv, NoLostRuntime, At, LogoutOnly
<1> QED
  BY <1>1, <1>2, <1>3 DEF AccountsInv

LEMMA LogoutLoadsKeeps == ASSUME AccountsInv, LogoutLoads PROVE AccountsInv'
<1>1. logout \in LogoutCall /\ logout.owner \in Owners
      /\ stored[logout.owner] \in (1..MaxKeys) \cup {None, NoAuth}
  BY DEF AccountsInv, TypeOK, LogoutCall
<1>2. logout.old = None \/ runtime[logout.old].pc = "done"
  BY DEF LogoutLoads, LogoutAt, AccountsInv, Holding
<1>3. logout' \in LogoutCall /\ logout'.old = None /\ logout'.pc \notin {"cancel", "wait"}
  <2> DEFINE k == stored[logout.owner]
             pc == IF k = None THEN "delete" ELSE "end"
  <2>1. logout' = [logout EXCEPT !.pc = pc, !.key = k, !.old = None]
    BY DEF LogoutLoads
  <2>2. pc \in {"delete", "end"} /\ k \in (1..MaxKeys) \cup {None, NoAuth}
    BY <1>1
  <2> HIDE DEF pc, k
  <2> QED BY <1>1, <2>1, <2>2 DEF LogoutCall, LogoutSteps
<1>4. /\ stored' \in [Owners -> (1..MaxKeys) \cup {None, NoAuth}] /\ tokens' \subseteq Owners
      /\ alive' \subseteq alive /\ unfinished' \subseteq Owners /\ faults' \in 0..MaxFaults
      /\ UNCHANGED <<current, runtime>> /\ LogoutOnly
  BY DEF LogoutLoads, AccountsInv, TypeOK
<1> QED
  BY <1>2, <1>3, <1>4, LogoutKeeps

(* What follows when the account is stopped: calls and statements. *)
LEMMA LogoutStepKeeps ==
  ASSUME AccountsInv,
         LogoutAtTelegram \/ LogoutDeletes \/ RevokeOAuthGrantsForUser \/ DeleteAPITokensForUser
           \/ LogoutFails
  PROVE  AccountsInv'
<1>1. logout \in LogoutCall /\ logout.owner \in Owners
  BY DEF AccountsInv, TypeOK, LogoutCall
<1>2. logout.pc \in {"end"} \cup LogoutSteps
  BY DEF LogoutAtTelegram, LogoutDeletes, RevokeOAuthGrantsForUser, DeleteAPITokensForUser,
     LogoutFails, Deleting, LogoutAt, LogoutSteps
<1>3. logout.old = None
  BY <1>2 DEF AccountsInv, Holding, LogoutSteps
<1>4. logout' \in LogoutCall /\ logout'.old = None /\ logout'.pc \notin {"cancel", "wait"}
  <2>1. CASE LogoutAtTelegram
    BY <2>1, <1>1, <1>3 DEF LogoutAtTelegram, LogoutCall, LogoutSteps
  <2>2. CASE LogoutDeletes
    BY <2>2, <1>1, <1>3 DEF LogoutDeletes, LogoutCall, LogoutSteps
  <2>3. CASE RevokeOAuthGrantsForUser
    BY <2>3, <1>1, <1>3 DEF RevokeOAuthGrantsForUser, LogoutCall, LogoutSteps
  <2>4. CASE DeleteAPITokensForUser \/ LogoutFails
    BY <2>4, <1>1, Records DEF DeleteAPITokensForUser, LogoutFails
  <2> QED BY <2>1, <2>2, <2>3, <2>4
<1>5. faults' \in 0..MaxFaults
  BY Faults DEF AccountsInv, LogoutAtTelegram, LogoutDeletes, RevokeOAuthGrantsForUser,
     DeleteAPITokensForUser, LogoutFails
<1>6. /\ stored' \in [Owners -> (1..MaxKeys) \cup {None, NoAuth}] /\ tokens' \subseteq Owners
      /\ alive' \subseteq alive /\ unfinished' \subseteq Owners
      /\ UNCHANGED <<current, runtime>> /\ LogoutOnly
  BY <1>1 DEF AccountsInv, TypeOK, LogoutAtTelegram, LogoutDeletes, RevokeOAuthGrantsForUser,
     DeleteAPITokensForUser, LogoutFails
<1> QED
  BY <1>3, <1>4, <1>5, <1>6, LogoutKeeps

(***************************************************************************)
(* The start of the process, and what happens around it.                   *)
(***************************************************************************)
LEMMA BootKeeps ==
  ASSUME AccountsInv, CheckLegacy \/ RemoveLegacy \/ RunLists PROVE AccountsInv'
<1>1. /\ UNCHANGED <<stored, current, runtime, fresh>> /\ BootOnly
      /\ legacy' \in {legacy, None}
  BY DEF CheckLegacy, RemoveLegacy, RunLists, database
<1>2. /\ phase' \in {"import", "save", "remove", "discard", "list", "up"}
      /\ phase # "up" /\ phase' # "remove" /\ (phase' = "save" => legacy' # None)
  BY DEF CheckLegacy, RemoveLegacy, RunLists, database
<1>3. toStart' \subseteq Owners /\ tokens' \subseteq Owners
  <2>1. legacy # None => keyOf[legacy] \in Owners
    BY DEF AccountsInv, LegacyKnown, TypeOK, Keys
  <2> QED BY <2>1 DEF AccountsInv, LegacyKnown, TypeOK, CheckLegacy, RemoveLegacy, RunLists,
                  database, Listed
<1>4. faults' \in 0..MaxFaults
  BY Faults DEF AccountsInv, CheckLegacy, RemoveLegacy, RunLists, NoFault
<1>5. TypeOK'
  BY <1>1, <1>2, <1>3, <1>4 DEF AccountsInv, TypeOK, BootOnly, telegram, Keys
<1>6. LegacyKnown' /\ BeforeRun' /\ WithKey' /\ Holding' /\ FreshNotConnected'
  BY <1>1, <1>2 DEF AccountsInv, LegacyKnown, BeforeRun, WithKey, Holding, FreshNotConnected,
     BootOnly, telegram, Keys
<1>7. NoLostRuntime'
  BY <1>1 DEF AccountsInv, NoLostRuntime, At, BootOnly
<1> QED
  BY <1>5, <1>6, <1>7 DEF AccountsInv

LEMMA SaveLegacyKeeps == ASSUME AccountsInv, SaveLegacy PROVE AccountsInv'
<1>1. keyOf[legacy] \in Owners /\ legacy # None /\ phase = "save"
  BY DEF AccountsInv, LegacyKnown, TypeOK, Keys, SaveLegacy
<1>2. \A o \in Owners : current[o] = None
  BY <1>1 DEF AccountsInv, BeforeRun, TypeOK
<1>3. /\ UNCHANGED <<tokens, legacy, toStart, current, runtime>> /\ BootOnly
      /\ phase' \in {"remove", "list"}
  BY DEF SaveLegacy
<1>4. faults' \in 0..MaxFaults
  BY Faults DEF AccountsInv, SaveLegacy
<1>5. stored' \in [Owners -> (1..MaxKeys) \cup {None, NoAuth}] /\ fresh' \subseteq Owners
  BY <1>1 DEF AccountsInv, TypeOK, SaveLegacy
<1>6. TypeOK'
  BY <1>3, <1>4, <1>5 DEF AccountsInv, TypeOK, BootOnly, telegram, Keys
<1>7. LegacyKnown' /\ BeforeRun' /\ WithKey' /\ Holding'
  BY <1>1, <1>3 DEF AccountsInv, LegacyKnown, BeforeRun, WithKey, Holding, BootOnly, telegram,
     Keys
<1>8. FreshNotConnected'
  BY <1>2, <1>3, <1>5 DEF FreshNotConnected
<1>9. NoLostRuntime'
  BY <1>3 DEF AccountsInv, NoLostRuntime, At, BootOnly
<1> QED
  BY <1>6, <1>7, <1>8, <1>9 DEF AccountsInv

LEMMA RestartKeeps == ASSUME AccountsInv, Restart PROVE AccountsInv'
<1>1. logout.owner \in Owners /\ \A r \in Runtimes : runtime[r].owner \in Owners
  BY DEF AccountsInv, TypeOK, Runtime, LogoutCall
<1>2. /\ runtime' \in [Runtimes -> Runtime] /\ \A r \in Runtimes : runtime'[r].pc = "done"
      /\ logout' \in LogoutCall /\ logout'.old = None /\ logout'.pc = "idle"
      /\ login' \in [Owners -> LoginCall]
      /\ \A o \in Owners : login'[o].pc = "idle" /\ login'[o].old = None
  BY <1>1, Records DEF Restart
<1>3. /\ phase' = "import" /\ toStart' = {} /\ current' = [o \in Owners |-> None]
      /\ UNCHANGED <<database, telegram, unfinished, fresh>> /\ faults' \in 0..MaxFaults
  BY Faults DEF Restart, AccountsInv
<1>4. TypeOK'
  BY <1>2, <1>3 DEF AccountsInv, TypeOK, database, telegram, Keys
<1>5. LegacyKnown' /\ BeforeRun' /\ WithKey' /\ Holding' /\ FreshNotConnected'
  BY <1>2, <1>3 DEF AccountsInv, TypeOK, LegacyKnown, BeforeRun, WithKey, Holding,
     FreshNotConnected, database, telegram, Keys
<1>6. NoLostRuntime'
  BY <1>2 DEF NoLostRuntime, At
<1> QED
  BY <1>4, <1>5, <1>6 DEF AccountsInv

(* Other devices and the dashboard. *)
LEMMA AroundKeeps ==
  ASSUME AccountsInv,
         TelegramEnds \/ (\E o \in Owners : createToken(o) \/ deleteToken(o)) \/ UNCHANGED vars
  PROVE  AccountsInv'
<1>1. /\ UNCHANGED <<stored, legacy, keyOf, boot, current, runtime, login, logout, unfinished,
                     fresh, faults>>
      /\ alive' \subseteq alive /\ tokens' \subseteq Owners
  BY DEF TelegramEnds, createToken, deleteToken, vars, database, telegram, boot, AccountsInv,
     TypeOK
<1>2. TypeOK'
  BY <1>1 DEF AccountsInv, TypeOK, boot, Keys
<1>3. LegacyKnown' /\ BeforeRun' /\ WithKey' /\ Holding' /\ FreshNotConnected'
  BY <1>1 DEF AccountsInv, LegacyKnown, BeforeRun, WithKey, Holding, FreshNotConnected, boot,
     Keys
<1>4. NoLostRuntime'
  BY <1>1 DEF AccountsInv, NoLostRuntime, At
<1> QED
  BY <1>2, <1>3, <1>4 DEF AccountsInv

LEMMA InitKeeps == ASSUME Init PROVE AccountsInv
<1>1. PICK o \in Owners : runtime = [r \in Runtimes |-> Ended(o)] /\ logout = NoLogout(o)
  BY DEF Init
<1>2. /\ runtime \in [Runtimes -> Runtime] /\ \A r \in Runtimes : runtime[r].pc = "done"
      /\ logout \in LogoutCall /\ logout.old = None /\ logout.pc = "idle"
      /\ login \in [Owners -> LoginCall]
      /\ \A p \in Owners : login[p].pc = "idle" /\ login[p].old = None
  BY <1>1, Records DEF Init
<1>3. /\ legacy \in (1..MaxKeys) \cup {None} /\ (legacy # None => legacy \in Keys)
      /\ keyOf \in Seq(Owners) /\ Len(keyOf) <= MaxKeys /\ alive \subseteq Keys
  <2>1. CASE legacy = None /\ keyOf = <<>> /\ alive = {}
    BY <2>1, Numbers
  <2>2. CASE \E p \in Owners : legacy = 1 /\ keyOf = <<p>> /\ alive = {1}
    <3>1. PICK p \in Owners : legacy = 1 /\ keyOf = <<p>> /\ alive = {1}
      BY <2>2
    <3>2. keyOf \in Seq(Owners) /\ Len(keyOf) = 1
      BY <3>1
    <3> QED BY <3>1, <3>2, Numbers DEF Keys
  <2> QED BY <2>1, <2>2 DEF Init
<1>4. TypeOK
  BY <1>2, <1>3, Numbers DEF Init, TypeOK
<1>5. LegacyKnown /\ BeforeRun /\ WithKey /\ Holding /\ FreshNotConnected
  BY <1>2, <1>3 DEF Init, LegacyKnown, BeforeRun, WithKey, Holding, FreshNotConnected
<1>6. NoLostRuntime
  BY <1>2 DEF NoLostRuntime, At
<1> QED
  BY <1>4, <1>5, <1>6 DEF AccountsInv

LEMMA StepKeeps == ASSUME AccountsInv, [Next]_vars PROVE AccountsInv'
<1>1. CASE \E r \in Runtimes : RunAccount(r)
  BY <1>1, LoadKeeps, StoreKeeps, StatusKeeps, DisconnectKeeps, DiscardKeeps, EndKeeps
  DEF RunAccount
<1>2. CASE \E o \in Owners : Login(o)
  BY <1>2, BeginKeeps, LoginEndsKeeps, SignInKeeps, ReplaceKeeps, CancelOldKeeps, StartAgainKeeps
  DEF Login
<1>3. CASE Logout \/ \E o \in Owners : stop(o)
  BY <1>3, StopKeeps, StopCancelsKeeps, LogoutLoadsKeeps, LogoutStepKeeps DEF Logout
<1>4. CASE Boot \/ Restart
  BY <1>4, BootKeeps, SaveLegacyKeeps, RunStartsKeeps, RestartKeeps DEF Boot
<1>5. CASE TelegramEnds \/ (\E o \in Owners : createToken(o) \/ deleteToken(o)) \/ UNCHANGED vars
  BY <1>5, AroundKeeps
<1> QED
  BY <1>1, <1>2, <1>3, <1>4, <1>5 DEF Next

(* The invariant of the accounts: calls that detached an account hold it,  *)
(* nothing runs before Run, and an account whose owner has a session that  *)
(* was not written over has not connected yet.                             *)
THEOREM AccountsInvariant == Spec => []AccountsInv
BY InitKeeps, StepKeeps, PTL DEF Spec

(* Types; and every account in Manager.accounts is its owner's, and runs.  *)
THEOREM AccountsTypes == Spec => []TypeOK
<1>1. AccountsInv => TypeOK
  BY DEF AccountsInv
<1> QED
  BY <1>1, AccountsInvariant, PTL

(* Nobody loses hold of a running account: whatever the order of logins,   *)
(* logouts, ends of connections and restarts, one that is not cancelled is *)
(* in Manager.accounts or is held by the call that is about to cancel it.  *)
THEOREM NoLostRuntimeAlways == Spec => []NoLostRuntime
<1>1. AccountsInv => NoLostRuntime
  BY DEF AccountsInv
<1> QED
  BY <1>1, AccountsInvariant, PTL

(* The session that a login stored, while Telegram accepts it and no       *)
(* account wrote its own over it, is deleted by a logout of its owner      *)
(* only: discardRevokedSession deletes what its own account had stored.    *)
LEMMA StepKeepsNewLogin ==
  ASSUME AccountsInv, Next, NEW o \in fresh, stored[o] \in alive, stored'[o] = None
  PROVE  logout.owner = o /\ Deleting
<1>0. o \in Owners /\ stored[o] # None
  <2>1. alive \subseteq 1..MaxKeys
    BY Numbers DEF AccountsInv, TypeOK, Keys
  <2> QED BY <2>1, Numbers DEF AccountsInv, TypeOK
<1>1. ASSUME NEW r \in Runtimes, StoreSession(r) PROVE FALSE
  <2>1. runtime[r].key # None
    BY <1>1 DEF AccountsInv, WithKey, StoreSession, At
  <2> QED BY <1>0, <1>1, <2>1 DEF StoreSession, AccountsInv, TypeOK
<1>2. ASSUME NEW r \in Runtimes, discardRevokedSession(r) PROVE FALSE
  <2>1. runtime[r].owner = o /\ current[o] = r /\ runtime[r].pc = "revoked"
    BY <1>0, <1>2 DEF discardRevokedSession, MayDiscard, At, AccountsInv, TypeOK
  <2> QED BY <2>1, NotFresh
<1>3. ASSUME NEW p \in Owners, replaceSession(p) PROVE FALSE
  <2>1. login[p].key # None
    BY <1>3 DEF AccountsInv, WithKey, replaceSession, LoginAt
  <2> QED BY <1>0, <1>3, <2>1 DEF replaceSession, AccountsInv, TypeOK
<1>4. ASSUME SaveLegacy PROVE FALSE
  BY <1>0, <1>4 DEF SaveLegacy, AccountsInv, LegacyKnown, TypeOK
<1>5. ASSUME stored' = stored PROVE FALSE
  BY <1>0, <1>5
<1>6. CASE Logout
  <2>1. CASE LogoutDeletes
    BY <1>0, <2>1 DEF LogoutDeletes, AccountsInv, TypeOK
  <2>2. CASE ~LogoutDeletes
    BY <1>5, <1>6, <2>2 DEF Logout, StopCancels, LogoutLoads, LogoutAtTelegram,
       RevokeOAuthGrantsForUser, DeleteAPITokensForUser, LogoutFails
  <2> QED BY <2>1, <2>2
<1>7. CASE \E r \in Runtimes : RunAccount(r)
  BY <1>1, <1>2, <1>5, <1>7 DEF RunAccount, LoadSession, CheckStatus, Disconnect, EndAccount
<1>8. CASE \E p \in Owners : Login(p)
  BY <1>3, <1>5, <1>8 DEF Login, beginLogin, LoginFails, SignIn, SaveFails, CancelOld, StartAgain
<1>9. CASE Boot \/ Restart
  BY <1>4, <1>5, <1>9 DEF Boot, CheckLegacy, RemoveLegacy, RunLists, RunStarts, Restart, database
<1>10. CASE TelegramEnds \/ \E p \in Owners : stop(p) \/ createToken(p) \/ deleteToken(p)
  BY <1>5, <1>10 DEF TelegramEnds, stop, createToken, deleteToken, database
<1> QED
  BY <1>6, <1>7, <1>8, <1>9, <1>10 DEF Next

(* A new login outlives the accounts that ran before it. *)
THEOREM NewLoginKeptHolds == Spec => NewLoginKept
<1> DEFINE Kept == \A o \in fresh :
              stored[o] \in alive /\ stored'[o] = None => logout.owner = o /\ Deleting
<1>1. AccountsInv /\ [Next]_vars => [Kept]_vars
  BY StepKeepsNewLogin
<1>2. Spec => [][Kept]_vars
  <2> HIDE DEF Kept
  <2> QED BY <1>1, AccountsInvariant, PTL DEF Spec
<1> QED
  BY <1>2 DEF NewLoginKept

================================================================================
