------------------------------- MODULE Accounts -------------------------------
(***************************************************************************)
(* The connected Telegram accounts: the Manager and the session vault of   *)
(* internal/monitor/manager.go, the rows of internal/db/tenancy.go, and    *)
(* the /logout command of internal/bot/bot.go.                             *)
(*                                                                         *)
(* A session is an auth key that a sign-in made at Telegram.  It is stored *)
(* in one row per owner, loaded by the goroutine that runs the account,    *)
(* and accepted by Telegram until it is ended there.  Logins run in the    *)
(* goroutines of the login page, logouts in the one that handles the       *)
(* bot's updates, so the two interleave with each other, with the running  *)
(* accounts and with the start of the process.                             *)
(***************************************************************************)
EXTENDS Naturals, Sequences, FiniteSets

CONSTANTS
  Owners,               \* Telegram users
  Runtimes,             \* accountRuntime values that exist at once
  MaxConcurrentLogins,  \* maxConcurrentLogins
  MaxKeys,              \* bound: sign-ins
  MaxFaults,            \* bound: failed statements, lost calls, restarts
  None,                 \* no key, no runtime
  NoAuth                \* an auth key that was never signed in

ASSUME AccountsAssumption ==
  /\ MaxConcurrentLogins \in Nat \ {0} /\ MaxKeys \in Nat \ {0} /\ MaxFaults \in Nat
  /\ None \notin Runtimes \cup (1..MaxKeys) /\ NoAuth \notin (1..MaxKeys) \cup {None}

VARIABLES
  (* the database and the session file of an older version *)
  stored,     \* telegram_sessions: [Owners -> key, NoAuth or None]
  tokens,     \* owners who have api_tokens
  legacy,     \* the key in cfg.SessionPath, or None
  (* Telegram *)
  keyOf,      \* keyOf[k]: the account that signed in with key k
  alive,      \* keys Telegram accepts
  (* the process *)
  phase,      \* "import" | "save" | "remove" | "discard" | "list" | "up"
  toStart,    \* owners Run has listed and not started yet
  current,    \* Manager.accounts: [Owners -> runtime or None]
  runtime,    \* [Runtimes -> [owner, pc, key, cancelled]]
  login,      \* [Owners -> [pc, key, old]]: the one call of Login of an owner
  logout,     \* [pc, owner, key, old]: the one /logout being handled
  (* bookkeeping of the specification *)
  unfinished, \* owners whose last logout was cut short
  fresh,      \* owners whose row is as a login or the import wrote it
  faults

database == <<stored, tokens, legacy>>
telegram == <<keyOf, alive>>
boot == <<phase, toStart>>
vars == <<stored, tokens, legacy, keyOf, alive, phase, toStart, current,
          runtime, login, logout, unfinished, fresh, faults>>

Keys == 1..Len(keyOf)
NoLogin == [pc |-> "idle", key |-> None, old |-> None]
NoLogout(o) == [pc |-> "idle", owner |-> o, key |-> None, old |-> None]
Ended(o) == [owner |-> o, pc |-> "done", key |-> None, cancelled |-> TRUE]

Init ==
  /\ stored = [o \in Owners |-> None]
  /\ tokens = {}
  /\ \/ legacy = None /\ keyOf = <<>> /\ alive = {}
     \/ \E o \in Owners : legacy = 1 /\ keyOf = <<o>> /\ alive = {1}
  /\ phase = "import" /\ toStart = {}
  /\ current = [o \in Owners |-> None]
  /\ \E o \in Owners : /\ runtime = [r \in Runtimes |-> Ended(o)]
                       /\ logout = NoLogout(o)
  /\ login = [o \in Owners |-> NoLogin]
  /\ unfinished = {} /\ fresh = {} /\ faults = 0

Fault == faults < MaxFaults /\ faults' = faults + 1
NoFault == UNCHANGED faults

(***************************************************************************)
(* Telegram.                                                               *)
(***************************************************************************)
(* The user ends a session from another device. *)
TelegramEnds ==
  /\ \E k \in alive : alive' = alive \ {k}
  /\ UNCHANGED <<database, keyOf, boot, current, runtime, login, logout, unfinished, fresh,
                 faults>>

(***************************************************************************)
(* Running accounts: Manager.start, runAccount and Service.runOnce.        *)
(***************************************************************************)
Awaited(r) == logout.old = r \/ \E o \in Owners : login[o].old = r
Idle == {r \in Runtimes : runtime[r].pc = "done" /\ ~Awaited(r)}

(* start does nothing before Run, nor while the owner has a runtime. *)
MayStartTwice(o) == phase = "up"
MayStart(o) == phase = "up" /\ current[o] = None
start(o) ==
  IF MayStart(o)
  THEN /\ Idle # {}
       /\ LET r == CHOOSE r \in Idle : TRUE
          IN /\ current' = [current EXCEPT ![o] = r]
             /\ runtime' = [runtime EXCEPT ![r] =
                  [owner |-> o, pc |-> "start", key |-> None, cancelled |-> FALSE]]
  ELSE UNCHANGED <<current, runtime>>

At(r, pcs) == runtime[r].pc \in pcs
Step(r, pc) == runtime' = [runtime EXCEPT ![r].pc = pc]
Elsewhere == UNCHANGED <<tokens, legacy, keyOf, alive, boot, login, logout, unfinished>>

(* The client loads the session of its owner; without a row it makes a key *)
(* of its own, which nobody has signed in.                                 *)
LoadSession(r) ==
  /\ At(r, {"start"}) /\ ~runtime[r].cancelled
  /\ runtime' = [runtime EXCEPT ![r].pc = "loaded", ![r].key =
       IF stored[runtime[r].owner] = None THEN NoAuth ELSE stored[runtime[r].owner]]
  /\ UNCHANGED <<stored, current, faults>> /\ Elsewhere /\ UNCHANGED fresh

(* Once connected it saves its session again, not holding Manager.mu. *)
StoreSession(r) ==
  /\ At(r, {"loaded"}) /\ ~runtime[r].cancelled
  /\ Step(r, "connected")
  /\ stored' = [stored EXCEPT ![runtime[r].owner] = runtime[r].key]
  /\ fresh' = fresh \ {runtime[r].owner}
  /\ UNCHANGED <<current, faults>> /\ Elsewhere

CheckStatus(r) ==
  /\ At(r, {"connected"}) /\ ~runtime[r].cancelled
  /\ Step(r, IF runtime[r].key \in alive THEN "ready" ELSE "revoked")
  /\ UNCHANGED <<stored, current, faults>> /\ Elsewhere /\ UNCHANGED fresh

(* The connection ends, by a fault or because Telegram ended the session;  *)
(* runAccount tries again after a delay.                                   *)
Disconnect(r) ==
  /\ At(r, {"loaded", "connected", "ready"}) /\ ~runtime[r].cancelled
  /\ IF At(r, {"ready"}) /\ runtime[r].key \notin alive THEN NoFault ELSE Fault
  /\ Step(r, "start")
  /\ UNCHANGED <<stored, current>> /\ Elsewhere /\ UNCHANGED fresh

(* discardRevokedSession: the check and the delete hold Manager.mu.  A     *)
(* delete that fails is only logged.                                       *)
MayDiscardAnyway(r) == TRUE
MayDiscard(r) == current[runtime[r].owner] = r
discardRevokedSession(r) ==
  /\ At(r, {"revoked"})
  /\ Step(r, "ending")
  /\ \/ MayDiscard(r) /\ NoFault /\ stored' = [stored EXCEPT ![runtime[r].owner] = None]
     \/ MayDiscard(r) /\ Fault /\ UNCHANGED stored
     \/ ~MayDiscard(r) /\ NoFault /\ UNCHANGED stored
  /\ UNCHANGED current /\ Elsewhere /\ UNCHANGED fresh

LeaveNothing(r) == current
Leave(r) == [o \in Owners |-> IF current[o] = r THEN None ELSE current[o]]

(* The deferred calls of runAccount: leave the map, if it is still in it,  *)
(* and close done; after a cancellation, or after the user was told of a   *)
(* revoked session.                                                        *)
EndAccount(r) ==
  /\ \/ At(r, {"ending"})
     \/ runtime[r].cancelled /\ At(r, {"start", "loaded", "connected", "ready"})
  /\ runtime' = [runtime EXCEPT ![r] = Ended(runtime[r].owner)]
  /\ current' = Leave(r)
  /\ UNCHANGED <<stored, faults>> /\ Elsewhere /\ UNCHANGED fresh

RunAccount(r) ==
  \/ LoadSession(r) \/ StoreSession(r) \/ CheckStatus(r) \/ Disconnect(r)
  \/ discardRevokedSession(r) \/ EndAccount(r)

(* Manager.Account *)
Ready(o) == current[o] # None /\ runtime[current[o]].pc = "ready"
(* Manager.Connected *)
Connected(o) == stored[o] # None

(***************************************************************************)
(* Manager.Login, called by a login page.                                  *)
(***************************************************************************)
LoginAt(o, pc) == login[o].pc = pc
Busy == {o \in Owners : login[o].pc # "idle"}
MayLogin(o) == LoginAt(o, "idle") /\ Cardinality(Busy) < MaxConcurrentLogins
LoginOnly == UNCHANGED <<tokens, legacy, boot, logout, unfinished>>

(* An account that works needs no login; one login per owner, and no more  *)
(* than maxConcurrentLogins.                                               *)
beginLogin(o) ==
  /\ ~Ready(o) /\ MayLogin(o)
  /\ login' = [login EXCEPT ![o].pc = "prompting"]
  /\ UNCHANGED <<stored, telegram, current, runtime, faults>> /\ LoginOnly /\ UNCHANGED fresh

(* Wrong code or password, an answer that never comes, another account:    *)
(* whatever key there was is logged out or forgotten.                      *)
LoginFails(o) ==
  /\ LoginAt(o, "prompting")
  /\ login' = [login EXCEPT ![o] = NoLogin]
  /\ UNCHANGED <<stored, telegram, current, runtime, faults>> /\ LoginOnly /\ UNCHANGED fresh

(* Telegram confirms that owner signed in: a new key, in memory only. *)
SignIn(o) ==
  /\ LoginAt(o, "prompting") /\ Len(keyOf) < MaxKeys
  /\ keyOf' = Append(keyOf, o)
  /\ alive' = alive \cup {Len(keyOf')}
  /\ login' = [login EXCEPT ![o].pc = "signed", ![o].key = Len(keyOf')]
  /\ UNCHANGED <<stored, current, runtime, faults>> /\ LoginOnly /\ UNCHANGED fresh

(* replaceSession: the new session is stored and the running account       *)
(* detached under Manager.mu.                                              *)
replaceSession(o) ==
  /\ LoginAt(o, "signed") /\ NoFault
  /\ stored' = [stored EXCEPT ![o] = login[o].key] /\ fresh' = fresh \cup {o}
  /\ current' = [current EXCEPT ![o] = None]
  /\ login' = [login EXCEPT ![o] = [pc |-> "detached", key |-> None, old |-> current[o]]]
  /\ UNCHANGED <<telegram, runtime>> /\ LoginOnly

SaveFails(o) ==
  /\ LoginAt(o, "signed") /\ Fault
  /\ login' = [login EXCEPT ![o] = NoLogin]
  /\ UNCHANGED <<stored, telegram, current, runtime>> /\ LoginOnly /\ UNCHANGED fresh

(* runtime.cancel, after the unlock *)
CancelOld(o) ==
  /\ LoginAt(o, "detached") /\ login[o].old # None
  /\ runtime' = [runtime EXCEPT ![login[o].old].cancelled = TRUE]
  /\ login' = [login EXCEPT ![o].pc = "waiting"]
  /\ UNCHANGED <<stored, telegram, current, faults>> /\ LoginOnly /\ UNCHANGED fresh

StartAgain(o) ==
  /\ \/ LoginAt(o, "detached") /\ login[o].old = None
     \/ LoginAt(o, "waiting") /\ runtime[login[o].old].pc = "done"
  /\ start(o)
  /\ login' = [login EXCEPT ![o] = NoLogin]
  /\ UNCHANGED <<stored, telegram, faults>> /\ LoginOnly /\ UNCHANGED fresh

Login(o) ==
  \/ beginLogin(o) \/ LoginFails(o) \/ SignIn(o) \/ replaceSession(o)
  \/ SaveFails(o) \/ CancelOld(o) \/ StartAgain(o)

(***************************************************************************)
(* handleLogout and Manager.Logout.  The bot handles one update at a time. *)
(***************************************************************************)
LogoutAt(pc) == logout.pc = pc
LogoutOnly == UNCHANGED <<legacy, keyOf, boot, login, fresh>>

(* A user who has no stored session is told so, and nothing happens. *)
MayLogout(o) == Connected(o)

(* Manager.stop *)
stop(o) ==
  /\ LogoutAt("idle") /\ MayLogout(o)
  /\ current' = [current EXCEPT ![o] = None]
  /\ logout' = [NoLogout(o) EXCEPT !.pc = IF current[o] = None THEN "load" ELSE "cancel",
                                   !.old = current[o]]
  /\ unfinished' = unfinished \cup {o}
  /\ UNCHANGED <<stored, tokens, alive, runtime, faults>> /\ LogoutOnly

StopCancels ==
  /\ LogoutAt("cancel")
  /\ runtime' = [runtime EXCEPT ![logout.old].cancelled = TRUE]
  /\ logout' = [logout EXCEPT !.pc = "wait"]
  /\ UNCHANGED <<stored, tokens, alive, current, unfinished, faults>> /\ LogoutOnly

(* logOutStoredSession, its two halves: the key is read, then ended at     *)
(* Telegram.  Its errors are only logged.                                  *)
LogoutLoads ==
  /\ \/ LogoutAt("load")
     \/ LogoutAt("wait") /\ runtime[logout.old].pc = "done"
  /\ LET k == stored[logout.owner]
     IN logout' = [logout EXCEPT !.pc = IF k = None THEN "delete" ELSE "end",
                                 !.key = k, !.old = None]
  /\ UNCHANGED <<stored, tokens, alive, current, runtime, unfinished, faults>> /\ LogoutOnly

LogoutAtTelegram ==
  /\ LogoutAt("end")
  /\ \/ NoFault /\ alive' = alive \ {logout.key}
     \/ Fault /\ UNCHANGED alive
  /\ logout' = [logout EXCEPT !.pc = "delete", !.key = None]
  /\ UNCHANGED <<stored, tokens, current, runtime, unfinished>> /\ LogoutOnly

(* The three statements that follow, each of which may fail and end it.    *)
(* The grants are those of OAuth.tla.                                      *)
LogoutSteps == {"delete", "revoke", "tokens"}
Deleting == LogoutAt("delete")
LogoutDeletes ==
  /\ Deleting /\ NoFault
  /\ stored' = [stored EXCEPT ![logout.owner] = None]
  /\ logout' = [logout EXCEPT !.pc = "revoke"]
  /\ UNCHANGED <<tokens, alive, current, runtime, unfinished>> /\ LogoutOnly

RevokeOAuthGrantsForUser ==
  /\ LogoutAt("revoke") /\ NoFault
  /\ logout' = [logout EXCEPT !.pc = "tokens"]
  /\ UNCHANGED <<stored, tokens, alive, current, runtime, unfinished>> /\ LogoutOnly

DeleteAPITokensForUser ==
  /\ LogoutAt("tokens") /\ NoFault
  /\ tokens' = tokens \ {logout.owner}
  /\ logout' = NoLogout(logout.owner)
  /\ unfinished' = unfinished \ {logout.owner}
  /\ UNCHANGED <<stored, alive, current, runtime>> /\ LogoutOnly

LogoutFails ==
  /\ logout.pc \in LogoutSteps /\ Fault
  /\ logout' = NoLogout(logout.owner)
  /\ UNCHANGED <<stored, tokens, alive, current, runtime, unfinished>> /\ LogoutOnly

Logout ==
  \/ StopCancels \/ LogoutLoads \/ LogoutAtTelegram \/ LogoutDeletes
  \/ RevokeOAuthGrantsForUser \/ DeleteAPITokensForUser \/ LogoutFails

(***************************************************************************)
(* The dashboard makes API tokens for whoever signed in to it, connected   *)
(* or not.                                                                 *)
(***************************************************************************)
createToken(o) ==
  /\ tokens' = tokens \cup {o}
  /\ UNCHANGED <<stored, legacy, telegram, boot, current, runtime, login, logout,
                 unfinished, fresh, faults>>

(* The last of an owner's tokens. *)
deleteToken(o) ==
  /\ o \in tokens /\ tokens' = tokens \ {o}
  /\ UNCHANGED <<stored, legacy, telegram, boot, current, runtime, login, logout,
                 unfinished, fresh, faults>>

(***************************************************************************)
(* The start of the process: importLegacyAccount, then Manager.Run.  The   *)
(* bot and the login page are up from the beginning.                       *)
(***************************************************************************)
BootOnly == UNCHANGED <<telegram, login, logout, unfinished>>

(* ImportLegacySession: a file whose session works is saved, one that does *)
(* not is removed, and one that cannot be checked is left.                 *)
CheckLegacy ==
  /\ phase = "import"
  /\ \/ NoFault /\ phase' = IF legacy = None THEN "list"
                            ELSE IF legacy \in alive THEN "save" ELSE "discard"
     \/ Fault /\ phase' = "list"
  /\ UNCHANGED <<database, toStart, current, runtime>> /\ BootOnly /\ UNCHANGED fresh

SaveLegacy ==
  /\ phase = "save"
  /\ \/ NoFault /\ stored' = [stored EXCEPT ![keyOf[legacy]] = legacy]
        /\ fresh' = fresh \cup {keyOf[legacy]} /\ phase' = "remove"
     \/ Fault /\ phase' = "list" /\ UNCHANGED <<stored, fresh>>
  /\ UNCHANGED <<tokens, legacy, toStart, current, runtime>> /\ BootOnly

(* retireLegacySession removes the file; then the owner of a saved one     *)
(* gets the tokens of the environment, if it has any, whether or not the   *)
(* file could be removed.                                                  *)
RemoveLegacy ==
  /\ phase \in {"discard", "remove"}
  /\ \/ NoFault /\ legacy' = None
     \/ Fault /\ UNCHANGED legacy
  /\ \/ phase = "remove" /\ tokens' = tokens \cup {keyOf[legacy]}
     \/ UNCHANGED tokens
  /\ phase' = "list"
  /\ UNCHANGED <<stored, toStart, current, runtime>> /\ BootOnly /\ UNCHANGED fresh

(* Run: from here on start works; every stored account is started, with a  *)
(* pause between two.                                                      *)
ListedReady == {o \in Owners : Ready(o)}
Listed == {o \in Owners : Connected(o)}
RunLists ==
  /\ phase = "list"
  /\ phase' = "up" /\ toStart' = Listed
  /\ UNCHANGED <<database, current, runtime, faults>> /\ BootOnly /\ UNCHANGED fresh

RunStarts(o) ==
  /\ o \in toStart
  /\ start(o)
  /\ toStart' = toStart \ {o}
  /\ UNCHANGED <<database, phase, faults>> /\ BootOnly /\ UNCHANGED fresh

(* The process ends, at any point, and is started again. *)
Restart ==
  /\ Fault
  /\ phase' = "import" /\ toStart' = {}
  /\ current' = [o \in Owners |-> None]
  /\ runtime' = [r \in Runtimes |-> Ended(runtime[r].owner)]
  /\ login' = [o \in Owners |-> NoLogin] /\ logout' = NoLogout(logout.owner)
  /\ UNCHANGED <<database, telegram, unfinished, fresh>>

Boot == CheckLegacy \/ SaveLegacy \/ RemoveLegacy \/ RunLists \/ \E o \in Owners : RunStarts(o)

Next ==
  \/ TelegramEnds \/ Boot \/ Restart \/ Logout
  \/ \E r \in Runtimes : RunAccount(r)
  \/ \E o \in Owners : Login(o) \/ stop(o) \/ createToken(o) \/ deleteToken(o)

Spec == Init /\ [][Next]_vars

(***************************************************************************)
(* Fairness: goroutines are scheduled, calls and statements return.  Users *)
(* owe nothing, and neither does a prompt that waits for one.              *)
(***************************************************************************)
FairSpec ==
  /\ Spec
  /\ WF_vars(Boot) /\ WF_vars(Logout)
  /\ \A r \in Runtimes : WF_vars(RunAccount(r))
  /\ \A o \in Owners : WF_vars(replaceSession(o) \/ CancelOld(o) \/ StartAgain(o))
  /\ \A o \in Owners : WF_vars(RunStarts(o))

(***************************************************************************)
(* Properties.                                                             *)
(***************************************************************************)
Runtime == [owner : Owners, key : (1..MaxKeys) \cup {None, NoAuth}, cancelled : BOOLEAN,
            pc : {"start", "loaded", "connected", "ready", "revoked", "ending", "done"}]
LoginCall == [pc : {"idle", "prompting", "signed", "detached", "waiting"},
              key : (1..MaxKeys) \cup {None}, old : Runtimes \cup {None}]
LogoutCall == [pc : {"idle", "cancel", "wait", "load", "end"} \cup LogoutSteps, owner : Owners,
               key : (1..MaxKeys) \cup {None, NoAuth}, old : Runtimes \cup {None}]
TypeOK ==
  /\ stored \in [Owners -> (1..MaxKeys) \cup {None, NoAuth}]
  /\ tokens \subseteq Owners
  /\ legacy \in (1..MaxKeys) \cup {None}
  /\ keyOf \in Seq(Owners) /\ Len(keyOf) <= MaxKeys /\ alive \subseteq Keys
  /\ phase \in {"import", "save", "remove", "discard", "list", "up"} /\ toStart \subseteq Owners
  /\ current \in [Owners -> Runtimes \cup {None}]
  /\ \A o \in Owners : current[o] # None =>
       runtime[current[o]].owner = o /\ runtime[current[o]].pc # "done"
  /\ runtime \in [Runtimes -> Runtime]
  /\ login \in [Owners -> LoginCall] /\ logout \in LogoutCall
  /\ unfinished \subseteq Owners /\ fresh \subseteq Owners /\ faults \in 0..MaxFaults

(* Nobody loses hold of a running account: one that is neither cancelled   *)
(* nor at its end is in Manager.accounts, or a login or logout that took   *)
(* it out is about to cancel it.  A connection nobody holds would read the *)
(* user's messages until the process ends, whatever the user does.         *)
NoLostRuntime ==
  \A r \in Runtimes :
    ~At(r, {"done", "ending", "revoked"}) /\ ~runtime[r].cancelled =>
      \/ current[runtime[r].owner] = r
      \/ logout.old = r
      \/ \E o \in Owners : login[o].old = r

(* A new login outlives the accounts that ran before it: the session that  *)
(* a login stored, while Telegram accepts it and no account has written    *)
(* its own over it, is deleted by a logout of its owner only; not by an    *)
(* account that ran on an older key and learns late that it was rejected.  *)
NewLoginKept ==
  [][\A o \in fresh :
       stored[o] \in alive /\ stored'[o] = None => logout.owner = o /\ Deleting]_vars

(* Comment of Logout in manager.go: it "revokes every MCP connection and   *)
(* API token of that user".  A logout that was cut short, by a failed      *)
(* statement or a restart, can be asked for again: while API tokens of its *)
(* owner are left, either it is still running or /logout accepts.          *)
LogoutCanBeFinished ==
  \A o \in unfinished : o \notin tokens \/ MayLogout(o) \/ (logout.owner = o /\ ~LogoutAt("idle"))

(* A login that was stored leads to an account that runs on its session,   *)
(* unless that session is ended or replaced: no order of logins, logouts,  *)
(* revocations, lost connections and restarts leaves it without one.       *)
RunsOn(o, k) == Ready(o) /\ runtime[current[o]].key = k
EventuallyRunning ==
  \A o \in Owners, k \in 1..MaxKeys :
    o \in fresh /\ stored[o] = k /\ k \in alive
      ~> RunsOn(o, k) \/ k \notin alive \/ stored[o] # k
===============================================================================
