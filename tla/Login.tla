-------------------------------- MODULE Login --------------------------------
(***************************************************************************)
(* How one user connects a Telegram account: the chat with the bot, which  *)
(* asks for the phone number and hands out a link                          *)
(* (internal/bot/login.go), the page behind the link (internal/web/login.go)*)
(* and the login with Telegram that the page feeds with a code and a       *)
(* password (Manager.Login in internal/monitor/manager.go).                *)
(*                                                                         *)
(* The bot handles one message at a time; requests to the page, the logins *)
(* they start and the expiry of a question run concurrently.  What is      *)
(* typed, sent and shown is left out.                                      *)
(***************************************************************************)
EXTENDS Naturals, FiniteSets

CONSTANTS
  Sessions,   \* questions for the phone number that may exist at a time
  Links,      \* tokens
  Flows,      \* logins that are started from a page
  Requests,   \* requests to the page that run concurrently
  MaxFaults   \* bound: statements and sends that fail, and crashes

ASSUME LoginAssumption ==
  /\ Sessions \subseteq Nat \ {0} /\ Links \subseteq Nat \ {0} /\ Flows \subseteq Nat \ {0}
  /\ MaxFaults \in Nat

VARIABLES
  chat,       \* the open question of the chat, 0 for none
  timers,     \* session -> its ten minutes: "off", "running" or "fired"
  bot,        \* [pc, session]: what the bot is doing
  phone,      \* login_phones has a row
  links,      \* login_tokens: token -> "unused", "valid", "expired" or "gone"
  used,       \* tokens with used_at
  flowOf,     \* webLoginManager.flows: token -> flow, 0 for none
  flows,      \* flow -> [pc, link, phase, kind, input, ctx, ok]
  requests,   \* request -> [pc, link, flow]
  busy,       \* loginOwner
  account,    \* whose session is stored: "none" or the "own" one
  faults

botVars == <<chat, timers, bot, phone>>
webVars == <<flowOf, requests>>
vars == <<botVars, links, used, webVars, flows, busy, account, faults>>

Idle == [pc |-> "idle", link |-> 0, flow |-> 0]
NoFlow == [pc |-> "none", link |-> 0, phase |-> "starting", kind |-> "code", input |-> FALSE,
           ctx |-> "live", ok |-> FALSE]

Init ==
  /\ chat = 0 /\ timers = [s \in Sessions |-> "off"]
  /\ bot = [pc |-> "idle", session |-> 0] /\ phone \in BOOLEAN
  /\ links = [l \in Links |-> "unused"] /\ used = {} /\ flowOf = [l \in Links |-> 0]
  /\ flows = [f \in Flows |-> NoFlow] /\ requests = [r \in Requests |-> Idle]
  /\ busy = FALSE /\ account = "none" /\ faults = 0

Fault == faults < MaxFaults /\ faults' = faults + 1
First(S) == CHOOSE i \in S : \A j \in S : i <= j

(***************************************************************************)
(* The chat with the bot.                                                  *)
(***************************************************************************)
BotOnly == UNCHANGED <<used, webVars, flows, busy, account>>
cancel(s) == [timers EXCEPT ![s] = IF @ = "running" THEN "off" ELSE @]

(* A new link; those that are used or have expired are deleted first.      *)
CreateLoginToken ==
  LET new == {l \in Links : links[l] = "unused"}
  IN  \/ /\ new # {} /\ UNCHANGED faults
         /\ links' = [l \in Links |-> IF l = First(new) THEN "valid"
                                      ELSE IF links[l] = "expired" \/ l \in used THEN "gone"
                                      ELSE links[l]]
      \/ Fault /\ UNCHANGED links

(* /login: with a number on file the link follows at once, with a question *)
(* already open nothing does.                                              *)
Start ==
  /\ bot.pc = "idle" /\ account = "none"
  /\ IF phone THEN CreateLoginToken /\ UNCHANGED <<chat, timers>>
     ELSE /\ chat = 0
          /\ \E s \in Sessions : /\ timers[s] = "off" /\ chat' = s
                                 /\ timers' = [timers EXCEPT ![s] = "running"]
          /\ UNCHANGED <<links, faults>>
  /\ UNCHANGED <<bot, phone>> /\ BotOnly

(* The owner's own contact; any other message is answered and changes nothing. *)
handleContact ==
  /\ bot.pc = "idle" /\ chat # 0
  /\ bot' = [pc |-> "save", session |-> chat]
  /\ UNCHANGED <<chat, timers, phone, links, faults>> /\ BotOnly

SaveLoginPhone ==
  /\ bot.pc = "save"
  /\ \/ phone' = TRUE /\ bot' = [bot EXCEPT !.pc = "remove"] /\ UNCHANGED faults
     \/ Fault /\ bot' = [pc |-> "idle", session |-> 0] /\ UNCHANGED phone
  /\ UNCHANGED <<chat, timers, links>> /\ BotOnly

finishPhone ==
  /\ bot.pc = "remove" /\ bot' = [pc |-> "idle", session |-> 0]
  /\ timers' = cancel(bot.session)
  /\ chat' = IF chat = bot.session THEN 0 ELSE chat
  /\ CreateLoginToken
  /\ UNCHANGED phone /\ BotOnly

Cancel ==
  /\ bot.pc = "idle" /\ chat # 0
  /\ chat' = 0 /\ timers' = cancel(chat)
  /\ UNCHANGED <<bot, phone, links, faults>> /\ BotOnly

(* The time of a question is up; the goroutine that waits for it looks     *)
(* later whether the question is still the open one.                       *)
Fires(s) ==
  /\ timers[s] = "running" /\ timers' = [timers EXCEPT ![s] = "fired"]
  /\ UNCHANGED <<chat, bot, phone, links, faults>> /\ BotOnly

AnyCurrent(s) == chat # 0
NeverCurrent(s) == FALSE
IsCurrent(s) == chat = s
expirePhonePrompt(s) ==
  /\ timers[s] = "fired" /\ timers' = [timers EXCEPT ![s] = "off"]
  /\ IF IsCurrent(s) THEN chat' = 0 ELSE UNCHANGED chat
  /\ UNCHANGED <<bot, phone, links, faults>> /\ BotOnly

Chat ==
  \/ Start \/ handleContact \/ SaveLoginPhone \/ finishPhone \/ Cancel
  \/ \E s \in Sessions : Fires(s) \/ expirePhonePrompt(s)

(***************************************************************************)
(* The page behind a link.                                                 *)
(***************************************************************************)
WebOnly == UNCHANGED <<botVars, used, busy, account, faults>>

(* get drops the flows that are over their time. *)
Kept == [l \in Links |-> IF flowOf[l] # 0 /\ flows[flowOf[l]].ctx = "old" THEN 0 ELSE flowOf[l]]
validLoginToken(l) == links[l] = "valid" /\ l \notin used

loginPage(r, l) ==
  /\ requests[r].pc = "idle" /\ flowOf' = Kept /\ Kept[l] = 0 /\ validLoginToken(l)
  /\ requests' = [requests EXCEPT ![r] = [pc |-> "start", link |-> l, flow |-> 0]]
  /\ UNCHANGED <<links, flows>> /\ WebOnly

loginRestart(r, l) ==
  /\ requests[r].pc = "idle" /\ validLoginToken(l)
  /\ requests' = [requests EXCEPT ![r] = [pc |-> "restart", link |-> l, flow |-> 0]]
  /\ UNCHANGED <<links, flowOf, flows>> /\ WebOnly

startRecord(r) ==
  LET l == requests[r].link
      current == flowOf[l]
      new == {f \in Flows : flows[f].pc = "none"}
      cancelled == IF current = 0 \/ flows[current].ctx # "live" THEN flows
                   ELSE [flows EXCEPT ![current].ctx = "cancelled"]
  IN  /\ requests[r].pc \in {"start", "restart"}
      /\ requests' = [requests EXCEPT ![r] = Idle]
      /\ IF current # 0 /\ requests[r].pc = "start" THEN UNCHANGED <<flowOf, flows>>
         ELSE /\ new # {}
              /\ flowOf' = [flowOf EXCEPT ![l] = First(new)]
              /\ flows' = [cancelled EXCEPT ![First(new)] = [NoFlow EXCEPT !.pc = "login", !.link = l]]
      /\ UNCHANGED links /\ WebOnly

(* submit looks at the phase, sends without waiting and sets the phase, in *)
(* three steps.                                                            *)
loginSubmit(r, l) ==
  /\ requests[r].pc = "idle" /\ flowOf' = Kept /\ Kept[l] # 0
  /\ flows[Kept[l]].phase = "prompt"
  /\ requests' = [requests EXCEPT ![r] = [pc |-> "send", link |-> l, flow |-> Kept[l]]]
  /\ UNCHANGED <<links, flows>> /\ WebOnly

submit(r) ==
  LET f == requests[r].flow
  IN  /\ requests[r].pc = "send"
      /\ IF flows[f].input THEN requests' = [requests EXCEPT ![r] = Idle] /\ UNCHANGED flows
         ELSE /\ requests' = [requests EXCEPT ![r].pc = "checking"]
              /\ flows' = [flows EXCEPT ![f].input = TRUE]
      /\ UNCHANGED <<links, flowOf>> /\ WebOnly

setChecking(r) ==
  /\ requests[r].pc = "checking" /\ requests' = [requests EXCEPT ![r] = Idle]
  /\ flows' = [flows EXCEPT ![requests[r].flow].phase = "starting"]
  /\ UNCHANGED <<links, flowOf>> /\ WebOnly

Expires(l) ==
  /\ links[l] = "valid" /\ links' = [links EXCEPT ![l] = "expired"]
  /\ UNCHANGED <<webVars, flows>> /\ WebOnly

Answers(r) == startRecord(r) \/ submit(r) \/ setChecking(r)
Page ==
  \/ \E r \in Requests : \/ Answers(r)
                         \/ \E l \in Links : loginPage(r, l) \/ loginRestart(r, l) \/ loginSubmit(r, l)
  \/ \E l \in Links : Expires(l)

(***************************************************************************)
(* A login with Telegram.                                                  *)
(***************************************************************************)
FlowOnly == UNCHANGED <<botVars, links, webVars>>
Goes(f, pc) == flows' = [flows EXCEPT ![f].pc = pc]
Fails(f) == flows' = [flows EXCEPT ![f].pc = "leave", ![f].ok = FALSE]

(* Ten minutes after it has begun, whether it is still under way or has ended: *)
(* its context is cancelled, and the next look at the table drops it.      *)
Ages(f) ==
  /\ flows[f].pc # "none" /\ flows[f].ctx = "live"
  /\ flows' = [flows EXCEPT ![f].ctx = "old"]
  /\ UNCHANGED <<used, busy, account, faults>> /\ FlowOnly

(* An account that is connected needs no login; one whose session is       *)
(* stored may still not be connected.                                      *)
NeverBusy == FALSE
InProgress == busy
beginLogin(f) ==
  /\ flows[f].pc = "login"
  /\ \/ account # "none" /\ UNCHANGED busy
        /\ flows' = [flows EXCEPT ![f].pc = "mark", ![f].ok = TRUE]
     \/ InProgress /\ Goes(f, "finish") /\ UNCHANGED busy
     \/ ~InProgress /\ Goes(f, "send") /\ busy' = TRUE
  /\ UNCHANGED <<used, account, faults>> /\ FlowOnly

(* The code is sent, or not. *)
SendCode(f) ==
  /\ flows[f].pc = "send" /\ (Goes(f, "ask") \/ Fails(f))
  /\ UNCHANGED <<used, busy, account, faults>> /\ FlowOnly

prompt(f) ==
  /\ \/ flows[f].pc = "ask"
        /\ flows' = [flows EXCEPT ![f].pc = "wait", ![f].phase = "prompt"]
     \/ flows[f].pc = "wait" /\ flows[f].input
        /\ flows' = [flows EXCEPT ![f].pc = "taken", ![f].input = FALSE]
     \/ flows[f].pc = "taken"
        /\ flows' = [flows EXCEPT ![f].pc = "sign", ![f].phase = "starting"]
  /\ UNCHANGED <<used, busy, account, faults>> /\ FlowOnly

(* A wrong code or password ends the flow. *)
SignIn(f) ==
  /\ flows[f].pc = "sign"
  /\ \/ Fails(f) \/ Goes(f, "status")
     \/ flows[f].kind = "code"
        /\ flows' = [flows EXCEPT ![f].pc = "ask", ![f].kind = "password"]
  /\ UNCHANGED <<used, busy, account, faults>> /\ FlowOnly

GivesUpCalls(f) ==
  /\ flows[f].pc \in {"send", "sign", "status", "replace"} /\ flows[f].ctx # "live"
  /\ Fails(f)
  /\ UNCHANGED <<used, busy, account, faults>> /\ FlowOnly

(* The prompt and every call give up when the context of the flow ends. *)
GivesUp(f) ==
  /\ flows[f].pc \in {"send", "wait", "sign", "status", "replace"} /\ flows[f].ctx # "live"
  /\ Fails(f)
  /\ UNCHANGED <<used, busy, account, faults>> /\ FlowOnly

(* The number may by now belong to someone else. *)
IsOwner(who) == who = "own"
Status(f) ==
  /\ flows[f].pc = "status"
  /\ \E who \in {"own", "other"} :
       IF IsOwner(who) THEN flows' = [flows EXCEPT ![f].pc = "replace", ![f].kind = who] ELSE Fails(f)
  /\ UNCHANGED <<used, busy, account, faults>> /\ FlowOnly

replaceSession(f) ==
  /\ flows[f].pc = "replace"
  /\ \/ account' = flows[f].kind /\ flows' = [flows EXCEPT ![f].pc = "leave", ![f].ok = TRUE]
        /\ UNCHANGED faults
     \/ Fault /\ Fails(f) /\ UNCHANGED account
  /\ UNCHANGED <<used, busy>> /\ FlowOnly

(* Login returns, whatever has happened. *)
done(f) ==
  /\ flows[f].pc = "leave" /\ busy' = FALSE
  /\ Goes(f, IF flows[f].ok THEN "mark" ELSE "finish")
  /\ UNCHANGED <<used, account, faults>> /\ FlowOnly

MarkLoginTokenUsed(f) ==
  /\ flows[f].pc = "mark"
  /\ \/ used' = used \cup {flows[f].link} /\ Goes(f, "finish") /\ UNCHANGED faults
     \/ Fault /\ flows' = [flows EXCEPT ![f].pc = "finish", ![f].ok = FALSE] /\ UNCHANGED used
  /\ UNCHANGED <<busy, account>> /\ FlowOnly

finish(f) ==
  /\ flows[f].pc = "finish"
  /\ flows' = [flows EXCEPT ![f].pc = "end",
                            ![f].phase = IF flows[f].ok THEN "authorized" ELSE "error"]
  /\ UNCHANGED <<used, busy, account, faults>> /\ FlowOnly

run(f) ==
  \/ beginLogin(f) \/ SendCode(f) \/ prompt(f) \/ SignIn(f) \/ GivesUp(f) \/ Status(f)
  \/ replaceSession(f) \/ done(f) \/ MarkLoginTokenUsed(f) \/ finish(f)

(* /logout *)
Logout ==
  /\ account # "none" /\ account' = "none"
  /\ UNCHANGED <<botVars, links, used, webVars, flows, busy, faults>>

(* The tables are all that is left. *)
Crash ==
  /\ Fault
  /\ chat' = 0 /\ bot' = [pc |-> "idle", session |-> 0]
  /\ timers' = [s \in Sessions |-> "off"]
  /\ flowOf' = [l \in Links |-> 0] /\ requests' = [r \in Requests |-> Idle] /\ busy' = FALSE
  /\ flows' = [f \in Flows |-> IF flows[f].pc = "none" THEN NoFlow ELSE [flows[f] EXCEPT !.pc = "end"]]
  /\ UNCHANGED <<phone, links, used, account>>

Next == Chat \/ Page \/ (\E f \in Flows : run(f) \/ Ages(f)) \/ Logout \/ Crash

Spec == Init /\ [][Next]_vars
FairSpec ==
  /\ Spec
  /\ \A f \in Flows : WF_vars(run(f)) /\ WF_vars(Ages(f))

(***************************************************************************)
(* Properties.                                                             *)
(***************************************************************************)
Pcs == {"none", "login", "send", "ask", "wait", "taken", "sign", "status", "replace", "leave",
        "mark", "finish", "end"}
TypeOK ==
  /\ chat \in Sessions \cup {0} /\ phone \in BOOLEAN
  /\ timers \in [Sessions -> {"running", "fired", "off"}]
  /\ bot \in [pc : {"idle", "save", "remove"}, session : Sessions \cup {0}]
  /\ links \in [Links -> {"unused", "valid", "expired", "gone"}] /\ used \subseteq Links
  /\ flowOf \in [Links -> Flows \cup {0}] /\ busy \in BOOLEAN
  /\ flows \in [Flows -> [pc : Pcs, link : Links \cup {0},
                          phase : {"starting", "prompt", "authorized", "error"},
                          kind : {"code", "password", "own", "other"}, input : BOOLEAN,
                          ctx : {"live", "cancelled", "old"}, ok : BOOLEAN]]
  /\ requests \in [Requests -> [pc : {"idle", "start", "restart", "send", "checking"},
                                link : Links \cup {0}, flow : Flows \cup {0}]]
  /\ account \in {"none", "own"} /\ faults \in 0..MaxFaults
  (* an open question is one that will expire *)
  /\ chat # 0 => timers[chat] \in {"running", "fired"}

(* One code at a time: whatever is restarted, cancelled, timed out or      *)
(* started from a second link, at most one login of an owner talks to      *)
(* Telegram, and its end always lets the next one begin.                   *)
OneLogin ==
  Cardinality({f \in Flows : flows[f].pc \in
                {"send", "ask", "wait", "taken", "sign", "status", "replace", "leave"}})
    = IF busy THEN 1 ELSE 0

(* A question for the number stays open until it is answered or cancelled, *)
(* or its own ten minutes are over: the timer of an earlier one never      *)
(* closes it.                                                              *)
OwnTimeOnly ==
  [][\A s \in Sessions : chat = s /\ chat' # s => timers[s] = "fired" \/ timers'[s] = "off"]_vars

(* Every login that a page has started ends, so that the next one of its   *)
(* owner can begin, even when nobody answers the page, it is restarted, or *)
(* a value was sent that no prompt takes.                                  *)
EventuallyEnds ==
  \A f \in Flows : flows[f].pc # "none" ~> flows[f].pc = "end"
==============================================================================
