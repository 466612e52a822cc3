----------------------------- MODULE LoginProofs -----------------------------
(* Proofs about Login, for every value of its constants.                   *)
EXTENDS Login, FiniteSetTheorems, WellFoundedInduction, TLAPS

AtTelegram == {"send", "ask", "wait", "taken", "sign", "status", "replace", "leave"}

(* Whoever holds the slot of the owner is the one login that is with       *)
(* Telegram, and a login about to store a session signed in as the owner.  *)
SlotHeld ==
  /\ busy => \E f \in Flows : flows[f].pc \in AtTelegram
  /\ \A f \in Flows : flows[f].pc \in AtTelegram =>
       busy /\ \A g \in Flows : flows[g].pc \in AtTelegram => g = f
OwnSession == \A f \in Flows : flows[f].pc = "replace" => flows[f].kind = "own"

(* A login belongs to the link it was started from.                        *)
Placed ==
  /\ \A f \in Flows : flows[f].pc # "none" => flows[f].link \in Links
  /\ \A r \in Requests : requests[r].pc # "idle" => requests[r].link \in Links

LoginInv == TypeOK /\ SlotHeld /\ OwnSession /\ Placed

FlowStates == [pc : Pcs, link : Links \cup {0},
               phase : {"starting", "prompt", "authorized", "error"},
               kind : {"code", "password", "own", "other"}, input : BOOLEAN,
               ctx : {"live", "cancelled", "old"}, ok : BOOLEAN]
LinkStates == {"unused", "valid", "expired", "gone"}

-----------------------------------------------------------------------------
(* A set of numbers that is not empty has a first one.                     *)
LEMMA FirstIn ==
  ASSUME NEW S, S \subseteq Nat, S # {}
  PROVE  First(S) \in S
<1> DEFINE R == {ss \in Nat \X Nat : ss[1] < ss[2]}
<1>1. IsWellFoundedOn(R, Nat)
  BY NatLessThanWellFounded, Zenon DEF OpToRel
<1>2. \A j, i \in Nat : j < i => <<j, i>> \in R
  OBVIOUS
<1> HIDE DEF R
<1>3. PICK i \in S : \A j \in S : ~ (<<j, i>> \in R)
  BY <1>1, WFMin, Zenon
<1>4. \A j \in S : ~ (j < i)
  BY <1>2, <1>3, Zenon
<1>5. \A j \in S : i <= j
  BY <1>4
<1> QED
  BY <1>5 DEF First

-----------------------------------------------------------------------------
(* Types.                                                                  *)

LEMMA TypeInit == Init => TypeOK
<1> SUFFICES ASSUME Init PROVE TypeOK
  OBVIOUS
<1>1. NoFlow \in [pc : Pcs, link : Links \cup {0},
                  phase : {"starting", "prompt", "authorized", "error"},
                  kind : {"code", "password", "own", "other"}, input : BOOLEAN,
                  ctx : {"live", "cancelled", "old"}, ok : BOOLEAN]
  BY DEF NoFlow, Pcs
<1>2. Idle \in [pc : {"idle", "start", "restart", "send", "checking"},
                link : Links \cup {0}, flow : Flows \cup {0}]
  BY DEF Idle
<1>3. bot \in [pc : {"idle", "save", "remove"}, session : Sessions \cup {0}]
  BY DEF Init
<1>4. /\ chat \in Sessions \cup {0} /\ phone \in BOOLEAN /\ chat = 0
      /\ timers \in [Sessions -> {"running", "fired", "off"}]
  BY DEF Init
<1>5. /\ links \in [Links -> LinkStates] /\ used \subseteq Links
      /\ flowOf \in [Links -> Flows \cup {0}] /\ busy \in BOOLEAN
      /\ account \in {"none", "own"}
  BY DEF Init, LinkStates
<1>6. faults \in 0..MaxFaults
  BY LoginAssumption DEF Init
<1>7. /\ flows = [f \in Flows |-> NoFlow] /\ requests = [r \in Requests |-> Idle]
  BY DEF Init
<1> QED
  BY <1>1, <1>2, <1>3, <1>4, <1>5, <1>6, <1>7 DEF TypeOK, LinkStates

LEMMA TokenType ==
  ASSUME TypeOK, CreateLoginToken
  PROVE  links' \in [Links -> LinkStates] /\ faults' \in 0..MaxFaults
<1>1. links \in [Links -> LinkStates] /\ faults \in 0..MaxFaults
  BY DEF TypeOK, LinkStates
<1>2. CASE Fault /\ UNCHANGED links
  BY <1>1, <1>2, LoginAssumption DEF Fault
<1>3. CASE ~ (Fault /\ UNCHANGED links)
  <2>1. UNCHANGED faults
    BY <1>3 DEF CreateLoginToken
  <2>2. links' = [l \in Links |-> IF l = First({k \in Links : links[k] = "unused"}) THEN "valid"
                                 ELSE IF links[l] = "expired" \/ l \in used THEN "gone"
                                 ELSE links[l]]
    BY <1>3 DEF CreateLoginToken
  <2>3. links' \in [Links -> LinkStates]
    BY <1>1, <2>2 DEF LinkStates
  <2> QED
    BY <1>1, <2>1, <2>3
<1> QED
  BY <1>2, <1>3

LEMMA CancelType ==
  ASSUME TypeOK, NEW s
  PROVE  /\ cancel(s) \in [Sessions -> {"running", "fired", "off"}]
         /\ \A t \in Sessions \ {s} : cancel(s)[t] = timers[t]
         /\ s \in Sessions => cancel(s)[s] \in {"off", "fired"}
BY DEF TypeOK, cancel

LEMMA ChatType ==
  ASSUME TypeOK, Chat
  PROVE  TypeOK'
<1> USE DEF TypeOK, BotOnly, webVars, LinkStates
<1>0. faults \in Nat /\ MaxFaults \in Nat /\ 0 \notin Sessions
  BY LoginAssumption
<1>1. CASE Start
  <2>1. links' \in [Links -> LinkStates] /\ faults' \in 0..MaxFaults
    BY <1>1, TokenType DEF Start
  <2>2. /\ chat' \in Sessions \cup {0} /\ timers' \in [Sessions -> {"running", "fired", "off"}]
        /\ chat' # 0 => timers'[chat'] \in {"running", "fired"}
    BY <1>0, <1>1 DEF Start
  <2> QED
    BY <1>1, <2>1, <2>2 DEF Start
<1>2. CASE handleContact
  BY <1>2 DEF handleContact
<1>3. CASE SaveLoginPhone
  <2>1. phone' \in BOOLEAN
    BY <1>3, Zenon DEF SaveLoginPhone
  <2>3. faults' \in 0..MaxFaults
    BY <1>0, <1>3 DEF SaveLoginPhone, Fault
  <2>2. bot' \in [pc : {"idle", "save", "remove"}, session : Sessions \cup {0}]
    <3>1. bot' = [bot EXCEPT !.pc = "remove"] \/ bot' = [pc |-> "idle", session |-> 0]
      BY <1>3 DEF SaveLoginPhone
    <3> QED
      BY <3>1
  <2> QED
    BY <1>3, <2>1, <2>2, <2>3 DEF SaveLoginPhone
<1>4. CASE finishPhone
  <2>1. links' \in [Links -> LinkStates] /\ faults' \in 0..MaxFaults
    BY <1>4, TokenType DEF finishPhone
  <2>2. /\ chat' \in Sessions \cup {0} /\ timers' \in [Sessions -> {"running", "fired", "off"}]
        /\ chat' # 0 => timers'[chat'] \in {"running", "fired"}
    BY <1>0, <1>4, CancelType DEF finishPhone
  <2>3. bot' \in [pc : {"idle", "save", "remove"}, session : Sessions \cup {0}]
    BY <1>4 DEF finishPhone
  <2> QED
    BY <1>4, <2>1, <2>2, <2>3 DEF finishPhone
<1>5. CASE Cancel
  <2>1. chat' = 0 /\ timers' \in [Sessions -> {"running", "fired", "off"}]
    BY <1>5, CancelType DEF Cancel
  <2> QED
    BY <1>5, <2>1 DEF Cancel
<1>6. ASSUME NEW s \in Sessions, Fires(s)
      PROVE  TypeOK'
  BY <1>6 DEF Fires
<1>7. ASSUME NEW s \in Sessions, expirePhonePrompt(s)
      PROVE  TypeOK'
  BY <1>7 DEF expirePhonePrompt, IsCurrent
<1> QED
  BY <1>1, <1>2, <1>3, <1>4, <1>5, <1>6, <1>7 DEF Chat

(* Writing one field of a flow keeps the type of the flows.                *)
LEMMA FieldType ==
  ASSUME flows \in [Flows -> FlowStates], NEW f
  PROVE  /\ [flows EXCEPT ![f].ctx = "cancelled"] \in [Flows -> FlowStates]
         /\ [flows EXCEPT ![f].input = TRUE] \in [Flows -> FlowStates]
         /\ [flows EXCEPT ![f].phase = "starting"] \in [Flows -> FlowStates]
<1>1. CASE f \in Flows
  <2>1. flows[f] \in FlowStates
    BY <1>1
  <2>2. /\ [flows[f] EXCEPT !.ctx = "cancelled"] \in FlowStates
        /\ [flows[f] EXCEPT !.input = TRUE] \in FlowStates
        /\ [flows[f] EXCEPT !.phase = "starting"] \in FlowStates
    BY <2>1 DEF FlowStates
  <2> QED
    BY <1>1, <2>2
<1>2. CASE f \notin Flows
  BY <1>2
<1> QED
  BY <1>1, <1>2

(* A request to start cancels the login it takes over from, and starts one *)
(* that no page has started yet.                                           *)
Starts(f, l) == flows[f].pc = "none" /\ flows'[f].pc = "login" /\ flows'[f].link = l
SamePlace(f) ==
  flows'[f].pc = flows[f].pc /\ flows'[f].kind = flows[f].kind /\ flows'[f].link = flows[f].link

LEMMA StartRecordSteps ==
  ASSUME TypeOK, NEW r \in Requests, startRecord(r)
  PROVE  /\ flowOf' \in [Links -> Flows \cup {0}] /\ flows' \in [Flows -> FlowStates]
         /\ \A f \in Flows : SamePlace(f) \/ Starts(f, requests[r].link)
<1> DEFINE l == requests[r].link
           current == flowOf[l]
           new == {f \in Flows : flows[f].pc = "none"}
           cancelled == IF current = 0 \/ flows[current].ctx # "live" THEN flows
                        ELSE [flows EXCEPT ![current].ctx = "cancelled"]
<1>1. flows \in [Flows -> FlowStates] /\ flowOf \in [Links -> Flows \cup {0}]
  BY DEF TypeOK, FlowStates
<1>2. CASE UNCHANGED <<flowOf, flows>>
  BY <1>1, <1>2 DEF SamePlace
<1>3. CASE /\ new # {} /\ flowOf' = [flowOf EXCEPT ![l] = First(new)]
           /\ flows' = [cancelled EXCEPT
                          ![First(new)] = [NoFlow EXCEPT !.pc = "login", !.link = l]]
  <2>1. First(new) \in new
    BY <1>3, FirstIn, LoginAssumption
  <2>2. cancelled \in [Flows -> FlowStates]
    BY <1>1, FieldType
  <2>3. l \in Links \cup {0}
    BY DEF TypeOK
  <2>4. [NoFlow EXCEPT !.pc = "login", !.link = l] \in FlowStates
    BY <2>3 DEF NoFlow, FlowStates, Pcs
  <2>5. First(new) \in Flows /\ flows[First(new)].pc = "none"
    BY <2>1
  <2>6. [NoFlow EXCEPT !.pc = "login", !.link = l].pc = "login"
        /\ [NoFlow EXCEPT !.pc = "login", !.link = l].link = l
    BY DEF NoFlow
  <2>7. \A f \in Flows : /\ cancelled[f].pc = flows[f].pc /\ cancelled[f].kind = flows[f].kind
                          /\ cancelled[f].link = flows[f].link
    BY <1>1 DEF FlowStates
  <2> DEFINE begun == [NoFlow EXCEPT !.pc = "login", !.link = l]
  <2> HIDE DEF new, cancelled, l, begun
  <2>8. /\ flowOf' \in [Links -> Flows \cup {0}] /\ flows' \in [Flows -> FlowStates]
        /\ flows'[First(new)] = begun /\ \A f \in Flows \ {First(new)} : flows'[f] = cancelled[f]
    BY <1>1, <1>3, <2>2, <2>4, <2>5 DEF begun
  <2>9. \A f \in Flows : SamePlace(f) \/ Starts(f, l)
    BY <2>5, <2>6, <2>7, <2>8 DEF SamePlace, Starts, begun
  <2> QED
    BY <2>8, <2>9 DEF l
<1> QED
  BY <1>2, <1>3 DEF startRecord

LEMMA PageType ==
  ASSUME TypeOK, Page
  PROVE  TypeOK'
<1> USE DEF WebOnly, botVars
<1>1. flows \in [Flows -> FlowStates] /\ Kept \in [Links -> Flows \cup {0}]
      /\ Idle \in [pc : {"idle", "start", "restart", "send", "checking"},
                   link : Links \cup {0}, flow : Flows \cup {0}]
  BY DEF TypeOK, FlowStates, Kept, Idle
<1>2. ASSUME NEW r \in Requests, startRecord(r)
      PROVE  TypeOK'
  <2>1. requests' \in [Requests -> [pc : {"idle", "start", "restart", "send", "checking"},
                                    link : Links \cup {0}, flow : Flows \cup {0}]]
    BY <1>1, <1>2 DEF TypeOK, startRecord
  <2>2. UNCHANGED <<chat, timers, bot, phone, links, used, busy, account, faults>>
    BY <1>2 DEF startRecord
  <2> QED
    BY <1>2, <2>1, <2>2, StartRecordSteps DEF TypeOK, FlowStates
<1>3. ASSUME NEW r \in Requests, submit(r)
      PROVE  TypeOK'
  <2>1. flows' \in [Flows -> FlowStates]
    <3>1. UNCHANGED flows \/ flows' = [flows EXCEPT ![requests[r].flow].input = TRUE]
      BY <1>3 DEF submit
    <3>2. [flows EXCEPT ![requests[r].flow].input = TRUE] \in [Flows -> FlowStates]
      BY <1>1, FieldType
    <3> QED
      BY <1>1, <3>1, <3>2
  <2>2. requests' \in [Requests -> [pc : {"idle", "start", "restart", "send", "checking"},
                                    link : Links \cup {0}, flow : Flows \cup {0}]]
    <3> DEFINE R == [pc : {"idle", "start", "restart", "send", "checking"},
                     link : Links \cup {0}, flow : Flows \cup {0}]
    <3>1. requests \in [Requests -> R] /\ requests[r] \in R /\ Idle \in R
      BY <1>1 DEF TypeOK
    <3>2. [requests[r] EXCEPT !.pc = "checking"] \in R
      BY <3>1
    <3>3. \/ requests' = [requests EXCEPT ![r] = Idle]
          \/ requests' = [requests EXCEPT ![r] = [requests[r] EXCEPT !.pc = "checking"]]
      BY <1>3 DEF submit
    <3> HIDE DEF R
    <3>4. requests' \in [Requests -> R]
      BY <3>1, <3>2, <3>3
    <3> QED
      BY <3>4 DEF R
  <2> QED
    BY <1>3, <2>1, <2>2 DEF TypeOK, submit, FlowStates
<1>4. ASSUME NEW r \in Requests, setChecking(r)
      PROVE  TypeOK'
  <2>1. flows' \in [Flows -> FlowStates]
    BY <1>1, <1>4, FieldType DEF setChecking
  <2>2. requests' \in [Requests -> [pc : {"idle", "start", "restart", "send", "checking"},
                                    link : Links \cup {0}, flow : Flows \cup {0}]]
    BY <1>1, <1>4 DEF TypeOK, setChecking
  <2> QED
    BY <1>4, <2>1, <2>2 DEF TypeOK, setChecking, FlowStates
<1>5. ASSUME NEW r \in Requests, NEW l \in Links,
             loginPage(r, l) \/ loginRestart(r, l) \/ loginSubmit(r, l)
      PROVE  TypeOK'
  <2>1. flowOf' \in [Links -> Flows \cup {0}]
    BY <1>1, <1>5 DEF TypeOK, loginPage, loginRestart, loginSubmit
  <2>2. requests' \in [Requests -> [pc : {"idle", "start", "restart", "send", "checking"},
                                    link : Links \cup {0}, flow : Flows \cup {0}]]
    BY <1>1, <1>5 DEF TypeOK, loginPage, loginRestart, loginSubmit
  <2>3. UNCHANGED <<chat, timers, bot, phone, links, flows, used, busy, account, faults>>
    BY <1>5 DEF loginPage, loginRestart, loginSubmit
  <2> QED
    BY <2>1, <2>2, <2>3 DEF TypeOK
<1>6. ASSUME NEW l \in Links, Expires(l)
      PROVE  TypeOK'
  BY <1>6 DEF TypeOK, Expires, webVars
<1> QED
  BY <1>2, <1>3, <1>4, <1>5, <1>6 DEF Page, Answers

-----------------------------------------------------------------------------
(* The steps of one login.                                                 *)

(* What a step of the login f may do to its state, the slot and the rest.  *)
Takes(f, s) ==
  /\ s \in FlowStates /\ flows' = [flows EXCEPT ![f] = s]
  /\ flows[f].pc # "none" /\ s.pc # "none" /\ s.link = flows[f].link
  /\ \/ busy' = busy /\ (s.pc \in AtTelegram <=> flows[f].pc \in AtTelegram)
     \/ ~busy /\ busy' = TRUE /\ s.pc \in AtTelegram
     \/ busy' = FALSE /\ flows[f].pc \in AtTelegram /\ s.pc \notin AtTelegram
  /\ s.pc = "replace" => s.kind = "own"
  /\ used' \subseteq used \cup {s.link} /\ account' \in {account, "own"}
  /\ UNCHANGED faults \/ Fault

LEMMA FlowSteps ==
  ASSUME TypeOK, OwnSession, NEW f \in Flows, run(f) \/ Ages(f)
  PROVE  \E s \in FlowStates : Takes(f, s)
<1> DEFINE To(pc) == [flows[f] EXCEPT !.pc = pc]
           Failed == [flows[f] EXCEPT !.pc = "leave", !.ok = FALSE]
<1>1. /\ flows \in [Flows -> FlowStates] /\ flows[f] \in FlowStates /\ busy \in BOOLEAN
      /\ flows[f].pc = "replace" => flows[f].kind = "own"
  BY DEF TypeOK, FlowStates, OwnSession
<1>2. \A pc \in Pcs : To(pc) \in FlowStates /\ To(pc).pc = pc /\ To(pc).link = flows[f].link
  BY <1>1 DEF FlowStates
<1>3. Failed \in FlowStates /\ Failed.pc = "leave" /\ Failed.link = flows[f].link
  BY <1>1 DEF FlowStates, Pcs
<1>4. CASE Ages(f)
  <2> DEFINE s == [flows[f] EXCEPT !.ctx = "old"]
  <2>1. s \in FlowStates /\ s.pc = flows[f].pc /\ s.kind = flows[f].kind
        /\ s.link = flows[f].link
    BY <1>1 DEF FlowStates
  <2>2. /\ flows[f].pc # "none" /\ UNCHANGED <<used, busy, account, faults>>
        /\ flows' = [flows EXCEPT ![f] = s]
    BY <1>1, <1>4 DEF Ages
  <2> HIDE DEF s
  <2>3. Takes(f, s)
    BY <1>1, <2>1, <2>2 DEF Takes
  <2> QED
    BY <2>1, <2>3
<1>5. CASE beginLogin(f)
  <2> DEFINE s == [flows[f] EXCEPT !.pc = "mark", !.ok = TRUE]
  <2>1. s \in FlowStates /\ s.pc = "mark" /\ s.link = flows[f].link
    BY <1>1 DEF FlowStates, Pcs
  <2>2. flows[f].pc = "login" /\ UNCHANGED <<used, account, faults>>
    BY <1>5 DEF beginLogin
  <2>3. \/ flows' = [flows EXCEPT ![f] = s] /\ busy' = busy
        \/ flows' = [flows EXCEPT ![f] = To("finish")] /\ busy' = busy
        \/ flows' = [flows EXCEPT ![f] = To("send")] /\ ~busy /\ busy' = TRUE
    BY <1>1, <1>5 DEF beginLogin, Goes, InProgress
  <2>4. /\ To("finish") \in FlowStates /\ To("finish").pc = "finish" /\ To("finish").link = flows[f].link
        /\ To("send") \in FlowStates /\ To("send").pc = "send" /\ To("send").link = flows[f].link
    BY <1>2 DEF Pcs
  <2> HIDE DEF s, To
  <2>5. Takes(f, s) \/ Takes(f, To("finish")) \/ Takes(f, To("send"))
    BY <1>1, <2>1, <2>2, <2>3, <2>4 DEF Takes, AtTelegram
  <2> QED
    BY <2>1, <2>4, <2>5
<1>6. CASE SendCode(f)
  <2>1. flows[f].pc = "send" /\ UNCHANGED <<used, busy, account, faults>>
    BY <1>6 DEF SendCode
  <2>2. flows' = [flows EXCEPT ![f] = To("ask")] \/ flows' = [flows EXCEPT ![f] = Failed]
    BY <1>1, <1>6 DEF SendCode, Goes, Fails
  <2>3. To("ask") \in FlowStates /\ To("ask").pc = "ask" /\ To("ask").link = flows[f].link
    BY <1>2 DEF Pcs
  <2> HIDE DEF To, Failed
  <2>4. Takes(f, To("ask")) \/ Takes(f, Failed)
    BY <1>1, <1>3, <2>1, <2>2, <2>3 DEF Takes, AtTelegram
  <2> QED
    BY <1>3, <2>3, <2>4
<1>7. CASE prompt(f)
  <2> DEFINE asked == [flows[f] EXCEPT !.pc = "wait", !.phase = "prompt"]
             taken == [flows[f] EXCEPT !.pc = "taken", !.input = FALSE]
             signs == [flows[f] EXCEPT !.pc = "sign", !.phase = "starting"]
  <2>1. /\ asked \in FlowStates /\ asked.pc = "wait" /\ asked.link = flows[f].link
        /\ taken \in FlowStates /\ taken.pc = "taken" /\ taken.link = flows[f].link
        /\ signs \in FlowStates /\ signs.pc = "sign" /\ signs.link = flows[f].link
    BY <1>1 DEF FlowStates, Pcs
  <2>2. flows[f].pc \in {"ask", "wait", "taken"} /\ UNCHANGED <<used, busy, account, faults>>
    BY <1>7 DEF prompt
  <2>3. \E s \in {asked, taken, signs} : flows' = [flows EXCEPT ![f] = s]
    BY <1>1, <1>7 DEF prompt
  <2> HIDE DEF asked, taken, signs
  <2>4. \E s \in {asked, taken, signs} : Takes(f, s)
    BY <1>1, <2>1, <2>2, <2>3 DEF Takes, AtTelegram
  <2> QED
    BY <2>1, <2>4
<1>8. CASE SignIn(f)
  <2> DEFINE s == [flows[f] EXCEPT !.pc = "ask", !.kind = "password"]
  <2>1. s \in FlowStates /\ s.pc = "ask" /\ s.link = flows[f].link
    BY <1>1 DEF FlowStates, Pcs
  <2>2. flows[f].pc = "sign" /\ UNCHANGED <<used, busy, account, faults>>
    BY <1>8 DEF SignIn
  <2>3. \E t \in {s, Failed, To("status")} : flows' = [flows EXCEPT ![f] = t]
    BY <1>1, <1>8 DEF SignIn, Goes, Fails
  <2>4. To("status") \in FlowStates /\ To("status").pc = "status" /\ To("status").link = flows[f].link
    BY <1>2 DEF Pcs
  <2> HIDE DEF s, Failed, To
  <2>5. \E t \in {s, Failed, To("status")} : Takes(f, t)
    BY <1>1, <1>3, <2>1, <2>2, <2>3, <2>4 DEF Takes, AtTelegram
  <2> QED
    BY <1>3, <2>1, <2>4, <2>5
<1>9. CASE GivesUp(f)
  <2>1. /\ flows[f].pc \in AtTelegram /\ flows' = [flows EXCEPT ![f] = Failed]
        /\ UNCHANGED <<used, busy, account, faults>>
    BY <1>1, <1>9 DEF GivesUp, Fails, AtTelegram
  <2> HIDE DEF Failed
  <2>2. Takes(f, Failed)
    BY <1>1, <1>3, <2>1 DEF Takes, AtTelegram
  <2> QED
    BY <1>3, <2>2
<1>10. CASE Status(f)
  <2> DEFINE s == [flows[f] EXCEPT !.pc = "replace", !.kind = "own"]
  <2>1. s \in FlowStates /\ s.pc = "replace" /\ s.kind = "own" /\ s.link = flows[f].link
    BY <1>1 DEF FlowStates, Pcs
  <2>2. flows[f].pc = "status" /\ UNCHANGED <<used, busy, account, faults>>
    BY <1>10 DEF Status
  <2>3. flows' = [flows EXCEPT ![f] = s] \/ flows' = [flows EXCEPT ![f] = Failed]
    BY <1>1, <1>10 DEF Status, IsOwner, Fails
  <2> HIDE DEF s, Failed
  <2>4. Takes(f, s) \/ Takes(f, Failed)
    BY <1>1, <1>3, <2>1, <2>2, <2>3 DEF Takes, AtTelegram
  <2> QED
    BY <1>3, <2>1, <2>4
<1>11. CASE replaceSession(f)
  <2> DEFINE s == [flows[f] EXCEPT !.pc = "leave", !.ok = TRUE]
  <2>1. s \in FlowStates /\ s.pc = "leave" /\ s.link = flows[f].link
    BY <1>1 DEF FlowStates, Pcs
  <2>2. flows[f].pc = "replace" /\ UNCHANGED <<used, busy>>
    BY <1>11 DEF replaceSession
  <2>3. \/ account' = flows[f].kind /\ flows' = [flows EXCEPT ![f] = s] /\ UNCHANGED faults
        \/ Fault /\ flows' = [flows EXCEPT ![f] = Failed] /\ UNCHANGED account
    BY <1>1, <1>11 DEF replaceSession, Fails
  <2> HIDE DEF s, Failed
  <2>4. Takes(f, s) \/ Takes(f, Failed)
    BY <1>1, <1>3, <2>1, <2>2, <2>3 DEF Takes, AtTelegram
  <2> QED
    BY <1>3, <2>1, <2>4
<1>12. CASE done(f)
  <2>1. /\ flows[f].pc = "leave" /\ busy' = FALSE /\ UNCHANGED <<used, account, faults>>
        /\ \E pc \in {"mark", "finish"} : flows' = [flows EXCEPT ![f] = To(pc)]
    BY <1>1, <1>12 DEF done, Goes
  <2>2. \A pc \in {"mark", "finish"} : To(pc) \in FlowStates /\ To(pc).pc = pc /\ To(pc).link = flows[f].link
    BY <1>2 DEF Pcs
  <2> HIDE DEF To
  <2>3. \E pc \in {"mark", "finish"} : Takes(f, To(pc))
    BY <1>1, <2>1, <2>2 DEF Takes, AtTelegram
  <2> QED
    BY <2>2, <2>3
<1>13. CASE MarkLoginTokenUsed(f)
  <2> DEFINE s == [flows[f] EXCEPT !.pc = "finish", !.ok = FALSE]
  <2>1. s \in FlowStates /\ s.pc = "finish" /\ s.link = flows[f].link
    BY <1>1 DEF FlowStates, Pcs
  <2>2. To("finish") \in FlowStates /\ To("finish").pc = "finish" /\ To("finish").link = flows[f].link
    BY <1>1, <1>2 DEF Pcs, FlowStates
  <2>3. flows[f].pc = "mark" /\ UNCHANGED <<busy, account>>
    BY <1>13 DEF MarkLoginTokenUsed
  <2>4. \/ /\ used' = used \cup {flows[f].link} /\ UNCHANGED faults
           /\ flows' = [flows EXCEPT ![f] = To("finish")]
        \/ Fault /\ flows' = [flows EXCEPT ![f] = s] /\ UNCHANGED used
    BY <1>1, <1>13 DEF MarkLoginTokenUsed, Goes
  <2> HIDE DEF s, To
  <2>5. Takes(f, s) \/ Takes(f, To("finish"))
    BY <1>1, <2>1, <2>2, <2>3, <2>4 DEF Takes, AtTelegram
  <2> QED
    BY <2>1, <2>2, <2>5
<1>14. CASE finish(f)
  <2> DEFINE s == [flows[f] EXCEPT !.pc = "end",
                                   !.phase = IF flows[f].ok THEN "authorized" ELSE "error"]
  <2>1. s \in FlowStates /\ s.pc = "end" /\ s.link = flows[f].link
    BY <1>1 DEF FlowStates, Pcs
  <2>2. /\ flows[f].pc = "finish" /\ UNCHANGED <<used, busy, account, faults>>
        /\ flows' = [flows EXCEPT ![f] = s]
    BY <1>1, <1>14 DEF finish
  <2> HIDE DEF s
  <2>3. Takes(f, s)
    BY <1>1, <2>1, <2>2 DEF Takes, AtTelegram
  <2> QED
    BY <2>1, <2>3
<1> QED
  BY <1>4, <1>5, <1>6, <1>7, <1>8, <1>9, <1>10, <1>11, <1>12, <1>13, <1>14 DEF run

-----------------------------------------------------------------------------
(* The inductive invariant.                                                *)

LEMMA InvInit == Init => LoginInv
<1> SUFFICES ASSUME Init PROVE LoginInv
  OBVIOUS
<1>1. \A f \in Flows : flows[f].pc = "none"
  BY DEF Init, NoFlow
<1>2. \A r \in Requests : requests[r].pc = "idle"
  BY DEF Init, Idle
<1>3. ~busy
  BY DEF Init
<1> QED
  BY <1>1, <1>2, <1>3, TypeInit DEF LoginInv, SlotHeld, OwnSession, Placed, AtTelegram

(* Steps of the chat, of the environment and of the owner leave the logins *)
(* and the requests alone.                                                 *)
LEMMA ElsewhereInv ==
  ASSUME LoginInv, UNCHANGED <<flows, requests, busy>>
  PROVE  SlotHeld' /\ OwnSession' /\ Placed'
BY DEF LoginInv, SlotHeld, OwnSession, Placed

LEMMA RunInv ==
  ASSUME LoginInv, NEW f \in Flows, run(f) \/ Ages(f)
  PROVE  LoginInv'
<1>1. PICK s \in FlowStates : Takes(f, s)
  BY FlowSteps DEF LoginInv
<1>2. UNCHANGED <<chat, timers, bot, phone, links, flowOf, requests>>
  BY DEF run, Ages, beginLogin, SendCode, prompt, SignIn, GivesUp, Status, replaceSession, done,
         MarkLoginTokenUsed, finish, FlowOnly, botVars, webVars
<1>3. /\ flows \in [Flows -> FlowStates] /\ flows' \in [Flows -> FlowStates]
      /\ flows'[f] = s /\ \A g \in Flows \ {f} : flows'[g] = flows[g]
  BY <1>1 DEF LoginInv, TypeOK, FlowStates, Takes
<1>4. TypeOK'
  <2>1. used' \subseteq Links
    BY <1>1 DEF LoginInv, TypeOK, Placed, Takes
  <2>2. busy' \in BOOLEAN
    BY <1>1, Zenon DEF LoginInv, TypeOK, Takes
  <2>3. account' \in {"none", "own"}
    BY <1>1 DEF LoginInv, TypeOK, Takes
  <2>4. faults' \in 0..MaxFaults
    BY <1>1, LoginAssumption DEF LoginInv, TypeOK, Takes, Fault
  <2> QED
    BY <1>2, <1>3, <2>1, <2>2, <2>3, <2>4 DEF LoginInv, TypeOK, FlowStates
<1>5. SlotHeld'
  BY <1>1, <1>3 DEF LoginInv, SlotHeld, Takes, TypeOK
<1>6. OwnSession' /\ Placed'
  BY <1>1, <1>2, <1>3 DEF LoginInv, OwnSession, Placed, Takes
<1> QED
  BY <1>4, <1>5, <1>6 DEF LoginInv

(* A request changes no login that runs, but for its phase, its input and  *)
(* its context, and starts a new one outside of Telegram.                  *)
LEMMA PageInv ==
  ASSUME LoginInv, Page
  PROVE  LoginInv'
<1> USE DEF WebOnly, botVars
<1>0. TypeOK /\ TypeOK' /\ flows \in [Flows -> FlowStates]
  BY PageType DEF LoginInv, TypeOK, FlowStates
<1>1. ASSUME NEW r \in Requests, submit(r) \/ setChecking(r)
      PROVE  LoginInv'
  <2>1. \A f \in Flows : flows'[f].pc = flows[f].pc /\ flows'[f].kind = flows[f].kind
                         /\ flows'[f].link = flows[f].link
    BY <1>0, <1>1 DEF submit, setChecking, FlowStates
  <2>2. \A q \in Requests : requests'[q].pc # "idle" => requests'[q].link = requests[q].link
                                                       /\ requests[q].pc # "idle"
    BY <1>0, <1>1 DEF submit, setChecking, Idle, TypeOK
  <2>3. busy' = busy
    BY <1>1 DEF submit, setChecking
  <2> QED
    BY <1>0, <2>1, <2>2, <2>3 DEF LoginInv, SlotHeld, OwnSession, Placed
<1>2. ASSUME NEW r \in Requests, startRecord(r)
      PROVE  LoginInv'
  <2>1. \A f \in Flows : SamePlace(f) \/ Starts(f, requests[r].link)
    BY <1>0, <1>2, StartRecordSteps
  <2>2. \A q \in Requests : requests'[q].pc # "idle" => requests'[q].link = requests[q].link
                                                       /\ requests[q].pc # "idle"
    BY <1>0, <1>2 DEF startRecord, Idle, TypeOK
  <2>3. busy' = busy /\ requests[r].link \in Links
    BY <1>2 DEF startRecord, LoginInv, Placed
  <2> QED
    BY <1>0, <2>1, <2>2, <2>3
       DEF LoginInv, SlotHeld, OwnSession, Placed, AtTelegram, SamePlace, Starts
<1>3. ASSUME NEW r \in Requests, NEW l \in Links,
             loginPage(r, l) \/ loginRestart(r, l) \/ loginSubmit(r, l)
      PROVE  LoginInv'
  <2>1. UNCHANGED <<flows, busy>>
    BY <1>3 DEF loginPage, loginRestart, loginSubmit
  <2>2. \A q \in Requests : requests'[q] = requests[q] \/ requests'[q].link = l
    BY <1>0, <1>3 DEF loginPage, loginRestart, loginSubmit, TypeOK
  <2> QED
    BY <1>0, <2>1, <2>2 DEF LoginInv, SlotHeld, OwnSession, Placed
<1>4. ASSUME NEW l \in Links, Expires(l)
      PROVE  LoginInv'
  BY <1>0, <1>4, ElsewhereInv DEF Expires, webVars, LoginInv
<1> QED
  BY <1>1, <1>2, <1>3, <1>4 DEF Page, Answers

LEMMA CrashInv ==
  ASSUME LoginInv, Crash
  PROVE  LoginInv'
<1>1. \A f \in Flows : \/ flows[f].pc = "none" /\ flows'[f] = NoFlow
                       \/ flows[f].pc # "none" /\ flows'[f] = [flows[f] EXCEPT !.pc = "end"]
  BY DEF Crash
<1>2. flows \in [Flows -> FlowStates] /\ NoFlow \in FlowStates /\ NoFlow.pc = "none"
  BY DEF LoginInv, TypeOK, FlowStates, NoFlow, Pcs
<1>3. \A f \in Flows : flows[f] \in FlowStates /\ [flows[f] EXCEPT !.pc = "end"] \in FlowStates
  BY <1>2 DEF FlowStates, Pcs
<1>4. flows' \in [Flows -> FlowStates]
  <2>1. flows' = [f \in Flows |-> flows'[f]]
    BY DEF Crash
  <2> QED
    BY <1>1, <1>2, <1>3, <2>1
<1>5. \A f \in Flows :
        /\ flows'[f].pc \in {"none", "end"}
        /\ flows'[f].pc # "none" => flows[f].pc # "none" /\ flows'[f].link = flows[f].link
  BY <1>1, <1>2, <1>3 DEF FlowStates
<1>6. requests' = [r \in Requests |-> Idle] /\ busy' = FALSE
  BY DEF Crash
<1>7. TypeOK'
  <2>1. /\ chat' \in Sessions \cup {0} /\ timers' \in [Sessions -> {"running", "fired", "off"}]
        /\ bot' \in [pc : {"idle", "save", "remove"}, session : Sessions \cup {0}] /\ chat' = 0
        /\ flowOf' \in [Links -> Flows \cup {0}]
    BY DEF Crash
  <2>2. requests' \in [Requests -> [pc : {"idle", "start", "restart", "send", "checking"},
                                    link : Links \cup {0}, flow : Flows \cup {0}]]
    BY <1>6 DEF Idle
  <2>3. faults' \in 0..MaxFaults
    BY LoginAssumption DEF LoginInv, TypeOK, Crash, Fault
  <2>4. UNCHANGED <<phone, links, used, account>> /\ busy' \in BOOLEAN
    BY <1>6 DEF Crash
  <2> QED
    BY <1>4, <2>1, <2>2, <2>3, <2>4 DEF LoginInv, TypeOK, FlowStates
<1>8. SlotHeld' /\ OwnSession' /\ Placed'
  BY <1>5, <1>6 DEF LoginInv, SlotHeld, OwnSession, Placed, AtTelegram, Idle
<1> QED
  BY <1>7, <1>8 DEF LoginInv

LEMMA InvStep == LoginInv /\ [Next]_vars => LoginInv'
<1> SUFFICES ASSUME LoginInv, [Next]_vars PROVE LoginInv'
  OBVIOUS
<1>1. CASE Chat
  <2>1. UNCHANGED <<flows, requests, busy>>
    BY <1>1 DEF Chat, Start, handleContact, SaveLoginPhone, finishPhone, Cancel, Fires,
                expirePhonePrompt, BotOnly, webVars
  <2> QED
    BY <1>1, <2>1, ChatType, ElsewhereInv DEF LoginInv
<1>2. CASE Page
  BY <1>2, PageInv
<1>3. ASSUME NEW f \in Flows, run(f) \/ Ages(f)
      PROVE  LoginInv'
  BY <1>3, RunInv
<1>4. CASE Logout
  <2>1. account' = "none" /\ UNCHANGED <<botVars, links, used, webVars, flows, busy, faults>>
    BY <1>4 DEF Logout
  <2>2. TypeOK'
    BY <2>1 DEF LoginInv, TypeOK, botVars, webVars
  <2> QED
    BY <2>1, <2>2, ElsewhereInv DEF LoginInv, webVars
<1>5. CASE Crash
  BY <1>5, CrashInv
<1>6. CASE UNCHANGED vars
  BY <1>6, ElsewhereInv DEF vars, botVars, webVars, LoginInv, TypeOK
<1> QED
  BY <1>1, <1>2, <1>3, <1>4, <1>5, <1>6 DEF Next

(* Every reachable state of the logins, for any number of links, pages,    *)
(* logins, questions and faults, satisfies the inductive invariant.        *)
THEOREM LoginInvariant == Spec => []LoginInv
BY InvInit, InvStep, PTL DEF Spec

-----------------------------------------------------------------------------
(* What follows.                                                           *)

(* The variables of the chat, the page and the logins keep their types,    *)
(* and a question for the phone number that is open has a timer that will  *)
(* still close it (internal/bot/login.go).                                 *)
THEOREM LoginTypes == Spec => []TypeOK
<1>1. LoginInv => TypeOK
  BY DEF LoginInv
<1> QED
  BY <1>1, LoginInvariant, PTL

(* At most one login of an owner talks to Telegram, however pages are      *)
(* restarted, cancelled or timed out, and the slot is taken exactly while  *)
(* one does (loginOwner in internal/monitor/manager.go).                   *)
THEOREM OneLoginAlways == Spec => []OneLogin
<1>1. LoginInv => OneLogin
  <2> SUFFICES ASSUME LoginInv PROVE OneLogin
    OBVIOUS
  <2> DEFINE with == {f \in Flows : flows[f].pc \in AtTelegram}
  <2>1. CASE busy
    <3>1. PICK f \in Flows : flows[f].pc \in AtTelegram
      BY <2>1 DEF LoginInv, SlotHeld
    <3>2. with = {f}
      BY <3>1 DEF LoginInv, SlotHeld
    <3> QED
      BY <2>1, <3>2, FS_Singleton DEF OneLogin, AtTelegram
  <2>2. CASE ~busy
    <3>1. with = {}
      BY <2>2 DEF LoginInv, SlotHeld
    <3> QED
      BY <2>2, <3>1, FS_EmptySet DEF OneLogin, AtTelegram
  <2> QED
    BY <2>1, <2>2
<1> QED
  BY <1>1, LoginInvariant, PTL

(* A question for the phone number is closed by its answer, by a cancel or *)
(* by its own timer, never by the timer of an earlier question             *)
(* (expirePhonePrompt in internal/bot/login.go).                           *)
THEOREM OwnTimeOnlyHolds == Spec => OwnTimeOnly
<1> DEFINE Own == \A s \in Sessions : chat = s /\ chat' # s => timers[s] = "fired" \/ timers'[s] = "off"
<1>1. LoginInv /\ [Next]_vars => [Own]_vars
  <2> SUFFICES ASSUME LoginInv, Next, NEW s \in Sessions, chat = s, chat' # s
               PROVE  timers[s] = "fired" \/ timers'[s] = "off"
    BY DEF vars
  <2>0. s # 0 /\ timers \in [Sessions -> {"running", "fired", "off"}]
    BY LoginAssumption DEF LoginInv, TypeOK
  <2>1. CASE Start
    BY <2>0, <2>1 DEF Start
  <2>2. CASE finishPhone
    BY <2>0, <2>2 DEF finishPhone, cancel
  <2>3. CASE Cancel
    BY <2>0, <2>3 DEF Cancel, cancel
  <2>4. ASSUME NEW t \in Sessions, expirePhonePrompt(t)
        PROVE  timers[s] = "fired" \/ timers'[s] = "off"
    BY <2>0, <2>4 DEF expirePhonePrompt, IsCurrent
  <2>5. CASE Crash
    BY <2>5 DEF Crash
  <2>6. CASE handleContact \/ SaveLoginPhone \/ (\E t \in Sessions : Fires(t))
    BY <2>6 DEF handleContact, SaveLoginPhone, Fires
  <2>7. CASE Page \/ (\E f \in Flows : run(f) \/ Ages(f)) \/ Logout
    BY <2>7 DEF Page, Answers, startRecord, submit, setChecking, loginPage, loginRestart, loginSubmit,
                Expires, WebOnly, run, Ages, beginLogin, SendCode, prompt, SignIn, GivesUp, Status,
                replaceSession, done, MarkLoginTokenUsed, finish, FlowOnly, Logout, botVars
  <2> QED
    BY <2>1, <2>2, <2>3, <2>4, <2>5, <2>6, <2>7 DEF Next, Chat
<1> QED
  BY <1>1, LoginInvariant, PTL DEF Spec, OwnTimeOnly
==============================================================================
