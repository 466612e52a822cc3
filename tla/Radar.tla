-------------------------------- MODULE Radar --------------------------------
(***************************************************************************)
(* The keyword radar of one account: new and edited messages of its chats  *)
(* and scans of their history (internal/monitor/monitor.go) against watch  *)
(* rules that the bot, the dashboard, MCP tools and imports change         *)
(* meanwhile (internal/db/store.go).                                       *)
(*                                                                         *)
(* Chats are handled concurrently, each by a process of its own; a scan is *)
(* one more.  A process reads the rules in statements of their own, each   *)
(* on a connection of a pool: the list, which stays open, and four details *)
(* of every rule in it.  (The note and the preferred terms of a rule are   *)
(* read and written with the others and do not decide a match.)            *)
(***************************************************************************)
EXTENDS Matcher

CONSTANTS
  Peers, PeerOf,   \* chats; the chat of a message
  Msgs,            \* message ids, rising with time
  Service,         \* those that are not messages to match
  Since,           \* where the period of a scan begins
  TextOf,          \* the text of every version of a message
  Phrases,         \* names of rules, words themselves
  Numeral,         \* the id that a name made of digits reads as
  Bodies,          \* what a rule may say
  Scan,            \* the process of a scan
  Conns,           \* SetMaxOpenConns
  PageSize, MaxPages,
  (* bounds *)
  MaxVer, MaxIds, MaxFaults, MaxChanges

Procs == Peers \cup {Scan}
Versions == 0..MaxVer

ASSUME RadarAssumption ==
  /\ Msgs \subseteq Nat \ {0} /\ Service \subseteq Msgs /\ Scan \notin Peers
  /\ {Since, Conns, PageSize, MaxPages, MaxVer, MaxIds, MaxFaults, MaxChanges} \subseteq Nat
  /\ MaxIds # 0 /\ PeerOf \in [Msgs -> Peers]
  /\ \A body \in Bodies :
       /\ body = [any |-> body.any, all |-> body.all, groups |-> body.groups,
                  exclude |-> body.exclude, bike |-> body.bike, sources |-> body.sources]
       /\ body.sources \subseteq Peers

VARIABLES
  posted,   \* message -> its version at Telegram, None before it is posted
  queue,    \* chat -> the updates not yet acknowledged
  peers,    \* monitor_peers: chat -> "unknown", "off" or "on"
  rules,    \* keywords and their details: [id, phrase, body]
  nextId,   \* AUTOINCREMENT
  events,   \* [msg, phrase, rule, ver]
  subscribed,
  alerts,   \* how many alerts were sent: [msg, phrase] -> 0..2
  work,     \* process -> the message it processes
  scan,     \* the state of a scan
  enabling, \* chats that a saved rule still has to turn on
  faults, changes,
  owed      \* process -> <<message, phrase>> it has to record if all goes well

tables == <<peers, rules, nextId, events, subscribed>>
vars == <<posted, queue, tables, alerts, work, scan, enabling, faults, changes, owed>>

None == MaxVer + 1
Empty == [any |-> {}, all |-> {}, groups |-> {}, exclude |-> {}, bike |-> FALSE, sources |-> {}]
Idle == [pc |-> "idle", msg |-> 0, ver |-> 0, rows |-> {}, id |-> 0, detail |-> 0,
         got |-> Empty, found |-> {}]
Unscanned == [pc |-> "off", peers |-> {}, peer |-> Scan, page |-> {}, before |-> 0, pages |-> 0]
Keys == Msgs \X Phrases

(* The settings are what an earlier run of the process has left. *)
Init ==
  /\ posted = [m \in Msgs |-> None] /\ queue = [p \in Peers |-> <<>>]
  /\ peers \in [Peers -> {"unknown", "off", "on"}] /\ subscribed \in BOOLEAN
  /\ \/ rules = {} /\ nextId = 1
     \/ /\ nextId = 2
        /\ \E phrase \in Phrases, body \in Bodies \cup {Empty} :
             rules = {[id |-> 1, phrase |-> phrase, body |-> body]}
  /\ events = {} /\ alerts = [k \in Keys |-> 0]
  /\ work = [p \in Procs |-> Idle] /\ scan = Unscanned /\ enabling = {}
  /\ faults = 0 /\ changes = 0
  /\ owed = [p \in Procs |-> {}]

(***************************************************************************)
(* Telegram.                                                               *)
(***************************************************************************)
(* A message is posted; a chat's updates arrive in their order. *)
Post(m) ==
  /\ posted[m] = None /\ \A n \in Msgs : n > m => posted[n] = None
  /\ posted' = [posted EXCEPT ![m] = 0]
  /\ queue' = [queue EXCEPT ![PeerOf[m]] = Append(@, <<m, 0>>)]
  /\ UNCHANGED <<tables, alerts, work, scan, enabling, faults, owed>>

Edit(m) ==
  /\ posted[m] < MaxVer /\ m \notin Service
  /\ posted' = [posted EXCEPT ![m] = @ + 1]
  /\ queue' = [queue EXCEPT ![PeerOf[m]] = Append(@, <<m, posted[m] + 1>>)]
  /\ owed' = [owed EXCEPT ![Scan] = {k \in @ : k[1] # m}]
  /\ UNCHANGED <<tables, alerts, work, scan, enabling, faults>>

(***************************************************************************)
(* Reading the rules.                                                      *)
(***************************************************************************)
(* The list of a process is open while it reads the details of its rows. *)
Listing(p) == work[p].pc = "detail"
Free == Conns > Cardinality({p \in Procs : Listing(p)})

Word(w) == [words |-> <<w>>, min |-> 0, units |-> {}]
Says(body) == body.any # {} \/ body.all # {} \/ body.groups # {}
Wanted(m, v, phrase, body) ==
  Evaluate(TextOf[m][v], PeerOf[m],
           IF Says(body) THEN body ELSE [body EXCEPT !.any = {Word(phrase)}])
Due(m, v) == {<<m, r.phrase>> : r \in {r \in rules : Wanted(m, v, r.phrase, r.body)}}

(* Whether a message is looked at: not a service message, nor one without  *)
(* text, nor (IsMonitorPeerEnabled) one of a chat that is not switched on. *)
Looks(m, v) == m \notin Service /\ TextOf[m][v].words # <<>> /\ peers[PeerOf[m]] = "on"
Looking(m, v) == [Idle EXCEPT !.pc = "list", !.msg = m, !.ver = v]

(* What a process does when there is nothing (more) to record. *)
Handled(p, w) == IF p = Scan THEN Idle ELSE [w EXCEPT !.pc = "done", !.id = 0, !.detail = 0]
RowsRead(p, w) ==
  IF w.rows # {}
  THEN [w EXCEPT !.pc = "detail", !.detail = 1, !.got = Empty,
                 !.id = CHOOSE id \in {row[1] : row \in w.rows} : \A row \in w.rows : id <= row[1]]
  ELSE IF w.found # {} THEN [w EXCEPT !.pc = "record", !.got = Empty, !.id = 0, !.detail = 0]
  ELSE Handled(p, [w EXCEPT !.got = Empty])

ListKeywords(p) ==
  /\ work[p].pc = "list" /\ Free
  /\ work' = [work EXCEPT ![p] =
       RowsRead(p, [@ EXCEPT !.rows = {<<r.id, r.phrase>> : r \in rules}])]
  /\ owed' = IF p = Scan THEN owed
             ELSE [owed EXCEPT ![p] = Due(work[p].msg, work[p].ver)]
  /\ UNCHANGED <<posted, queue, tables, alerts, scan, enabling, faults>>

(* What is stored of a rule at this moment: nothing when it is gone. *)
Stored(id) ==
  IF \E r \in rules : r.id = id THEN (CHOOSE r \in rules : r.id = id).body ELSE Empty
Details(got, stored) ==
  <<[got EXCEPT !.any = stored.any, !.all = stored.all, !.exclude = stored.exclude],
    [got EXCEPT !.groups = stored.groups],
    [got EXCEPT !.bike = stored.bike],
    [got EXCEPT !.sources = stored.sources]>>

loadKeywordDetails(p) ==
  LET w == work[p]
      got == Details(w.got, Stored(w.id))[w.detail]
      row == CHOOSE r \in w.rows : r[1] = w.id
      matches == Wanted(w.msg, w.ver, row[2], got)
  IN  /\ w.pc = "detail" /\ Free
      /\ work' = [work EXCEPT ![p] =
           IF w.detail < 4 THEN [w EXCEPT !.detail = @ + 1, !.got = got]
           ELSE RowsRead(p, [w EXCEPT !.rows = @ \ {row},
                                      !.found = IF matches THEN @ \cup {row} ELSE @])]
      /\ UNCHANGED <<posted, queue, tables, alerts, scan, enabling, faults, owed>>

(***************************************************************************)
(* Events and alerts.                                                      *)
(***************************************************************************)
RecordedByRule(m, phrase) ==
  \E e \in events : e.msg = m /\ e.phrase = phrase /\ \E r \in rules : r.id = e.rule
Recorded(m, phrase) == \E e \in events : e.msg = m /\ e.phrase = phrase
Recording(p, w) ==
  IF w.found = {} THEN Handled(p, w) ELSE [w EXCEPT !.pc = "record", !.id = 0]

RecordEvent(p) ==
  LET w == work[p]
  IN  /\ w.pc = "record" /\ Free
      /\ \E row \in w.found :
           LET inserted == ~Recorded(w.msg, row[2])
               rest == [w EXCEPT !.found = @ \ {row}]
           IN  /\ \A other \in w.found : row[1] <= other[1]
               /\ events' = IF inserted
                            THEN events \cup {[msg |-> w.msg, phrase |-> row[2], rule |-> row[1],
                                               ver |-> w.ver]}
                            ELSE events
               /\ work' = [work EXCEPT ![p] = IF inserted /\ p # Scan
                                              THEN [rest EXCEPT !.pc = "alert", !.id = row[1]]
                                              ELSE Recording(p, rest)]
      /\ UNCHANGED <<posted, queue, peers, rules, nextId, subscribed, alerts, scan, enabling,
                     faults, owed>>

(* The answer to the send decides nothing: a failed one is only logged. *)
NotifyEvent(p) ==
  LET w == work[p]
      phrase == (CHOOSE e \in events : e.msg = w.msg /\ e.rule = w.id).phrase
  IN  /\ w.pc = "alert" /\ Free
      /\ work' = [work EXCEPT ![p] = Recording(p, w)]
      /\ \/ subscribed /\ UNCHANGED faults
            /\ alerts' = [alerts EXCEPT ![<<w.msg, phrase>>] = IF @ < 2 THEN @ + 1 ELSE @]
         \/ ~subscribed /\ UNCHANGED <<alerts, faults>>
         \/ faults < MaxFaults /\ faults' = faults + 1 /\ UNCHANGED alerts
      /\ UNCHANGED <<posted, queue, tables, scan, enabling, owed>>

(***************************************************************************)
(* Updates of a chat, one after the other.                                 *)
(***************************************************************************)
Clear(p) == owed' = [owed EXCEPT ![p] = {}]
ChatOnly == UNCHANGED <<posted, tables, alerts, scan, enabling>>

handleUpdate(p) ==
  /\ work[p].pc = "idle" /\ queue[p] # <<>> /\ Free
  /\ LET m == Head(queue[p])[1]
         v == Head(queue[p])[2]
     IN  work' = [work EXCEPT ![p] = IF Looks(m, v) THEN Looking(m, v)
                                     ELSE [Idle EXCEPT !.pc = "done", !.msg = m, !.ver = v]]
  /\ UNCHANGED <<queue, faults, owed>> /\ ChatOnly

(* The update manager stores how far it is. *)
SetChannelPts(p) ==
  /\ work[p].pc = "done"
  /\ work' = [work EXCEPT ![p] = Idle] /\ queue' = [queue EXCEPT ![p] = Tail(@)]
  /\ Clear(p)
  /\ UNCHANGED faults /\ ChatOnly

(* A statement fails and the handler returns the error; the update may be  *)
(* handed out once more or not.                                            *)
UpdateFails(p) ==
  /\ queue[p] # <<>> /\ work[p].pc \notin {"alert", "done"} /\ faults < MaxFaults
  /\ faults' = faults + 1
  /\ work' = [work EXCEPT ![p] = Idle]
  /\ queue' \in {queue, [queue EXCEPT ![p] = Tail(@)]}
  /\ Clear(p)
  /\ ChatOnly

Chat(p) == handleUpdate(p) \/ SetChannelPts(p)
processObserved(p) ==
  ListKeywords(p) \/ loadKeywordDetails(p) \/ RecordEvent(p) \/ NotifyEvent(p)

(***************************************************************************)
(* Scans of the history.                                                   *)
(***************************************************************************)
ScanOnly == UNCHANGED <<posted, queue, tables, alerts, enabling>>
Backfill ==
  /\ scan.pc = "off" /\ \E p \in Peers : peers[p] = "on"
  /\ scan' = [Unscanned EXCEPT !.pc = "peers", !.peers = {p \in Peers : peers[p] = "on"}]
  /\ UNCHANGED <<work, faults, owed>> /\ ScanOnly

(* The newest messages of a chat, below an offset: a page of them.         *)
Below(p, n) == {m \in Msgs : PeerOf[m] = p /\ posted[m] # None /\ (n = 0 \/ m < n)}
Newest(S, n) == {m \in S : Cardinality({k \in S : k > m}) < n}
Within(p) == {m \in Newest(Below(p, 0), PageSize * MaxPages) \ Service : m >= Since}

backfillPeer ==
  /\ scan.pc = "peers"
  /\ \E p \in scan.peers :
       scan' = [scan EXCEPT !.pc = "page", !.peer = p, !.peers = @ \ {p}]
  /\ UNCHANGED <<work, faults, owed>> /\ ScanOnly

PeerScanned == [scan EXCEPT !.pc = "scanned", !.page = {}, !.before = 0, !.pages = 0]
getHistory ==
  LET page == Newest(Below(scan.peer, scan.before), PageSize)
  IN  /\ scan.pc = "page" /\ work[Scan].pc = "idle"
      /\ scan' = IF page = {} \/ scan.pages = MaxPages THEN PeerScanned
                 ELSE [scan EXCEPT !.pc = "message", !.page = {<<m, posted[m]>> : m \in page},
                                   !.pages = @ + 1]
      /\ owed' = IF scan.pages # 0 \/ peers[scan.peer] # "on" THEN owed
                 ELSE [owed EXCEPT ![Scan] = UNION {Due(m, posted[m]) : m \in Within(scan.peer)}]
      /\ UNCHANGED <<work, faults>> /\ ScanOnly

(* Newest first; the page ends the scan of the chat where the period does. *)
PeriodOffByOne(m) == m <= Since /\ m \notin Service
EndsPeriod(m) == m < Since /\ m \notin Service
ScanMessage ==
  /\ scan.pc = "message" /\ work[Scan].pc = "idle" /\ Free
  /\ \E m \in scan.page :
       /\ \A n \in scan.page : n[1] <= m[1]
       /\ IF EndsPeriod(m[1])
          THEN scan' = PeerScanned /\ UNCHANGED work
          ELSE /\ scan' = [scan EXCEPT !.page = @ \ {m}, !.before = m[1],
                                       !.pc = IF scan.page = {m} THEN "page" ELSE @]
               /\ work' = IF Looks(m[1], m[2]) THEN [work EXCEPT ![Scan] = Looking(m[1], m[2])]
                          ELSE work
  /\ UNCHANGED <<faults, owed>> /\ ScanOnly

SetMonitorPeerBackfilled ==
  /\ scan.pc = "scanned"
  /\ scan' = IF scan.peers = {} THEN Unscanned ELSE [scan EXCEPT !.pc = "peers", !.peer = Scan]
  /\ Clear(Scan)
  /\ UNCHANGED <<work, faults>> /\ ScanOnly

(* A statement or a request fails, or whoever asked for the scan goes away. *)
ScanFails ==
  /\ scan.pc # "off" /\ faults < MaxFaults /\ faults' = faults + 1
  /\ scan' = Unscanned /\ work' = [work EXCEPT ![Scan] = Idle]
  /\ Clear(Scan)
  /\ ScanOnly

Scans == backfillPeer \/ getHistory \/ ScanMessage \/ SetMonitorPeerBackfilled

(* The process ends and is started again: updates that were not            *)
(* acknowledged are handed out once more.                                  *)
Restart ==
  /\ faults < MaxFaults /\ faults' = faults + 1
  /\ work' = [p \in Procs |-> Idle] /\ scan' = Unscanned /\ enabling' = {}
  /\ owed' = [p \in Procs |-> {}]
  /\ UNCHANGED <<posted, queue, tables, alerts>>

(***************************************************************************)
(* Rules and sources, from the bot, the dashboard, MCP and imports.        *)
(***************************************************************************)
NoRow(phrase) == {}
RowOf(phrase) == {r \in rules : r.phrase = phrase}
Written(new, changed) ==
  /\ rules' = new
  /\ owed' = [p \in Procs |-> {k \in owed[p] : k[2] \notin changed}]
  /\ UNCHANGED <<posted, queue, peers, events, subscribed, alerts, work, scan, faults>>

(* A rule of the name that exists is only enabled again. *)
AddKeyword(phrase) ==
  /\ RowOf(phrase) = {} /\ nextId <= MaxIds
  /\ nextId' = nextId + 1
  /\ Written(rules \cup {[id |-> nextId, phrase |-> phrase, body |-> Empty]}, {phrase})
  /\ UNCHANGED enabling

Upserted(phrase, body) ==
  IF RowOf(phrase) = {}
  THEN rules \cup {[id |-> nextId, phrase |-> phrase, body |-> body]}
  ELSE {IF r.phrase = phrase THEN [r EXCEPT !.body = body] ELSE r : r \in rules}
FreshId(phrase) ==
  IF RowOf(phrase) = {} THEN nextId <= MaxIds /\ nextId' = nextId + 1 ELSE UNCHANGED nextId

UpsertWatchRule(phrase, body) ==
  /\ Says(body)
  /\ FreshId(phrase)
  /\ Written(Upserted(phrase, body), {phrase})

(* The form of the dashboard drops sources it does not know; the command   *)
(* of the bot names none.                                                  *)
Known == {p \in Peers : peers[p] # "unknown"}
addWatchRule(phrase, body) ==
  /\ UpsertWatchRule(phrase, [body EXCEPT !.sources = @ \cap Known])
  /\ UNCHANGED enabling

(* The MCP tool turns the sources of the rule on afterwards. *)
saveWatchRule(phrase, body) ==
  /\ body.sources \subseteq Known
  /\ enabling = {} /\ UpsertWatchRule(phrase, body) /\ enabling' = body.sources

(* A value that reads as a number is an id and never a name. *)
Meant(value, rows) ==
  {r \in rows : IF value \in DOMAIN Numeral THEN r.id = Numeral[value] ELSE r.phrase = value}
NamesOf(rows) == {r.phrase : r \in rows}

(* One transaction: the new rule, then the deletions. *)
ApplyWatchRules(phrase, body, values) ==
  LET written == Upserted(phrase, body)
      deleted == UNION {Meant(value, written) : value \in values}
  IN  /\ Says(body) /\ phrase \notin values
      /\ FreshId(phrase)
      /\ Written(written \ deleted, {phrase} \cup NamesOf(deleted))
      /\ UNCHANGED enabling

ReusesIds(rows) ==
  /\ rows # {}
  /\ Written(rules \ rows, NamesOf(rows))
  /\ nextId' = 1 + Cardinality(rules \ rows) /\ UNCHANGED enabling
DeleteKeyword(rows) ==
  /\ rows # {}
  /\ Written(rules \ rows, NamesOf(rows))
  /\ UNCHANGED <<nextId, enabling>>
WithId(id) == {r \in rules : r.id = id}
deleteKeyword ==
  \/ \E r \in rules : DeleteKeyword(WithId(r.id))
  \/ \E phrase \in Phrases : DeleteKeyword(Meant(phrase, rules))

(* The button below an alert names the rule by the id its event has kept. *)
handleStopKeywordCallback ==
  \E e \in events : alerts[<<e.msg, e.phrase>>] > 0 /\ DeleteKeyword(WithId(e.rule))

SettingsOnly ==
  UNCHANGED <<posted, queue, rules, nextId, events, alerts, work, scan, faults>>
SetMonitorPeerEnabled(p, state) ==
  /\ peers[p] # "unknown" /\ peers' = [peers EXCEPT ![p] = state]
  /\ owed' = IF state = "on" THEN owed
             ELSE [owed EXCEPT ![Scan] = {k \in @ : PeerOf[k[1]] # p}]
toggleSource(p) ==
  /\ \E state \in {"on", "off"} : peers[p] # state /\ SetMonitorPeerEnabled(p, state)
  /\ UNCHANGED <<subscribed, enabling>> /\ SettingsOnly
EnableSource(p) ==
  /\ p \in enabling /\ enabling' = enabling \ {p} /\ SetMonitorPeerEnabled(p, "on")
  /\ UNCHANGED subscribed /\ SettingsOnly
(* UpsertMonitorPeer: a chat that is known keeps its switch. *)
SyncDialogs ==
  /\ \E known \in SUBSET {p \in Peers : peers[p] = "unknown"} : known # {} /\
       peers' = [p \in Peers |-> IF p \in known THEN "off" ELSE peers[p]]
  /\ UNCHANGED <<subscribed, enabling, owed>> /\ SettingsOnly

(* /start and /stop *)
handleStart == ~subscribed /\ subscribed' = TRUE /\ UNCHANGED <<peers, enabling, owed>> /\ SettingsOnly
handleStop == subscribed /\ subscribed' = FALSE /\ UNCHANGED <<peers, enabling, owed>> /\ SettingsOnly

(***************************************************************************)
(* The specification.                                                      *)
(***************************************************************************)
Changes ==
  \/ \E m \in Msgs : Edit(m)
  \/ \E phrase \in Phrases :
       \/ AddKeyword(phrase)
       \/ \E body \in Bodies : addWatchRule(phrase, body) \/ saveWatchRule(phrase, body)
            \/ \E values \in SUBSET Phrases : ApplyWatchRules(phrase, body, values)
  \/ \E p \in Peers : toggleSource(p) \/ EnableSource(p)
  \/ deleteKeyword \/ handleStopKeywordCallback \/ SyncDialogs \/ handleStart \/ handleStop
Settings == changes < MaxChanges /\ changes' = changes + 1 /\ Changes

Runs ==
  \/ \E m \in Msgs : Post(m)
  \/ \E p \in Peers : Chat(p) \/ UpdateFails(p)
  \/ \E p \in Procs : processObserved(p)
  \/ Backfill \/ Scans \/ ScanFails \/ Restart
Next == Settings \/ (Runs /\ UNCHANGED changes)

Spec == Init /\ [][Next]_vars
FairSpec ==
  /\ Spec
  /\ \A p \in Peers : WF_vars(Chat(p) /\ UNCHANGED changes)
  /\ \A p \in Procs : SF_vars(processObserved(p) /\ UNCHANGED changes)
  /\ WF_vars(Scans /\ UNCHANGED changes)

(***************************************************************************)
(* Properties.                                                             *)
(***************************************************************************)
Pcs == {"idle", "list", "detail", "record", "alert", "done"}
Rows == (1..MaxIds) \X Phrases
TypeOK ==
  /\ posted \in [Msgs -> Versions \cup {None}]
  /\ \A p \in Peers : \A k \in DOMAIN queue[p] : queue[p][k] \in Msgs \X Versions
  /\ peers \in [Peers -> {"unknown", "off", "on"}] /\ subscribed \in BOOLEAN
  /\ \A r \in rules : r.id \in 1..MaxIds /\ r.phrase \in Phrases /\ r.body.sources \subseteq Peers
  /\ nextId \in 1..(MaxIds + 1) /\ enabling \subseteq Peers /\ faults \in 0..MaxFaults
  /\ events \subseteq [msg : Msgs, phrase : Phrases, rule : 1..MaxIds, ver : Versions]
  /\ \A p \in Procs : work[p].pc \in Pcs /\ work[p].rows \subseteq Rows /\ work[p].found \subseteq Rows
  /\ scan.pc \in {"off", "peers", "page", "message", "scanned"}
  /\ owed \in [Procs -> SUBSET Keys] /\ alerts \in [Keys -> 0..2]
  (* UNIQUE(owner, phrase) and AUTOINCREMENT of keywords, UNIQUE of events *)
  /\ \A r, t \in rules : r.id = t.id \/ r.phrase = t.phrase => r = t
  /\ \A r \in rules : r.id < nextId
  /\ \A e, f \in events : e.msg = f.msg /\ e.phrase = f.phrase => e = f

(* Nothing is missed: when a chat's update has been handled, or a chat of  *)
(* a scan is finished, without an error, every message in it that a rule   *)
(* wants is recorded, for the rules, sources and messages that nobody has  *)
(* changed in the meantime, whatever else was changed, recorded by the     *)
(* other process, posted or edited.                                        *)
NothingMissed ==
  \A p \in Procs :
    (IF p = Scan THEN scan.pc = "scanned" ELSE work[p].pc = "done")
      => \A k \in owed[p] : Recorded(k[1], k[2])

(* However often an update is handed out, a message edited, scanned and    *)
(* matched by rules that are deleted and added again under the same name,  *)
(* its owner is alerted at most once for each name.                        *)
AlertedOnce == \A k \in Keys : alerts[k] <= 1

(* The button of an alert stops the rule that matched, and never another   *)
(* one that was added since, under this or any other name.                 *)
ButtonStopsItsRule ==
  \A e \in events : \A r \in rules : r.id = e.rule => r.phrase = e.phrase

(* Every update is handled in the end: readers that hold one connection    *)
(* and need another do not wait for each other for ever.                   *)
EventuallyHandled == \A p \in Peers : []<>(queue[p] = <<>>)
===============================================================================
