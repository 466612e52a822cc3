----------------------------- MODULE RadarProofs -----------------------------
(***************************************************************************)
(* Theorems of Radar.  An update is handled and a history is scanned in    *)
(* many steps, so the inductive invariant says what holds in between: what *)
(* a process has in its hands (WorkOK, ScanOK), that an id never had two   *)
(* names (NamesOK), for which events an alert may still come (AlertsOK),   *)
(* and where everything that is owed and not yet recorded still waits      *)
(* (Debts).                                                                *)
(***************************************************************************)
EXTENDS Radar, Counting, SequenceTheorems

(* Records with exactly these fields. *)
Said(b) ==
  b = [any |-> b.any, all |-> b.all, groups |-> b.groups, exclude |-> b.exclude,
       bike |-> b.bike, sources |-> b.sources]
IsBody(b) == Said(b) /\ b.sources \subseteq Peers
IsRule(r) ==
  r = [id |-> r.id, phrase |-> r.phrase, body |-> r.body] /\ IsBody(r.body)

(* What a process has in its hands. *)
Fields(w) ==
  w = [pc |-> w.pc, msg |-> w.msg, ver |-> w.ver, rows |-> w.rows, id |-> w.id,
       detail |-> w.detail, got |-> w.got, found |-> w.found]
Holds(w) ==
  /\ Fields(w) /\ IsBody(w.got) /\ w.rows \subseteq Rows /\ w.found \subseteq Rows
IsWork(w) ==
  /\ Holds(w) /\ w.pc \in Pcs
  /\ w.pc # "idle" => w.msg \in Msgs /\ w.ver \in Versions
  /\ w.pc = "detail" => w.detail \in 1..4 /\ \E row \in w.rows : row[1] = w.id
  /\ w.pc # "detail" => w.rows = {}
  /\ w.pc \in {"idle", "list", "done"} => w.found = {}
WorkOK ==
  /\ work = [p \in Procs |-> work[p]] /\ \A p \in Procs : IsWork(work[p])
(* A chat's update is acknowledged after it has been handled.              *)
Queued == \A p \in Peers : work[p].pc # "idle" => queue[p] # <<>>
ScanWorks ==
  /\ work[Scan].pc \notin {"alert", "done"}
  /\ scan.pc \notin {"page", "message"} => work[Scan].pc = "idle"

ScanFields(s) ==
  s = [pc |-> s.pc, peers |-> s.peers, peer |-> s.peer, page |-> s.page, before |-> s.before,
       pages |-> s.pages]
IsScan(s) ==
  /\ ScanFields(s)
  /\ s.pc \in {"off", "peers", "page", "message", "scanned"}
  /\ s.peers \subseteq Peers /\ s.page \subseteq Msgs \X Versions
  /\ s.pages \in 0..MaxPages /\ s.before \in Msgs \cup {0}
  /\ s.pc \in {"page", "message", "scanned"} => s.peer \in Peers
  /\ s.pc = "message" <=> s.page # {}
  /\ s.pc \in {"off", "peers", "scanned"} => s.pages = 0
  /\ s.pc = "message" => s.pages > 0
  /\ s.pages = 0 => s.before = 0
  /\ s.pc = "page" /\ s.pages > 0 => s.before # 0
(* What was read of the history was posted, so later posts are above it. *)
ScanOK ==
  /\ IsScan(scan)
  /\ \A x \in scan.page : posted[x[1]] \in Versions /\ PeerOf[x[1]] = scan.peer
  /\ scan.before # 0 => posted[scan.before] \in Versions

(* The rest, table by table: TypeOK and the shape of what is in it.        *)
Tables ==
  /\ posted \in [Msgs -> Versions \cup {None}] /\ IsFiniteSet({m \in Msgs : posted[m] # None})
  /\ peers \in [Peers -> {"unknown", "off", "on"}] /\ subscribed \in BOOLEAN
  /\ enabling \subseteq Peers /\ faults \in 0..MaxFaults
  /\ queue \in [Peers -> Seq(Msgs \X Versions)]
  /\ owed \in [Procs -> SUBSET Keys] /\ alerts \in [Keys -> 0..2]
RulesOK ==
  /\ nextId \in 1..(MaxIds + 1)
  /\ \A r \in rules : IsRule(r) /\ r.id \in 1..MaxIds /\ r.phrase \in Phrases /\ r.id < nextId
  /\ \A r, t \in rules : r.id = t.id \/ r.phrase = t.phrase => r = t
EventsOK ==
  /\ events \subseteq [msg : Msgs, phrase : Phrases, rule : 1..MaxIds, ver : Versions]
  /\ \A e, f \in events : e.msg = f.msg /\ e.phrase = f.phrase => e = f

(* Ids, and the names they have been given. *)
Pairs ==
  {<<r.id, r.phrase>> : r \in rules} \cup {<<e.rule, e.phrase>> : e \in events}
    \cup UNION {work[p].rows \cup work[p].found : p \in Procs}
NamesOK ==
  /\ \A x \in Pairs : x \in Rows /\ x[1] < nextId
  /\ \A x, y \in Pairs : x[1] = y[1] => x[2] = y[2]

(* Alerts that were sent, and those that may still come. *)
Unsent(w) == \E e \in events : e.msg = w.msg /\ e.rule = w.id /\ alerts[<<e.msg, e.phrase>>] = 0
AlertsOK ==
  /\ \A k \in Keys : alerts[k] <= 1 /\ (alerts[k] > 0 => Recorded(k[1], k[2]))
  /\ \A p \in Procs : work[p].pc = "alert" => Unsent(work[p])
  /\ \A p, q \in Procs :
       work[p].pc = "alert" /\ work[q].pc = "alert" /\ work[p].msg = work[q].msg
         /\ work[p].id = work[q].id => p = q

(* What a process owes for its message is recorded, or among what it has   *)
(* found, or a rule whose details it has still to read, those it has read  *)
(* being as they are stored.                                               *)
ReadSoFar(w, body) ==
  /\ w.detail > 1 => w.got.any = body.any /\ w.got.all = body.all /\ w.got.exclude = body.exclude
  /\ w.detail > 2 => w.got.groups = body.groups
  /\ w.detail > 3 => w.got.bike = body.bike
InHand(w, r) ==
  \/ w.pc = "list" \/ <<r.id, r.phrase>> \in w.found
  \/ <<r.id, r.phrase>> \in w.rows /\ (w.id = r.id => ReadSoFar(w, r.body))
Wants(r, k, v) == r.phrase = k[2] /\ Wanted(k[1], v, r.phrase, r.body)
ChatOwes(p) ==
  /\ work[p].pc \in {"idle", "list"} => owed[p] = {}
  /\ \A k \in owed[p] :
       /\ k[1] = work[p].msg
       /\ \E r \in rules : Wants(r, k, work[p].ver)
            /\ (Recorded(k[1], k[2]) \/ InHand(work[p], r))

(* A scan reads the history from the newest message on.  What it owes      *)
(* waits in its hands, on the page, or among what it has not yet read, and *)
(* then the pages that are left go that far.                               *)
Unread ==
  IF scan.pc = "page" THEN Below(scan.peer, scan.before)
  ELSE {m \in Below(scan.peer, 0) : \A x \in scan.page : m < x[1]}
Reached(S, n, pages) ==
  n \in S /\ Cardinality(Above(S, n)) < (MaxPages - pages) * PageSize
Waits(k, r) ==
  \/ /\ work[Scan].pc # "idle" /\ work[Scan].msg = k[1]
     /\ work[Scan].ver = posted[k[1]] /\ InHand(work[Scan], r)
  \/ scan.pc = "message" /\ <<k[1], posted[k[1]]>> \in scan.page
  \/ scan.pc \in {"page", "message"} /\ Reached(Unread, k[1], scan.pages)
ScanOwes(k) ==
  /\ scan.pc \in {"page", "message", "scanned"} /\ (scan.pc = "page" => scan.pages > 0)
  /\ PeerOf[k[1]] = scan.peer /\ peers[scan.peer] = "on" /\ k[1] \notin Service
  /\ k[1] >= Since /\ posted[k[1]] \in Versions
  /\ \E r \in rules : Wants(r, k, posted[k[1]]) /\ (Recorded(k[1], k[2]) \/ Waits(k, r))
Debts == (\A p \in Peers : ChatOwes(p)) /\ (\A k \in owed[Scan] : ScanOwes(k))

RadarInv ==
  Tables /\ RulesOK /\ EventsOK /\ WorkOK /\ Queued /\ ScanWorks /\ ScanOK /\ NamesOK /\ AlertsOK
OwedInv == RadarInv /\ Debts

-----------------------------------------------------------------------------
(* A record keeps its fields when one of them changes.                    *)
LEMMA FieldsKept ==
  ASSUME NEW w, Fields(w), NEW x
  PROVE  /\ Fields([w EXCEPT !.pc = x]) /\ Fields([w EXCEPT !.msg = x])
         /\ Fields([w EXCEPT !.ver = x]) /\ Fields([w EXCEPT !.rows = x])
         /\ Fields([w EXCEPT !.id = x]) /\ Fields([w EXCEPT !.detail = x])
         /\ Fields([w EXCEPT !.got = x]) /\ Fields([w EXCEPT !.found = x])
<1>1. Fields([w EXCEPT !.pc = x])
  <2> DEFINE d == [w EXCEPT !.pc = x]
  <2>1. d = [pc |-> x, msg |-> w.msg, ver |-> w.ver, rows |-> w.rows, id |-> w.id,
              detail |-> w.detail, got |-> w.got, found |-> w.found]
    BY DEF Fields
  <2> QED
    BY <2>1, Zenon DEF Fields
<1>2. Fields([w EXCEPT !.msg = x])
  <2> DEFINE d == [w EXCEPT !.msg = x]
  <2>1. d = [pc |-> w.pc, msg |-> x, ver |-> w.ver, rows |-> w.rows, id |-> w.id,
              detail |-> w.detail, got |-> w.got, found |-> w.found]
    BY DEF Fields
  <2> QED
    BY <2>1, Zenon DEF Fields
<1>3. Fields([w EXCEPT !.ver = x])
  <2> DEFINE d == [w EXCEPT !.ver = x]
  <2>1. d = [pc |-> w.pc, msg |-> w.msg, ver |-> x, rows |-> w.rows, id |-> w.id,
              detail |-> w.detail, got |-> w.got, found |-> w.found]
    BY DEF Fields
  <2> QED
    BY <2>1, Zenon DEF Fields
<1>4. Fields([w EXCEPT !.rows = x])
  <2> DEFINE d == [w EXCEPT !.rows = x]
  <2>1. d = [pc |-> w.pc, msg |-> w.msg, ver |-> w.ver, rows |-> x, id |-> w.id,
              detail |-> w.detail, got |-> w.got, found |-> w.found]
    BY DEF Fields
  <2> QED
    BY <2>1, Zenon DEF Fields
<1>5. Fields([w EXCEPT !.id = x])
  <2> DEFINE d == [w EXCEPT !.id = x]
  <2>1. d = [pc |-> w.pc, msg |-> w.msg, ver |-> w.ver, rows |-> w.rows, id |-> x,
              detail |-> w.detail, got |-> w.got, found |-> w.found]
    BY DEF Fields
  <2> QED
    BY <2>1, Zenon DEF Fields
<1>6. Fields([w EXCEPT !.detail = x])
  <2> DEFINE d == [w EXCEPT !.detail = x]
  <2>1. d = [pc |-> w.pc, msg |-> w.msg, ver |-> w.ver, rows |-> w.rows,
              id |-> w.id, detail |-> x, got |-> w.got, found |-> w.found]
    BY DEF Fields
  <2> QED
    BY <2>1, Zenon DEF Fields
<1>7. Fields([w EXCEPT !.got = x])
  <2> DEFINE d == [w EXCEPT !.got = x]
  <2>1. d = [pc |-> w.pc, msg |-> w.msg, ver |-> w.ver, rows |-> w.rows,
              id |-> w.id, detail |-> w.detail, got |-> x, found |-> w.found]
    BY DEF Fields
  <2> QED
    BY <2>1, Zenon DEF Fields
<1>8. Fields([w EXCEPT !.found = x])
  <2> DEFINE d == [w EXCEPT !.found = x]
  <2>1. d = [pc |-> w.pc, msg |-> w.msg, ver |-> w.ver, rows |-> w.rows,
              id |-> w.id, detail |-> w.detail, got |-> w.got, found |-> x]
    BY DEF Fields
  <2> QED
    BY <2>1, Zenon DEF Fields
<1> QED
  BY <1>1, <1>2, <1>3, <1>4, <1>5, <1>6, <1>7, <1>8

(* The same for bodies.                                                    *)
LEMMA SaidKept ==
  ASSUME NEW w, Said(w), NEW x
  PROVE  /\ Said([w EXCEPT !.any = x])
         /\ Said([w EXCEPT !.all = x])
         /\ Said([w EXCEPT !.groups = x])
         /\ Said([w EXCEPT !.exclude = x])
         /\ Said([w EXCEPT !.bike = x])
         /\ Said([w EXCEPT !.sources = x])
<1>1. Said([w EXCEPT !.any = x])
  <2> DEFINE d == [w EXCEPT !.any = x]
  <2>1. d = [any |-> x, all |-> w.all, groups |-> w.groups, exclude |-> w.exclude,
           bike |-> w.bike, sources |-> w.sources]
    BY DEF Said
  <2> QED
    BY <2>1, Zenon DEF Said
<1>2. Said([w EXCEPT !.all = x])
  <2> DEFINE d == [w EXCEPT !.all = x]
  <2>1. d = [any |-> w.any, all |-> x, groups |-> w.groups, exclude |-> w.exclude,
           bike |-> w.bike, sources |-> w.sources]
    BY DEF Said
  <2> QED
    BY <2>1, Zenon DEF Said
<1>3. Said([w EXCEPT !.groups = x])
  <2> DEFINE d == [w EXCEPT !.groups = x]
  <2>1. d = [any |-> w.any, all |-> w.all, groups |-> x, exclude |-> w.exclude,
           bike |-> w.bike, sources |-> w.sources]
    BY DEF Said
  <2> QED
    BY <2>1, Zenon DEF Said
<1>4. Said([w EXCEPT !.exclude = x])
  <2> DEFINE d == [w EXCEPT !.exclude = x]
  <2>1. d = [any |-> w.any, all |-> w.all, groups |-> w.groups, exclude |-> x,
           bike |-> w.bike, sources |-> w.sources]
    BY DEF Said
  <2> QED
    BY <2>1, Zenon DEF Said
<1>5. Said([w EXCEPT !.bike = x])
  <2> DEFINE d == [w EXCEPT !.bike = x]
  <2>1. d = [any |-> w.any, all |-> w.all, groups |-> w.groups,
           exclude |-> w.exclude, bike |-> x, sources |-> w.sources]
    BY DEF Said
  <2> QED
    BY <2>1, Zenon DEF Said
<1>6. Said([w EXCEPT !.sources = x])
  <2> DEFINE d == [w EXCEPT !.sources = x]
  <2>1. d = [any |-> w.any, all |-> w.all, groups |-> w.groups,
           exclude |-> w.exclude, bike |-> w.bike, sources |-> x]
    BY DEF Said
  <2> QED
    BY <2>1, Zenon DEF Said
<1> QED
  BY <1>1, <1>2, <1>3, <1>4, <1>5, <1>6

(* The same for scans.                                                     *)
LEMMA ScanKept ==
  ASSUME NEW w, ScanFields(w), NEW x
  PROVE  /\ ScanFields([w EXCEPT !.pc = x]) /\ ScanFields([w EXCEPT !.peers = x])
         /\ ScanFields([w EXCEPT !.peer = x]) /\ ScanFields([w EXCEPT !.page = x])
         /\ ScanFields([w EXCEPT !.before = x]) /\ ScanFields([w EXCEPT !.pages = x])
<1>1. ScanFields([w EXCEPT !.pc = x])
  <2> DEFINE d == [w EXCEPT !.pc = x]
  <2>1. d = [pc |-> x, peers |-> w.peers, peer |-> w.peer, page |-> w.page,
              before |-> w.before, pages |-> w.pages]
    BY DEF ScanFields
  <2> QED
    BY <2>1, Zenon DEF ScanFields
<1>2. ScanFields([w EXCEPT !.peers = x])
  <2> DEFINE d == [w EXCEPT !.peers = x]
  <2>1. d = [pc |-> w.pc, peers |-> x, peer |-> w.peer, page |-> w.page,
              before |-> w.before, pages |-> w.pages]
    BY DEF ScanFields
  <2> QED
    BY <2>1, Zenon DEF ScanFields
<1>3. ScanFields([w EXCEPT !.peer = x])
  <2> DEFINE d == [w EXCEPT !.peer = x]
  <2>1. d = [pc |-> w.pc, peers |-> w.peers, peer |-> x, page |-> w.page,
              before |-> w.before, pages |-> w.pages]
    BY DEF ScanFields
  <2> QED
    BY <2>1, Zenon DEF ScanFields
<1>4. ScanFields([w EXCEPT !.page = x])
  <2> DEFINE d == [w EXCEPT !.page = x]
  <2>1. d = [pc |-> w.pc, peers |-> w.peers, peer |-> w.peer, page |-> x,
              before |-> w.before, pages |-> w.pages]
    BY DEF ScanFields
  <2> QED
    BY <2>1, Zenon DEF ScanFields
<1>5. ScanFields([w EXCEPT !.before = x])
  <2> DEFINE d == [w EXCEPT !.before = x]
  <2>1. d = [pc |-> w.pc, peers |-> w.peers, peer |-> w.peer, page |-> w.page,
              before |-> x, pages |-> w.pages]
    BY DEF ScanFields
  <2> QED
    BY <2>1, Zenon DEF ScanFields
<1>6. ScanFields([w EXCEPT !.pages = x])
  <2> DEFINE d == [w EXCEPT !.pages = x]
  <2>1. d = [pc |-> w.pc, peers |-> w.peers, peer |-> w.peer, page |-> w.page,
              before |-> w.before, pages |-> x]
    BY DEF ScanFields
  <2> QED
    BY <2>1, Zenon DEF ScanFields
<1> QED
  BY <1>1, <1>2, <1>3, <1>4, <1>5, <1>6

(* Bodies, and the work of a process between two statements.               *)
LEMMA EmptyBody == IsBody(Empty)
BY DEF IsBody, Said, Empty

LEMMA IdleWork == IsWork(Idle) /\ Idle.pc = "idle"
BY EmptyBody DEF IsWork, Holds, Fields, Idle, Pcs

LEMMA IdleRows == Idle.rows = {} /\ Idle.found = {} /\ Idle.pc = "idle"
BY DEF Idle

LEMMA StoredBody == ASSUME RulesOK, NEW id PROVE IsBody(Stored(id))
BY EmptyBody DEF Stored, RulesOK, IsRule

LEMMA DetailsRead ==
  ASSUME NEW got, NEW body, IsBody(got), IsBody(body), NEW n \in 1..4
  PROVE  LET d == Details(got, body)[n]
         IN  /\ IsBody(d)
             /\ IF n = 1 THEN d.any = body.any /\ d.all = body.all /\ d.exclude = body.exclude
                ELSE d.any = got.any /\ d.all = got.all /\ d.exclude = got.exclude
             /\ d.groups = IF n = 2 THEN body.groups ELSE got.groups
             /\ d.bike = IF n = 3 THEN body.bike ELSE got.bike
             /\ d.sources = IF n = 4 THEN body.sources ELSE got.sources
<1>1. n = 1 \/ n = 2 \/ n = 3 \/ n = 4
  OBVIOUS
<1>2. CASE n = 1
  <2> DEFINE d == [got EXCEPT !.any = body.any, !.all = body.all, !.exclude = body.exclude]
  <2>1. Said(d)
    BY SaidKept, Zenon DEF IsBody
  <2>2. /\ d.any = body.any /\ d.all = body.all /\ d.exclude = body.exclude
        /\ d.groups = got.groups /\ d.bike = got.bike /\ d.sources = got.sources
    BY DEF IsBody, Said
  <2>3. Details(got, body)[1] = d
    BY DEF Details
  <2> HIDE DEF d
  <2> QED
    BY <1>2, <2>1, <2>2, <2>3 DEF IsBody
<1>3. CASE n = 2
  <2> DEFINE d == [got EXCEPT !.groups = body.groups]
  <2>1. Said(d)
    BY SaidKept, Zenon DEF IsBody
  <2>2. /\ d.groups = body.groups /\ d.any = got.any /\ d.all = got.all
        /\ d.exclude = got.exclude /\ d.bike = got.bike /\ d.sources = got.sources
    BY DEF IsBody, Said
  <2>3. Details(got, body)[2] = d
    BY DEF Details
  <2> HIDE DEF d
  <2> QED
    BY <1>3, <2>1, <2>2, <2>3 DEF IsBody
<1>4. CASE n = 3
  <2> DEFINE d == [got EXCEPT !.bike = body.bike]
  <2>1. Said(d)
    BY SaidKept, Zenon DEF IsBody
  <2>2. /\ d.bike = body.bike /\ d.any = got.any /\ d.all = got.all
        /\ d.exclude = got.exclude /\ d.groups = got.groups /\ d.sources = got.sources
    BY DEF IsBody, Said
  <2>3. Details(got, body)[3] = d
    BY DEF Details
  <2> HIDE DEF d
  <2> QED
    BY <1>4, <2>1, <2>2, <2>3 DEF IsBody
<1>5. CASE n = 4
  <2> DEFINE d == [got EXCEPT !.sources = body.sources]
  <2>1. Said(d)
    BY SaidKept, Zenon DEF IsBody
  <2>2. /\ d.sources = body.sources /\ d.any = got.any /\ d.all = got.all
        /\ d.exclude = got.exclude /\ d.groups = got.groups /\ d.bike = got.bike
    BY DEF IsBody, Said
  <2>3. Details(got, body)[4] = d
    BY DEF Details
  <2> HIDE DEF d
  <2> QED
    BY <1>5, <2>1, <2>2, <2>3 DEF IsBody
<1> QED
  BY <1>1, <1>2, <1>3, <1>4, <1>5

(* What follows the reading of a rule.                                     *)
LEMMA RowsReadWork ==
  ASSUME NEW p \in Procs, NEW w, Holds(w), w.msg \in Msgs, w.ver \in Versions
  PROVE  LET d == RowsRead(p, w)
         IN  /\ IsWork(d)
             /\ \/ /\ w.rows # {} /\ d.pc = "detail" /\ d.detail = 1 /\ d.msg = w.msg
                   /\ d.ver = w.ver /\ d.rows = w.rows /\ d.found = w.found
                \/ /\ w.rows = {} /\ w.found # {} /\ d.pc = "record" /\ d.msg = w.msg
                   /\ d.ver = w.ver /\ d.rows = w.rows /\ d.found = w.found
                \/ /\ w.rows = {} /\ w.found = {} /\ p # Scan /\ d.pc = "done"
                   /\ d.msg = w.msg /\ d.ver = w.ver /\ d.rows = {} /\ d.found = {}
                \/ w.rows = {} /\ w.found = {} /\ p = Scan /\ d = Idle
<1>1. CASE w.rows # {}
  <2> DEFINE ids == {row[1] : row \in w.rows}
             Lowest(id) == id \in ids /\ \A row \in w.rows : id <= row[1]
             least == CHOOSE id \in ids : \A row \in w.rows : id <= row[1]
             d == [w EXCEPT !.pc = "detail", !.detail = 1, !.got = Empty, !.id = least]
  <2>1. ids \subseteq Nat /\ ids # {}
    BY <1>1, RadarAssumption DEF Holds, Rows
  <2>2. PICK i \in ids : \A j \in ids : i <= j
    BY <2>1, Least
  <2>3. Lowest(i)
    BY <2>2
  <2>4. Lowest(least)
    BY <2>3
  <2>5. \E row \in w.rows : row[1] = least
    BY <2>4
  <2> HIDE DEF least
  <2>6. /\ d.pc = "detail" /\ d.detail = 1 /\ d.msg = w.msg /\ d.ver = w.ver /\ d.rows = w.rows
        /\ d.found = w.found /\ d.got = Empty /\ d.id = least
    BY DEF Holds, Fields
  <2>0. Fields(d)
    BY FieldsKept, Zenon DEF Holds
  <2>7. RowsRead(p, w) = d
    BY <1>1 DEF RowsRead, least
  <2> HIDE DEF d
  <2>8. IsWork(d)
    BY <2>0, <2>5, <2>6, EmptyBody DEF IsWork, Holds, Pcs
  <2> QED
    BY <1>1, <2>6, <2>7, <2>8
<1>2. CASE w.rows = {} /\ w.found # {}
  <2> DEFINE d == [w EXCEPT !.pc = "record", !.got = Empty, !.id = 0, !.detail = 0]
  <2>1. /\ d.pc = "record" /\ d.msg = w.msg /\ d.ver = w.ver /\ d.rows = w.rows
        /\ d.found = w.found /\ d.got = Empty
    BY DEF Holds, Fields
  <2>0. Fields(d)
    BY FieldsKept, Zenon DEF Holds
  <2>2. RowsRead(p, w) = d
    BY <1>2 DEF RowsRead
  <2> HIDE DEF d
  <2>3. IsWork(d)
    BY <1>2, <2>0, <2>1, EmptyBody DEF IsWork, Holds, Pcs
  <2> QED
    BY <1>2, <2>1, <2>2, <2>3
<1>3. CASE w.rows = {} /\ w.found = {} /\ p # Scan
  <2> DEFINE d == [w EXCEPT !.pc = "done", !.got = Empty, !.id = 0, !.detail = 0]
  <2>1. /\ d.pc = "done" /\ d.msg = w.msg /\ d.ver = w.ver /\ d.rows = w.rows
        /\ d.found = w.found /\ d.got = Empty
    BY DEF Holds, Fields
  <2>0. Fields(d)
    BY FieldsKept, Zenon DEF Holds
  <2>2. RowsRead(p, w) = d
    BY <1>3 DEF RowsRead, Handled, Holds
  <2> HIDE DEF d
  <2>3. IsWork(d)
    BY <1>3, <2>0, <2>1, EmptyBody DEF IsWork, Holds, Pcs
  <2> QED
    BY <1>3, <2>1, <2>2, <2>3
<1>4. CASE w.rows = {} /\ w.found = {} /\ p = Scan
  BY <1>4, IdleWork DEF RowsRead, Handled
<1> QED
  BY <1>1, <1>2, <1>3, <1>4

-----------------------------------------------------------------------------
(* What a step leaves alone.                                               *)
LEMMA Undisturbed ==
  /\ RulesOK /\ UNCHANGED <<rules, nextId>> => RulesOK'
  /\ EventsOK /\ UNCHANGED events => EventsOK'
  /\ WorkOK /\ UNCHANGED work => WorkOK'
  /\ Queued /\ UNCHANGED <<work, queue>> => Queued'
  /\ ScanWorks /\ UNCHANGED <<work, scan>> => ScanWorks'
  /\ ScanOK /\ UNCHANGED <<scan, posted>> => ScanOK'
BY DEF RulesOK, EventsOK, WorkOK, Queued, ScanWorks, ScanOK

LEMMA PairsOf ==
  /\ \A r \in rules : <<r.id, r.phrase>> \in Pairs
  /\ \A e \in events : <<e.rule, e.phrase>> \in Pairs
  /\ \A p \in Procs : work[p].rows \subseteq Pairs /\ work[p].found \subseteq Pairs
BY DEF Pairs

(* Nothing gets a new name, or the next id gets one.                       *)
LEMMA NamesKept ==
  ASSUME NamesOK, UNCHANGED nextId,
         \A r \in rules' : <<r.id, r.phrase>> \in Pairs,
         \A e \in events' : <<e.rule, e.phrase>> \in Pairs,
         \A p \in Procs : work'[p].rows \cup work'[p].found \subseteq Pairs
  PROVE  NamesOK'
<1>1. Pairs' \subseteq Pairs
  BY DEF Pairs
<1> QED
  BY <1>1 DEF NamesOK

LEMMA NameGiven ==
  ASSUME NamesOK, nextId \in 1..MaxIds, nextId' = nextId + 1, NEW phrase \in Phrases,
         \A r \in rules' : <<r.id, r.phrase>> \in Pairs \cup {<<nextId, phrase>>},
         UNCHANGED <<events, work>>
  PROVE  NamesOK'
<1> DEFINE new == <<nextId, phrase>>
<1>1. Pairs' \subseteq Pairs \cup {new}
  BY PairsOf DEF Pairs
<1>2. MaxIds \in Nat
  BY RadarAssumption
<1>3. \A x \in Pairs : x \in Rows /\ x[1] < nextId /\ x[1] \in Nat
  BY <1>2 DEF NamesOK, Rows
<1>4. new \in Rows /\ new[1] = nextId /\ new[2] = phrase
  BY DEF Rows
<1>5. \A x \in Pairs' : x \in Rows /\ x[1] < nextId'
  <2> SUFFICES ASSUME NEW x \in Pairs' PROVE x \in Rows /\ x[1] < nextId'
    OBVIOUS
  <2>1. CASE x \in Pairs
    BY <1>2, <1>3, <2>1
  <2>2. CASE x = new
    BY <1>2, <1>4, <2>2
  <2> QED
    BY <1>1, <2>1, <2>2
<1>6. \A x \in Pairs : x[1] # nextId
  BY <1>2, <1>3
<1>7. \A x, y \in Pairs' : x[1] = y[1] => x[2] = y[2]
  BY <1>1, <1>4, <1>6 DEF NamesOK
<1> QED
  BY <1>5, <1>7 DEF NamesOK

(* Alerts, while none is sent or recorded.                                 *)
LEMMA AlertsKept ==
  ASSUME AlertsOK, UNCHANGED <<events, alerts>>,
         \A p \in Procs : work'[p].pc = "alert" =>
           work[p].pc = "alert" /\ work'[p].msg = work[p].msg /\ work'[p].id = work[p].id
  PROVE  AlertsOK'
<1>1. \A p \in Procs : work'[p].pc = "alert" => Unsent(work[p])'
  <2> SUFFICES ASSUME NEW p \in Procs, work'[p].pc = "alert" PROVE Unsent(work[p])'
    OBVIOUS
  <2>1. PICK e \in events : e.msg = work[p].msg /\ e.rule = work[p].id /\ alerts[<<e.msg, e.phrase>>] = 0
    BY DEF AlertsOK, Unsent
  <2> QED
    BY <2>1 DEF Unsent
<1>2. \A k \in Keys : alerts'[k] <= 1 /\ (alerts'[k] > 0 => Recorded(k[1], k[2])')
  BY DEF AlertsOK, Recorded
<1>3. \A p, q \in Procs :
        work'[p].pc = "alert" /\ work'[q].pc = "alert" /\ work'[p].msg = work'[q].msg
          /\ work'[p].id = work'[q].id => p = q
  BY DEF AlertsOK
<1> QED
  BY <1>1, <1>2, <1>3 DEF AlertsOK

(* A process goes on.                                                      *)
LEMMA Goes ==
  ASSUME WorkOK, NEW p \in Procs, NEW d, IsWork(d), work' = [work EXCEPT ![p] = d]
  PROVE  WorkOK' /\ work'[p] = d /\ \A q \in Procs \ {p} : work'[q] = work[q]
<1>1. work'[p] = d /\ \A q \in Procs \ {p} : work'[q] = work[q]
  BY DEF WorkOK
<1>2. work' = [q \in Procs |-> work'[q]]
  BY DEF WorkOK
<1> QED
  BY <1>1, <1>2 DEF WorkOK

LEMMA ScanGoes ==
  ASSUME ScanWorks, WorkOK, NEW p \in Procs, NEW d, UNCHANGED scan,
         work'[p] = d, \A q \in Procs \ {p} : work'[q] = work[q],
         p = Scan => d.pc \notin {"alert", "done"} /\ (work[p].pc = "idle" => d.pc = "idle")
  PROVE  ScanWorks'
BY DEF ScanWorks, Procs

LEMMA InvTypes == RadarInv => TypeOK
<1> SUFFICES ASSUME RadarInv PROVE TypeOK
  OBVIOUS
<1>1. \A r \in rules : r.body.sources \subseteq Peers
  BY DEF RadarInv, RulesOK, IsRule, IsBody
<1>2. \A p \in Peers : \A k \in DOMAIN queue[p] : queue[p][k] \in Msgs \X Versions
  BY DEF RadarInv, Tables
<1>3. \A p \in Procs : work[p].pc \in Pcs /\ work[p].rows \subseteq Rows /\ work[p].found \subseteq Rows
  BY DEF RadarInv, WorkOK, IsWork, Holds
<1>4. scan.pc \in {"off", "peers", "page", "message", "scanned"}
  BY DEF RadarInv, ScanOK, IsScan
<1> QED
  BY <1>1, <1>2, <1>3, <1>4 DEF RadarInv, TypeOK, Tables, RulesOK, EventsOK

-----------------------------------------------------------------------------
(* Handling an update, or a message of a history.                          *)
LEMMA WorkInv ==
  ASSUME RadarInv, NEW p \in Procs, NEW d, IsWork(d), d.pc # "alert", d.rows \cup d.found \subseteq Pairs,
         work' = [work EXCEPT ![p] = d],
         p = Scan => d.pc # "done" /\ (work[p].pc = "idle" => d.pc = "idle"),
         UNCHANGED <<posted, tables, alerts, scan, enabling>>,
         queue' \in [Peers -> Seq(Msgs \X Versions)],
         \A q \in Peers \ {p} : queue'[q] = queue[q],
         p \in Peers =>
           d.pc = "idle" \/ (queue'[p] = queue[p] /\ (work[p].pc # "idle" \/ queue[p] # <<>>)),
         faults' \in 0..MaxFaults,
         owed' \in [Procs -> SUBSET Keys]
  PROVE  RadarInv' /\ work'[p] = d /\ \A q \in Procs \ {p} : work'[q] = work[q]
<1>1. WorkOK' /\ work'[p] = d /\ \A q \in Procs \ {p} : work'[q] = work[q]
  BY Goes DEF RadarInv
<1>2. Tables'
  BY DEF RadarInv, Tables, tables
<1>3. RulesOK' /\ EventsOK' /\ ScanOK'
  BY Undisturbed DEF RadarInv, tables
<1>4. ScanWorks'
  BY <1>1, ScanGoes DEF RadarInv
<1>5. NamesOK'
  <2>1. \A q \in Procs : work'[q].rows \cup work'[q].found \subseteq Pairs
    BY <1>1, PairsOf
  <2> QED
    BY <2>1, PairsOf, NamesKept DEF RadarInv, tables
<1>6. AlertsOK'
  BY <1>1, AlertsKept DEF RadarInv, tables
<1>7. Queued'
  BY <1>1 DEF RadarInv, Queued, Procs
<1> QED
  BY <1>1, <1>2, <1>3, <1>4, <1>5, <1>6, <1>7 DEF RadarInv

LEMMA DueKeys == ASSUME RulesOK, NEW m \in Msgs, NEW v PROVE Due(m, v) \subseteq Keys
BY DEF Due, Keys, RulesOK

LEMMA ListInv ==
  ASSUME RadarInv, NEW p \in Procs, ListKeywords(p)
  PROVE  RadarInv'
<1> DEFINE all == {<<r.id, r.phrase>> : r \in rules}
           w == [work[p] EXCEPT !.rows = all]
           d == RowsRead(p, w)
<1>1. work[p].pc = "list" /\ work' = [work EXCEPT ![p] = d] /\ IsWork(work[p])
  BY DEF ListKeywords, RadarInv, WorkOK
<1>2. all \subseteq Rows /\ all \subseteq Pairs
  BY PairsOf DEF Rows, RadarInv, RulesOK
<1> HIDE DEF all
<1>3. /\ Holds(w) /\ w.msg \in Msgs /\ w.ver \in Versions /\ w.rows = all /\ w.found = {}
      /\ w.msg = work[p].msg /\ w.ver = work[p].ver
  <2>1. Fields(w)
    BY <1>1, FieldsKept DEF IsWork, Holds
  <2>2. /\ w.msg = work[p].msg /\ w.ver = work[p].ver /\ w.rows = all /\ w.found = work[p].found
        /\ w.got = work[p].got
    BY <1>1 DEF IsWork, Holds, Fields
  <2> QED
    BY <1>1, <1>2, <2>1, <2>2 DEF IsWork, Holds
<1> HIDE DEF w
<1>4. IsWork(d) /\ d.pc # "alert" /\ d.rows \cup d.found \subseteq all /\ (p = Scan => d.pc # "done")
  BY <1>3, RowsReadWork DEF Idle
<1> HIDE DEF d
<1>5. owed' \in [Procs -> SUBSET Keys]
  BY <1>1, DueKeys DEF ListKeywords, RadarInv, Tables, IsWork
<1>6. queue' = queue /\ queue' \in [Peers -> Seq(Msgs \X Versions)] /\ faults' \in 0..MaxFaults
  BY DEF ListKeywords, RadarInv, Tables
<1>7. UNCHANGED <<posted, tables, alerts, scan, enabling>>
  BY DEF ListKeywords
<1> QED
  BY <1>1, <1>2, <1>4, <1>5, <1>6, <1>7, WorkInv

(* The outcomes of loadKeywordDetails: one detail more, or the rule is     *)
(* found to match or not.                                                  *)
Reads(p) == Details(work[p].got, Stored(work[p].id))[work[p].detail]
Row(p) == CHOOSE r \in work[p].rows : r[1] = work[p].id
Hit(p) == Wanted(work[p].msg, work[p].ver, Row(p)[2], Reads(p))
MoreRead(p, d) ==
  /\ work[p].detail < 4 /\ d.pc = "detail" /\ d.detail = work[p].detail + 1 /\ d.got = Reads(p)
  /\ d.id = work[p].id /\ d.rows = work[p].rows /\ d.found = work[p].found
  /\ d.msg = work[p].msg /\ d.ver = work[p].ver
RuleRead(p, d) ==
  /\ work[p].detail = 4 /\ d.rows = work[p].rows \ {Row(p)}
  /\ d.found = IF Hit(p) THEN work[p].found \cup {Row(p)} ELSE work[p].found
  /\ d.pc = "detail" => d.detail = 1
  /\ d.pc \notin {"alert", "list"}
  /\ (p = Scan => d.pc # "done") /\ (p # Scan => d.pc # "idle")
  /\ d.pc # "idle" => d.msg = work[p].msg /\ d.ver = work[p].ver
LEMMA DetailRead ==
  ASSUME RulesOK, WorkOK, NEW p \in Procs, loadKeywordDetails(p)
  PROVE  /\ Row(p) \in work[p].rows /\ Row(p)[1] = work[p].id
         /\ \E d : work' = [work EXCEPT ![p] = d] /\ IsWork(d) /\ (MoreRead(p, d) \/ RuleRead(p, d))
<1> DEFINE w == work[p]
<1>1. w.pc = "detail" /\ IsWork(w) /\ w.msg \in Msgs /\ w.ver \in Versions /\ w.detail \in 1..4
  BY DEF loadKeywordDetails, WorkOK, IsWork
<1>2. Row(p) \in w.rows /\ Row(p)[1] = w.id
  BY <1>1 DEF IsWork, Row
<1>3. IsBody(Reads(p))
  BY <1>1, StoredBody, DetailsRead DEF IsWork, Holds, Reads
<1>4. work' = [work EXCEPT ![p] =
                 IF w.detail < 4 THEN [w EXCEPT !.detail = @ + 1, !.got = Reads(p)]
                 ELSE RowsRead(p, [w EXCEPT !.rows = @ \ {Row(p)},
                                            !.found = IF Hit(p) THEN @ \cup {Row(p)} ELSE @])]
  BY DEF loadKeywordDetails, Reads, Row, Hit
<1>5. CASE w.detail < 4
  <2> DEFINE d == [w EXCEPT !.detail = @ + 1, !.got = Reads(p)]
  <2>1. Fields(d)
    BY <1>1, FieldsKept, Zenon DEF IsWork, Holds
  <2>2. /\ d.pc = "detail" /\ d.detail = w.detail + 1 /\ d.got = Reads(p) /\ d.rows = w.rows
        /\ d.msg = w.msg /\ d.ver = w.ver /\ d.found = w.found /\ d.id = w.id
    BY <1>1 DEF IsWork, Holds, Fields
  <2>3. work' = [work EXCEPT ![p] = d]
    BY <1>4, <1>5
  <2> HIDE DEF d
  <2>4. w.detail + 1 \in 1..4
    BY <1>1, <1>5
  <2>5. IsWork(d)
    BY <1>1, <1>3, <2>1, <2>2, <2>4 DEF IsWork, Holds
  <2> QED
    BY <1>2, <1>5, <2>2, <2>3, <2>5 DEF MoreRead
<1>6. CASE ~(w.detail < 4)
  <2> DEFINE more == IF Hit(p) THEN w.found \cup {Row(p)} ELSE w.found
             u == [w EXCEPT !.rows = @ \ {Row(p)}, !.found = IF Hit(p) THEN @ \cup {Row(p)} ELSE @]
             d == RowsRead(p, u)
  <2>1. Fields(u)
    BY <1>1, FieldsKept, Zenon DEF IsWork, Holds
  <2>2. /\ u.rows = w.rows \ {Row(p)} /\ u.found = more /\ u.msg = w.msg /\ u.ver = w.ver /\ u.got = w.got
    BY <1>1 DEF IsWork, Holds, Fields
  <2>3. work' = [work EXCEPT ![p] = d]
    BY <1>4, <1>6
  <2> HIDE DEF u
  <2>4. Holds(u)
    BY <1>1, <1>2, <2>1, <2>2 DEF IsWork, Holds
  <2>5. /\ IsWork(d) /\ d.pc \notin {"alert", "list"} /\ d.rows = u.rows /\ d.found = u.found
        /\ (p = Scan => d.pc # "done") /\ (p # Scan => d.pc # "idle")
        /\ d.pc = "detail" => d.detail = 1
        /\ d.pc # "idle" => d.msg = w.msg /\ d.ver = w.ver
    BY <1>1, <2>2, <2>4, RowsReadWork, IdleRows
  <2>6. w.detail = 4
    BY <1>1, <1>6
  <2> QED
    BY <1>2, <2>2, <2>3, <2>5, <2>6 DEF RuleRead
<1> QED
  BY <1>5, <1>6

LEMMA DetailInv ==
  ASSUME RadarInv, NEW p \in Procs, loadKeywordDetails(p)
  PROVE  RadarInv'
<1>0. PICK d : work' = [work EXCEPT ![p] = d] /\ IsWork(d) /\ (MoreRead(p, d) \/ RuleRead(p, d))
  BY DetailRead DEF RadarInv
<1>1. /\ work' = [work EXCEPT ![p] = d] /\ IsWork(d) /\ d.pc # "alert" /\ (p = Scan => d.pc # "done")
      /\ d.rows \subseteq work[p].rows /\ d.found \subseteq work[p].found \cup work[p].rows
  BY <1>0, DetailRead DEF RadarInv, MoreRead, RuleRead
<1>2. d.rows \cup d.found \subseteq Pairs
  BY <1>1, PairsOf
<1>3. work[p].pc = "detail" /\ UNCHANGED <<posted, queue, tables, alerts, scan, enabling, faults, owed>>
  BY DEF loadKeywordDetails
<1>4. queue' \in [Peers -> Seq(Msgs \X Versions)] /\ faults' \in 0..MaxFaults /\ owed' \in [Procs -> SUBSET Keys]
  BY <1>3 DEF RadarInv, Tables
<1> QED
  BY <1>1, <1>2, <1>3, <1>4, WorkInv

(* What follows a recorded event and an alert.                             *)
LEMMA RecordingWork ==
  ASSUME NEW p \in Procs, NEW w, Holds(w), w.msg \in Msgs, w.ver \in Versions, w.rows = {}
  PROVE  LET d == Recording(p, w)
         IN  /\ IsWork(d) /\ d.rows = {} /\ d.found = w.found
             /\ \/ w.found # {} /\ d.pc = "record" /\ d.msg = w.msg /\ d.ver = w.ver
                \/ w.found = {} /\ p # Scan /\ d.pc = "done" /\ d.msg = w.msg /\ d.ver = w.ver
                \/ w.found = {} /\ p = Scan /\ d = Idle
<1>1. CASE w.found # {}
  <2> DEFINE d == [w EXCEPT !.pc = "record", !.id = 0]
  <2>1. Fields(d)
    BY FieldsKept, Zenon DEF Holds
  <2>2. /\ d.pc = "record" /\ d.msg = w.msg /\ d.ver = w.ver /\ d.rows = w.rows /\ d.found = w.found
        /\ d.got = w.got
    BY DEF Holds, Fields
  <2>3. Recording(p, w) = d
    BY <1>1 DEF Recording
  <2> HIDE DEF d
  <2>4. IsWork(d)
    BY <2>1, <2>2 DEF IsWork, Holds, Pcs
  <2> QED
    BY <1>1, <2>2, <2>3, <2>4
<1>2. CASE w.found = {} /\ p # Scan
  <2> DEFINE d == [w EXCEPT !.pc = "done", !.id = 0, !.detail = 0]
  <2>1. Fields(d)
    BY FieldsKept, Zenon DEF Holds
  <2>2. /\ d.pc = "done" /\ d.msg = w.msg /\ d.ver = w.ver /\ d.rows = w.rows /\ d.found = w.found
        /\ d.got = w.got
    BY DEF Holds, Fields
  <2>3. Recording(p, w) = d
    BY <1>2 DEF Recording, Handled
  <2> HIDE DEF d
  <2>4. IsWork(d)
    BY <1>2, <2>1, <2>2 DEF IsWork, Holds, Pcs
  <2> QED
    BY <1>2, <2>2, <2>3, <2>4
<1>3. CASE w.found = {} /\ p = Scan
  BY <1>3, IdleWork DEF Recording, Handled, Idle
<1> QED
  BY <1>1, <1>2, <1>3

(* The outcomes of RecordEvent: the event was there, or it is new and, but *)
(* in a scan, to be announced.                                             *)
Outcome(p, row, d) ==
  /\ work[p].pc = "record" /\ work' = [work EXCEPT ![p] = d] /\ IsWork(d)
  /\ d.rows = {} /\ d.found = work[p].found \ {row}
  /\ d.pc \in {"record", "alert", "done"} => d.msg = work[p].msg /\ d.ver = work[p].ver
  /\ p = Scan => d.pc \in {"record", "idle"}
  /\ p # Scan => d.pc \in {"record", "alert", "done"}
  /\ d.pc = "alert" => d.id = row[1]
  /\ \/ Recorded(work[p].msg, row[2]) /\ events' = events /\ d.pc # "alert"
     \/ /\ ~Recorded(work[p].msg, row[2])
        /\ events' = events \cup {[msg |-> work[p].msg, phrase |-> row[2], rule |-> row[1],
                                   ver |-> work[p].ver]}
LEMMA EventRecorded ==
  ASSUME WorkOK, NEW p \in Procs, RecordEvent(p)
  PROVE  \E row \in work[p].found : \E d : Outcome(p, row, d)
<1> DEFINE w == work[p]
<1>1. w.pc = "record" /\ IsWork(w) /\ w.msg \in Msgs /\ w.ver \in Versions /\ w.rows = {}
  BY DEF RecordEvent, WorkOK, IsWork
<1>2. PICK row \in w.found :
        /\ events' = IF ~Recorded(w.msg, row[2])
                     THEN events \cup {[msg |-> w.msg, phrase |-> row[2], rule |-> row[1],
                                        ver |-> w.ver]}
                     ELSE events
        /\ work' = [work EXCEPT ![p] = IF ~Recorded(w.msg, row[2]) /\ p # Scan
                     THEN [[w EXCEPT !.found = @ \ {row}] EXCEPT !.pc = "alert", !.id = row[1]]
                     ELSE Recording(p, [w EXCEPT !.found = @ \ {row}])]
  BY DEF RecordEvent
<1> DEFINE rest == [w EXCEPT !.found = @ \ {row}]
           new == ~Recorded(w.msg, row[2])
<1>3. Holds(rest) /\ rest.rows = {} /\ rest.msg = w.msg /\ rest.ver = w.ver /\ rest.found = w.found \ {row}
  <2>1. Fields(rest)
    BY <1>1, FieldsKept DEF IsWork, Holds
  <2>2. /\ rest.rows = w.rows /\ rest.msg = w.msg /\ rest.ver = w.ver /\ rest.found = w.found \ {row}
        /\ rest.got = w.got
    BY <1>1 DEF IsWork, Holds, Fields
  <2> QED
    BY <1>1, <2>1, <2>2 DEF IsWork, Holds
<1>4. work' = [work EXCEPT ![p] = IF new /\ p # Scan THEN [rest EXCEPT !.pc = "alert", !.id = row[1]]
                                  ELSE Recording(p, rest)]
  BY <1>2
<1>5. events' = IF new THEN events \cup {[msg |-> w.msg, phrase |-> row[2], rule |-> row[1],
                                         ver |-> w.ver]}
                ELSE events
  BY <1>2
<1> HIDE DEF rest
<1>6. CASE new /\ p # Scan
  <2> DEFINE d == [rest EXCEPT !.pc = "alert", !.id = row[1]]
  <2>1. Fields(d)
    BY <1>3, FieldsKept, Zenon DEF Holds
  <2>2. /\ d.pc = "alert" /\ d.id = row[1] /\ d.msg = w.msg /\ d.ver = w.ver /\ d.rows = {}
        /\ d.found = w.found \ {row} /\ d.got = rest.got
    BY <1>3 DEF Holds, Fields
  <2>3. work' = [work EXCEPT ![p] = d]
    BY <1>4, <1>6
  <2> HIDE DEF d
  <2>4. IsWork(d)
    BY <1>1, <1>3, <2>1, <2>2 DEF IsWork, Holds, Pcs
  <2> QED
    BY <1>1, <1>5, <1>6, <2>2, <2>3, <2>4 DEF Outcome
<1>7. CASE ~(new /\ p # Scan)
  <2> DEFINE d == Recording(p, rest)
  <2>1. work' = [work EXCEPT ![p] = d]
    BY <1>4, <1>7
  <2>2. /\ IsWork(d) /\ d.rows = {} /\ d.found = w.found \ {row} /\ d.pc # "alert"
        /\ d.pc \in {"record", "alert", "done"} => d.msg = w.msg /\ d.ver = w.ver
        /\ p = Scan => d.pc \in {"record", "idle"}
        /\ p # Scan => d.pc \in {"record", "alert", "done"}
    BY <1>1, <1>3, RecordingWork DEF Idle
  <2> HIDE DEF d
  <2>3. \/ new /\ events' = events \cup {[msg |-> w.msg, phrase |-> row[2], rule |-> row[1],
                                           ver |-> w.ver]}
        \/ ~new /\ events' = events
    BY <1>5
  <2> QED
    BY <1>1, <2>1, <2>2, <2>3 DEF Outcome
<1> QED
  BY <1>6, <1>7

LEMMA RecordInv ==
  ASSUME RadarInv, NEW p \in Procs, RecordEvent(p)
  PROVE  RadarInv'
<1> DEFINE w == work[p]
<1>0. PICK row \in w.found : \E d : Outcome(p, row, d)
  BY EventRecorded DEF RadarInv
<1>1. PICK d : Outcome(p, row, d)
  BY <1>0
<1>01. /\ w.pc = "record" /\ work' = [work EXCEPT ![p] = d] /\ IsWork(d)
       /\ d.rows = {} /\ d.found = w.found \ {row} /\ (d.pc = "alert" => d.id = row[1])
       /\ d.pc \in {"record", "alert", "done"} => d.msg = w.msg /\ d.ver = w.ver
       /\ p = Scan => d.pc \notin {"alert", "done"}
       /\ \/ Recorded(w.msg, row[2]) /\ events' = events /\ d.pc # "alert"
          \/ /\ ~Recorded(w.msg, row[2])
             /\ events' = events \cup {[msg |-> w.msg, phrase |-> row[2], rule |-> row[1],
                                        ver |-> w.ver]}
  BY <1>1 DEF Outcome
<1>2. /\ UNCHANGED <<posted, queue, peers, rules, nextId, subscribed, alerts, scan, enabling, faults, owed>>
      /\ w.msg \in Msgs /\ w.ver \in Versions
  BY <1>01 DEF RecordEvent, RadarInv, WorkOK, IsWork
<1>3. WorkOK' /\ work'[p] = d /\ \A q \in Procs \ {p} : work'[q] = work[q]
  BY <1>01, Goes DEF RadarInv
<1>4. row \in Pairs /\ row \in Rows /\ d.rows \cup d.found \subseteq Pairs /\ row = <<row[1], row[2]>>
  <2>1. row \in Pairs /\ d.rows \cup d.found \subseteq Pairs
    BY <1>01, PairsOf
  <2>2. row \in Rows
    BY <2>1 DEF RadarInv, NamesOK
  <2> QED
    BY <2>1, <2>2 DEF Rows
<1>5. CASE events' = events /\ d.pc # "alert"
  <2>1. queue' \in [Peers -> Seq(Msgs \X Versions)] /\ faults' \in 0..MaxFaults /\ owed' \in [Procs -> SUBSET Keys]
    BY <1>2 DEF RadarInv, Tables
  <2> QED
    BY <1>01, <1>2, <1>4, <1>5, <2>1, WorkInv DEF tables
<1>6. ASSUME ~Recorded(w.msg, row[2]),
             events' = events \cup {[msg |-> w.msg, phrase |-> row[2], rule |-> row[1], ver |-> w.ver]}
      PROVE  RadarInv'
  <2> DEFINE new == [msg |-> w.msg, phrase |-> row[2], rule |-> row[1], ver |-> w.ver]
  <2>1. /\ new \in [msg : Msgs, phrase : Phrases, rule : 1..MaxIds, ver : Versions]
        /\ new.msg = w.msg /\ new.phrase = row[2] /\ new.rule = row[1] /\ events' = events \cup {new}
    BY <1>2, <1>4, <1>6 DEF Rows
  <2> HIDE DEF new
  <2>2. EventsOK'
    BY <1>6, <2>1 DEF RadarInv, EventsOK, Recorded
  <2>3. Tables' /\ RulesOK' /\ ScanOK'
    BY <1>2, Undisturbed DEF RadarInv, Tables
  <2>4. ScanWorks' /\ Queued'
    BY <1>01, <1>2, <1>3, ScanGoes DEF RadarInv, Queued
  <2>5. NamesOK'
    <3>1. \A q \in Procs : work'[q].rows \cup work'[q].found \subseteq Pairs
      BY <1>3, <1>4, PairsOf
    <3>2. \A e \in events' : <<e.rule, e.phrase>> \in Pairs
      BY <1>4, <2>1, PairsOf
    <3> QED
      BY <1>2, <3>1, <3>2, PairsOf, NamesKept DEF RadarInv
  <2>6. \A e \in events : e.msg = w.msg => e.rule # row[1]
    BY <1>4, <1>6, PairsOf DEF RadarInv, NamesOK, Recorded
  <2>7. \A q \in Procs \ {p} : work[q].pc = "alert" => ~(work[q].msg = w.msg /\ work[q].id = row[1])
    BY <2>6 DEF RadarInv, AlertsOK, Unsent
  <2>8. alerts[<<w.msg, row[2]>>] = 0
    <3>1. <<w.msg, row[2]>> \in Keys
      BY <1>2, <1>4 DEF Keys, Rows
    <3>2. alerts[<<w.msg, row[2]>>] \in 0..2
      BY <3>1 DEF RadarInv, Tables
    <3>3. ~(alerts[<<w.msg, row[2]>>] > 0)
      BY <1>6, <3>1 DEF RadarInv, AlertsOK
    <3> QED
      BY <3>2, <3>3
  <2>9. AlertsOK'
    <3>1. \A k \in Keys : alerts'[k] <= 1 /\ (alerts'[k] > 0 => Recorded(k[1], k[2])')
      BY <1>2, <2>1 DEF RadarInv, AlertsOK, Recorded
    <3>2. \A q \in Procs : work'[q].pc = "alert" => Unsent(work[q])'
      <4> SUFFICES ASSUME NEW q \in Procs, work'[q].pc = "alert" PROVE Unsent(work[q])'
        OBVIOUS
      <4>1. CASE q = p
        <5>1. d.msg = w.msg /\ d.id = row[1]
          BY <1>01, <1>3, <4>1
        <5> QED
          BY <1>2, <1>3, <2>1, <2>8, <4>1, <5>1 DEF Unsent
      <4>2. CASE q # p
        <5>1. work'[q] = work[q] /\ Unsent(work[q])
          BY <1>3, <4>2 DEF RadarInv, AlertsOK
        <5>2. PICK e \in events : e.msg = work[q].msg /\ e.rule = work[q].id /\ alerts[<<e.msg, e.phrase>>] = 0
          BY <5>1 DEF Unsent
        <5> QED
          BY <1>2, <2>1, <5>1, <5>2 DEF Unsent
      <4> QED
        BY <4>1, <4>2
    <3>3. \A q, r \in Procs :
            work'[q].pc = "alert" /\ work'[r].pc = "alert" /\ work'[q].msg = work'[r].msg
              /\ work'[q].id = work'[r].id => q = r
      <4>1. d.pc = "alert" => d.msg = w.msg /\ d.id = row[1]
        BY <1>01
      <4> QED
        BY <1>3, <2>7, <4>1 DEF RadarInv, AlertsOK
    <3> QED
      BY <3>1, <3>2, <3>3 DEF AlertsOK
  <2> QED
    BY <1>3, <2>2, <2>3, <2>4, <2>5, <2>9 DEF RadarInv
<1> QED
  BY <1>01, <1>5, <1>6

(* The alert that goes out is the one of the event that was recorded.      *)
LEMMA NotifyInv ==
  ASSUME RadarInv, NEW p \in Procs, NotifyEvent(p)
  PROVE  RadarInv' /\ work' = [work EXCEPT ![p] = Recording(p, work[p])]
<1> DEFINE w == work[p]
           phrase == (CHOOSE e \in events : e.msg = w.msg /\ e.rule = w.id).phrase
           d == Recording(p, w)
<1>1. /\ w.pc = "alert" /\ work' = [work EXCEPT ![p] = d]
      /\ UNCHANGED <<posted, queue, peers, rules, nextId, events, subscribed, scan, enabling, owed>>
      /\ \/ faults' = faults /\ alerts' = [alerts EXCEPT ![<<w.msg, phrase>>] = IF @ < 2 THEN @ + 1 ELSE @]
         \/ UNCHANGED <<alerts, faults>>
         \/ faults < MaxFaults /\ faults' = faults + 1 /\ UNCHANGED alerts
  BY DEF NotifyEvent, tables
<1>2. /\ IsWork(w) /\ w.msg \in Msgs /\ w.ver \in Versions /\ p # Scan /\ w.rows = {}
  BY <1>1 DEF RadarInv, WorkOK, ScanWorks, IsWork
<1>3. IsWork(d) /\ d.pc # "alert" /\ d.rows \cup d.found \subseteq w.found /\ d.pc # "idle"
  BY <1>2, RecordingWork DEF IsWork
<1> HIDE DEF d
<1>4. WorkOK' /\ work'[p] = d /\ \A q \in Procs \ {p} : work'[q] = work[q]
  BY <1>1, <1>3, Goes DEF RadarInv
<1>5. RulesOK' /\ EventsOK' /\ ScanOK' /\ ScanWorks' /\ Queued'
  BY <1>1, <1>2, <1>4, ScanGoes, Undisturbed DEF RadarInv, Queued
<1>6. NamesOK'
  BY <1>1, <1>3, <1>4, PairsOf, NamesKept DEF RadarInv
<1>7. faults' \in 0..MaxFaults
  BY <1>1, RadarAssumption DEF RadarInv, Tables
<1>8. CASE UNCHANGED alerts
  <2>1. Tables'
    BY <1>1, <1>7, <1>8 DEF RadarInv, Tables
  <2>2. AlertsOK'
    BY <1>1, <1>3, <1>4, <1>8, AlertsKept DEF RadarInv
  <2> QED
    BY <1>1, <1>4, <1>5, <1>6, <2>1, <2>2 DEF RadarInv, d
<1>9. CASE alerts' = [alerts EXCEPT ![<<w.msg, phrase>>] = IF @ < 2 THEN @ + 1 ELSE @]
  <2> DEFINE e == CHOOSE f \in events : f.msg = w.msg /\ f.rule = w.id
             key == <<w.msg, phrase>>
  <2>1. PICK f \in events : f.msg = w.msg /\ f.rule = w.id /\ alerts[<<f.msg, f.phrase>>] = 0
    BY <1>1 DEF RadarInv, AlertsOK, Unsent
  <2>2. e \in events /\ e.msg = w.msg /\ e.rule = w.id /\ phrase = e.phrase
    BY <2>1
  <2> HIDE DEF e, phrase
  <2>3. e.phrase = f.phrase
    <3>1. <<e.rule, e.phrase>> \in Pairs /\ <<f.rule, f.phrase>> \in Pairs
      BY <2>1, <2>2, PairsOf
    <3>2. \A x, y \in Pairs : x[1] = y[1] => x[2] = y[2]
      BY DEF RadarInv, NamesOK
    <3> QED
      BY <2>1, <2>2, <3>1, <3>2
  <2>4. key \in Keys /\ alerts[key] = 0 /\ key = <<e.msg, e.phrase>> /\ Recorded(w.msg, phrase)
    BY <1>2, <2>1, <2>2, <2>3 DEF Keys, RadarInv, EventsOK, Recorded
  <2> HIDE DEF key
  <2>5. alerts \in [Keys -> 0..2]
    BY DEF RadarInv, Tables
  <2>6. alerts' \in [Keys -> 0..2] /\ alerts'[key] = 1 /\ \A k \in Keys \ {key} : alerts'[k] = alerts[k]
    BY <1>9, <2>4, <2>5 DEF key
  <2>7. Tables'
    BY <1>1, <1>7, <2>6 DEF RadarInv, Tables
  <2>8. AlertsOK'
    <3>1. \A k \in Keys : alerts'[k] <= 1 /\ (alerts'[k] > 0 => Recorded(k[1], k[2])')
      <4>1. key[1] = w.msg /\ key[2] = phrase
        BY DEF key
      <4> QED
        BY <1>1, <2>4, <2>6, <4>1 DEF RadarInv, AlertsOK, Recorded
    <3>2. \A q \in Procs : work'[q].pc = "alert" => q # p /\ work'[q] = work[q]
      BY <1>3, <1>4
    <3>3. \A q \in Procs : work'[q].pc = "alert" => Unsent(work[q])'
      <4> SUFFICES ASSUME NEW q \in Procs, work'[q].pc = "alert" PROVE Unsent(work[q])'
        OBVIOUS
      <4>1. q # p /\ work'[q] = work[q] /\ work[q].pc = "alert"
        BY <3>2
      <4>2. PICK g \in events : g.msg = work[q].msg /\ g.rule = work[q].id /\ alerts[<<g.msg, g.phrase>>] = 0
        BY <4>1 DEF RadarInv, AlertsOK, Unsent
      <4>3. ~(work[q].msg = w.msg /\ work[q].id = w.id)
        BY <1>1, <4>1 DEF RadarInv, AlertsOK
      <4>4. <<g.msg, g.phrase>> # key /\ <<g.msg, g.phrase>> \in Keys
        BY <2>2, <2>4, <4>2, <4>3 DEF RadarInv, EventsOK, Keys
      <4>5. alerts'[<<g.msg, g.phrase>>] = 0
        BY <2>6, <4>2, <4>4
      <4> QED
        BY <1>1, <4>1, <4>2, <4>5 DEF Unsent
    <3>4. \A q, r \in Procs :
            work'[q].pc = "alert" /\ work'[r].pc = "alert" /\ work'[q].msg = work'[r].msg
              /\ work'[q].id = work'[r].id => q = r
      BY <3>2 DEF RadarInv, AlertsOK
    <3> QED
      BY <3>1, <3>3, <3>4 DEF AlertsOK
  <2> QED
    BY <1>1, <1>4, <1>5, <1>6, <2>7, <2>8 DEF RadarInv, d
<1> QED
  BY <1>1, <1>8, <1>9

LEMMA StartedWork ==
  ASSUME NEW m \in Msgs, NEW v \in Versions, NEW pc \in {"list", "done"}
  PROVE  LET d == [Idle EXCEPT !.pc = pc, !.msg = m, !.ver = v]
         IN  /\ IsWork(d) /\ d.pc = pc /\ d.msg = m /\ d.ver = v /\ d.rows = {} /\ d.found = {}
<1> DEFINE d == [Idle EXCEPT !.pc = pc, !.msg = m, !.ver = v]
<1>1. Fields(d)
  BY IdleWork, FieldsKept, Zenon DEF IsWork, Holds
<1>2. d.pc = pc /\ d.msg = m /\ d.ver = v /\ d.rows = {} /\ d.found = {} /\ d.got = Empty
  BY DEF Idle
<1> HIDE DEF d
<1>3. IsWork(d)
  BY <1>1, <1>2, EmptyBody DEF IsWork, Holds, Pcs
<1> QED
  BY <1>2, <1>3 DEF d

LEMMA LookingWork ==
  ASSUME NEW m \in Msgs, NEW v \in Versions
  PROVE  LET d == Looking(m, v)
         IN  IsWork(d) /\ d.pc = "list" /\ d.msg = m /\ d.ver = v /\ d.rows = {} /\ d.found = {}
BY StartedWork DEF Looking

LEMMA UpdateInv ==
  ASSUME RadarInv, NEW p \in Peers, Chat(p) \/ UpdateFails(p)
  PROVE  RadarInv'
<1>0. p \in Procs /\ p # Scan
  BY RadarAssumption DEF Procs
<1>1. CASE handleUpdate(p)
  <2> DEFINE m == Head(queue[p])[1]
             v == Head(queue[p])[2]
             d == IF Looks(m, v) THEN Looking(m, v) ELSE [Idle EXCEPT !.pc = "done", !.msg = m, !.ver = v]
  <2>1. /\ queue[p] # <<>> /\ work' = [work EXCEPT ![p] = d]
        /\ UNCHANGED <<queue, faults, owed, posted, tables, alerts, scan, enabling>>
    BY <1>1 DEF handleUpdate, ChatOnly
  <2>2. Head(queue[p]) \in Msgs \X Versions
    BY <2>1, HeadTailProperties DEF RadarInv, Tables
  <2>3. m \in Msgs /\ v \in Versions
    BY <2>2
  <2> HIDE DEF m, v
  <2>4. IsWork(d) /\ d.pc # "alert" /\ d.rows \cup d.found \subseteq Pairs
    BY <2>3, StartedWork DEF Looking
  <2> HIDE DEF d
  <2>5. queue' \in [Peers -> Seq(Msgs \X Versions)] /\ faults' \in 0..MaxFaults /\ owed' \in [Procs -> SUBSET Keys]
    BY <2>1 DEF RadarInv, Tables
  <2> QED
    BY <1>0, <2>1, <2>4, <2>5, WorkInv
<1>2. ASSUME work' = [work EXCEPT ![p] = Idle], queue[p] # <<>>, faults' \in 0..MaxFaults,
             queue' \in {queue, [queue EXCEPT ![p] = Tail(@)]}, Clear(p), ChatOnly
      PROVE  RadarInv'
  <2>1. queue \in [Peers -> Seq(Msgs \X Versions)] /\ owed \in [Procs -> SUBSET Keys]
    BY DEF RadarInv, Tables
  <2>2. Tail(queue[p]) \in Seq(Msgs \X Versions)
    BY <1>2, <2>1, HeadTailProperties
  <2>3. queue' \in [Peers -> Seq(Msgs \X Versions)] /\ owed' \in [Procs -> SUBSET Keys]
    BY <1>2, <2>1, <2>2 DEF Clear
  <2>4. UNCHANGED <<posted, tables, alerts, scan, enabling>> /\ \A q \in Peers \ {p} : queue'[q] = queue[q]
    BY <1>2, <2>1 DEF ChatOnly
  <2>5. Idle.rows \cup Idle.found \subseteq Pairs /\ Idle.pc # "alert"
    BY DEF Idle
  <2> QED
    BY <1>0, <1>2, <2>3, <2>4, <2>5, IdleWork, WorkInv
<1>3. CASE SetChannelPts(p)
  <2>1. queue[p] # <<>>
    BY <1>3 DEF SetChannelPts, RadarInv, Queued
  <2>2. faults' \in 0..MaxFaults
    BY <1>3 DEF SetChannelPts, RadarInv, Tables
  <2> QED
    BY <1>2, <1>3, <2>1, <2>2 DEF SetChannelPts
<1>4. CASE UpdateFails(p)
  <2>1. faults' \in 0..MaxFaults
    BY <1>4, RadarAssumption DEF UpdateFails, RadarInv, Tables
  <2> QED
    BY <1>2, <1>4, <2>1 DEF UpdateFails
<1> QED
  BY <1>1, <1>3, <1>4 DEF Chat

-----------------------------------------------------------------------------
(* Telegram, and the history.                                              *)
LEMMA TelegramInv ==
  ASSUME RadarInv, NEW m \in Msgs, NEW v \in Versions, m \notin Service \/ posted[m] = None,
         posted' = [posted EXCEPT ![m] = v],
         queue' = [queue EXCEPT ![PeerOf[m]] = Append(@, <<m, v>>)],
         owed' \in [Procs -> SUBSET Keys],
         UNCHANGED <<tables, alerts, work, scan, enabling, faults>>
  PROVE  RadarInv'
<1>1. posted' \in [Msgs -> Versions \cup {None}] /\ posted'[m] = v /\ \A n \in Msgs \ {m} : posted'[n] = posted[n]
  BY DEF RadarInv, Tables
<1>2. None \notin Versions
  BY RadarAssumption DEF None, Versions
<1>3. IsFiniteSet({n \in Msgs : posted'[n] # None})
  <2>1. {n \in Msgs : posted'[n] # None} = {n \in Msgs : posted[n] # None} \cup {m}
    BY <1>1, <1>2
  <2>2. IsFiniteSet({n \in Msgs : posted[n] # None} \cup {m})
    BY FS_AddElement DEF RadarInv, Tables
  <2> QED
    BY <2>1, <2>2, Zenon
<1>4. PeerOf[m] \in Peers
  BY RadarAssumption
<1>5. queue \in [Peers -> Seq(Msgs \X Versions)] /\ <<m, v>> \in Msgs \X Versions
  BY DEF RadarInv, Tables
<1>6. /\ Append(queue[PeerOf[m]], <<m, v>>) \in Seq(Msgs \X Versions)
      /\ Append(queue[PeerOf[m]], <<m, v>>) # <<>>
  <2> DEFINE q == queue[PeerOf[m]]
             new == <<m, v>>
  <2>1. q \in Seq(Msgs \X Versions) /\ new \in Msgs \X Versions
    BY <1>4, <1>5
  <2> HIDE DEF q, new
  <2>2. Append(q, new) \in Seq(Msgs \X Versions)
    BY <2>1, AppendProperties, Zenon
  <2>3. Append(q, new) # <<>>
    BY <2>1, AppendProperties, Zenon
  <2> QED
    BY <2>2, <2>3 DEF q, new
<1>7. /\ queue' \in [Peers -> Seq(Msgs \X Versions)]
      /\ \A p \in Peers : queue'[p] = queue[p] \/ queue'[p] # <<>>
  BY <1>4, <1>5, <1>6
<1>8. Tables'
  BY <1>1, <1>3, <1>7 DEF RadarInv, Tables, tables
<1>9. Queued'
  BY <1>7 DEF RadarInv, Queued
<1>10. ScanOK'
  BY <1>1 DEF RadarInv, ScanOK, IsScan
<1>11. RulesOK' /\ EventsOK' /\ WorkOK' /\ ScanWorks'
  BY Undisturbed DEF RadarInv, tables
<1>12. NamesOK' /\ AlertsOK'
  BY PairsOf, NamesKept, AlertsKept DEF RadarInv, tables
<1> QED
  BY <1>8, <1>9, <1>10, <1>11, <1>12 DEF RadarInv

LEMMA PostInv == ASSUME RadarInv, NEW m \in Msgs, Post(m) \/ Edit(m) PROVE RadarInv'
<1>0. 0 \in Versions /\ MaxVer \in Nat
  BY RadarAssumption DEF Versions
<1>1. CASE Post(m)
  <2>1. owed' \in [Procs -> SUBSET Keys]
    BY <1>1 DEF Post, RadarInv, Tables
  <2> QED
    BY <1>0, <1>1, <2>1, TelegramInv DEF Post
<1>2. CASE Edit(m)
  <2>1. posted[m] \in Versions \cup {None} /\ posted[m] < MaxVer
    BY <1>2 DEF Edit, RadarInv, Tables
  <2>2. posted[m] + 1 \in Versions
    BY <1>0, <2>1 DEF Versions, None
  <2>3. posted' = [posted EXCEPT ![m] = posted[m] + 1]
    BY <1>2 DEF Edit
  <2>4. owed' \in [Procs -> SUBSET Keys]
    BY <1>2 DEF Edit, RadarInv, Tables
  <2> QED
    BY <1>2, <2>2, <2>3, <2>4, TelegramInv DEF Edit
<1> QED
  BY <1>1, <1>2

(* A step of a scan.                                                       *)
LEMMA HistoryInv ==
  ASSUME RadarInv, ScanOnly, ScanOK', NEW d, IsWork(d), d.pc \notin {"alert", "done"}, d.rows = {}, d.found = {},
         work' = work \/ work' = [work EXCEPT ![Scan] = d],
         scan'.pc \notin {"page", "message"} => work'[Scan].pc = "idle",
         faults' \in 0..MaxFaults, owed' \in [Procs -> SUBSET Keys]
  PROVE  RadarInv'
<1>0. Scan \in Procs /\ \A p \in Peers : p # Scan
  BY RadarAssumption DEF Procs
<1>1. UNCHANGED <<posted, queue, peers, rules, nextId, events, subscribed, alerts, enabling>>
  BY DEF ScanOnly, tables
<1>2. /\ WorkOK' /\ \A q \in Procs \ {Scan} : work'[q] = work[q]
      /\ work'[Scan] = work[Scan] \/ work'[Scan] = d
  <2>1. CASE work' = work
    BY <2>1, Undisturbed DEF RadarInv
  <2>2. CASE work' = [work EXCEPT ![Scan] = d]
    BY <1>0, <2>2, Goes DEF RadarInv
  <2> QED
    BY <2>1, <2>2
<1>3. Tables'
  BY <1>1 DEF RadarInv, Tables
<1>4. RulesOK' /\ EventsOK'
  BY <1>1, Undisturbed DEF RadarInv
<1>5. Queued'
  BY <1>0, <1>1, <1>2 DEF RadarInv, Queued, Procs
<1>6. ScanWorks'
  BY <1>2 DEF RadarInv, ScanWorks
<1>7. NamesOK'
  BY <1>1, <1>2, PairsOf, NamesKept DEF RadarInv
<1>8. AlertsOK'
  BY <1>1, <1>2, AlertsKept DEF RadarInv
<1> QED
  BY <1>2, <1>3, <1>4, <1>5, <1>6, <1>7, <1>8 DEF RadarInv

LEMMA UnscannedOK ==
  /\ IsScan(Unscanned) /\ Unscanned.pc = "off" /\ Unscanned.page = {} /\ Unscanned.before = 0
  /\ \A S \in SUBSET Peers :
       LET s == [Unscanned EXCEPT !.pc = "peers", !.peers = S]
       IN  IsScan(s) /\ s.pc = "peers" /\ s.page = {} /\ s.before = 0
<1>1. /\ Unscanned.pc = "off" /\ Unscanned.page = {} /\ Unscanned.before = 0 /\ Unscanned.pages = 0
      /\ Unscanned.peers = {} /\ ScanFields(Unscanned)
  BY DEF Unscanned, ScanFields
<1>2. IsScan(Unscanned)
  BY <1>1, RadarAssumption DEF IsScan
<1>3. ASSUME NEW S \in SUBSET Peers
      PROVE  LET s == [Unscanned EXCEPT !.pc = "peers", !.peers = S]
             IN  IsScan(s) /\ s.pc = "peers" /\ s.page = {} /\ s.before = 0
  <2> DEFINE s == [Unscanned EXCEPT !.pc = "peers", !.peers = S]
  <2>1. ScanFields(s)
    BY <1>1, ScanKept, Zenon
  <2>2. s.pc = "peers" /\ s.page = {} /\ s.before = 0 /\ s.pages = 0 /\ s.peers = S
    BY DEF Unscanned
  <2> HIDE DEF s
  <2>3. IsScan(s)
    BY <2>1, <2>2, RadarAssumption DEF IsScan
  <2> QED
    BY <2>2, <2>3 DEF s
<1> QED
  BY <1>1, <1>2, <1>3

(* A page of the history is of messages that were posted.                  *)
LEMMA PageRead ==
  ASSUME RadarInv, scan.pc = "page"
  PROVE  LET page == Newest(Below(scan.peer, scan.before), PageSize)
         IN  \A m \in page : m \in Msgs /\ posted[m] \in Versions /\ PeerOf[m] = scan.peer
                               /\ (scan.before # 0 => m < scan.before)
BY DEF Newest, Below, RadarInv, Tables

LEMMA ScanStepOK ==
  ASSUME RadarInv, Backfill \/ Scans
  PROVE  ScanOK'
<1>0. posted' = posted /\ IsScan(scan) /\ ScanFields(scan) /\ {MaxPages, PageSize} \subseteq Nat
  BY RadarAssumption DEF Backfill, Scans, backfillPeer, getHistory, ScanMessage, SetMonitorPeerBackfilled,
                         ScanOnly, RadarInv, ScanOK, IsScan
<1>1. CASE Backfill
  <2> DEFINE on == {p \in Peers : peers[p] = "on"}
  <2>1. scan' = [Unscanned EXCEPT !.pc = "peers", !.peers = on] /\ on \in SUBSET Peers
    BY <1>1 DEF Backfill
  <2> HIDE DEF on
  <2> QED
    BY <2>1, UnscannedOK DEF ScanOK
<1>p. ASSUME scan' = PeerScanned, scan.pc \in {"page", "message"} PROVE ScanOK'
  <2> DEFINE s == [scan EXCEPT !.pc = "scanned", !.page = {}, !.before = 0, !.pages = 0]
  <2>1. ScanFields(s)
    BY <1>0, ScanKept, Zenon
  <2>2. /\ s.pc = "scanned" /\ s.page = {} /\ s.before = 0 /\ s.pages = 0 /\ s.peer = scan.peer
        /\ s.peers = scan.peers
    BY <1>0 DEF ScanFields
  <2>3. scan' = s
    BY <1>p DEF PeerScanned
  <2> HIDE DEF s
  <2>4. IsScan(s)
    BY <1>0, <1>p, <2>1, <2>2 DEF IsScan
  <2> QED
    BY <1>0, <2>2, <2>3, <2>4 DEF ScanOK
<1>2. CASE backfillPeer
  <2>1. PICK p \in scan.peers : scan' = [scan EXCEPT !.pc = "page", !.peer = p, !.peers = @ \ {p}]
    BY <1>2 DEF backfillPeer
  <2> DEFINE s == [scan EXCEPT !.pc = "page", !.peer = p, !.peers = @ \ {p}]
  <2>2. ScanFields(s)
    BY <1>0, ScanKept, Zenon
  <2>3. /\ s.pc = "page" /\ s.page = scan.page /\ s.before = scan.before /\ s.pages = scan.pages /\ s.peer = p
        /\ s.peers = scan.peers \ {p}
    BY <1>0 DEF ScanFields
  <2>4. scan.pc = "peers"
    BY <1>2 DEF backfillPeer
  <2> HIDE DEF s
  <2> QED
    <3>1. scan' = s /\ p \in Peers
      BY <1>0, <2>1 DEF IsScan, s
    <3>2. IsScan(s) /\ s.page = {} /\ s.before = 0
      BY <1>0, <2>2, <2>3, <2>4, <3>1 DEF IsScan
    <3> QED
      BY <3>1, <3>2 DEF ScanOK
<1>3. CASE getHistory
  <2> DEFINE page == Newest(Below(scan.peer, scan.before), PageSize)
             read == {<<m, posted[m]>> : m \in page}
             s == [scan EXCEPT !.pc = "message", !.page = read, !.pages = @ + 1]
  <2>0. scan.pc = "page" /\ scan' = IF page = {} \/ scan.pages = MaxPages THEN PeerScanned ELSE s
    BY <1>3 DEF getHistory
  <2>1. ScanFields(s)
    BY <1>0, ScanKept, Zenon
  <2>2. /\ s.pc = "message" /\ s.page = read /\ s.before = scan.before /\ s.pages = scan.pages + 1
        /\ s.peer = scan.peer /\ s.peers = scan.peers
    BY <1>0 DEF ScanFields
  <2>3. \A m \in page : m \in Msgs /\ posted[m] \in Versions /\ PeerOf[m] = scan.peer
    BY <2>0, PageRead
  <2>4. CASE page = {} \/ scan.pages = MaxPages
    BY <1>p, <2>0, <2>4
  <2>5. CASE ~(page = {} \/ scan.pages = MaxPages)
    <3>1. scan' = s
      BY <2>0, <2>5
    <3> HIDE DEF s, page
    <3>2. read # {} /\ read \subseteq Msgs \X Versions
      <4>1. read # {}
        BY <2>5, Zenon
      <4> QED
        BY <2>3, <4>1
    <3>3. \A x \in read : posted[x[1]] \in Versions /\ PeerOf[x[1]] = scan.peer
      BY <2>3
    <3>4. scan.pages + 1 \in 0..MaxPages /\ scan.pages + 1 > 0
      BY <1>0, <2>5 DEF IsScan
    <3> HIDE DEF read
    <3>5. IsScan(s)
      BY <1>0, <2>0, <2>1, <2>2, <3>2, <3>4 DEF IsScan
    <3> QED
      BY <1>0, <2>2, <3>1, <3>3, <3>5 DEF RadarInv, ScanOK
  <2> QED
    BY <2>4, <2>5
<1>4. CASE ScanMessage
  <2>1. PICK m \in scan.page :
          \/ scan' = PeerScanned
          \/ scan' = [scan EXCEPT !.page = @ \ {m}, !.before = m[1],
                                   !.pc = IF scan.page = {m} THEN "page" ELSE @]
    BY <1>4 DEF ScanMessage
  <2>2. scan.pc = "message"
    BY <1>4 DEF ScanMessage
  <2>3. CASE scan' = PeerScanned
    BY <1>p, <2>2, <2>3
  <2>4. ASSUME scan' = [scan EXCEPT !.page = @ \ {m}, !.before = m[1],
                                   !.pc = IF scan.page = {m} THEN "page" ELSE @]
        PROVE  ScanOK'
    <3> DEFINE pc == IF scan.page = {m} THEN "page" ELSE scan.pc
               s == [scan EXCEPT !.page = @ \ {m}, !.before = m[1], !.pc = pc]
    <3>1. ScanFields(s) /\ scan' = s
      BY <1>0, <2>4, ScanKept, Zenon
    <3>2. /\ s.pc = pc /\ s.page = scan.page \ {m} /\ s.before = m[1] /\ s.pages = scan.pages
          /\ s.peer = scan.peer /\ s.peers = scan.peers
      BY <1>0 DEF ScanFields
    <3> HIDE DEF s
    <3>3. m[1] \in Msgs /\ m[1] # 0 /\ posted[m[1]] \in Versions
      BY RadarAssumption DEF RadarInv, ScanOK, IsScan
    <3>4. scan.pages \in 1..MaxPages
      BY <1>0, <2>2 DEF IsScan
    <3>5. IsScan(s)
      BY <1>0, <2>2, <3>1, <3>2, <3>3, <3>4 DEF IsScan
    <3> QED
      BY <1>0, <3>1, <3>2, <3>3, <3>5 DEF RadarInv, ScanOK
  <2> QED
    BY <2>1, <2>3, <2>4
<1>5. CASE SetMonitorPeerBackfilled
  <2> DEFINE s == [scan EXCEPT !.pc = "peers", !.peer = Scan]
  <2>1. scan.pc = "scanned" /\ scan' \in {Unscanned, s}
    BY <1>5 DEF SetMonitorPeerBackfilled
  <2>2. ScanFields(s)
    BY <1>0, ScanKept, Zenon
  <2>3. /\ s.pc = "peers" /\ s.page = scan.page /\ s.before = scan.before /\ s.pages = scan.pages
        /\ s.peers = scan.peers
    BY <1>0 DEF ScanFields
  <2> HIDE DEF s
  <2>4. IsScan(s) /\ s.page = {} /\ s.before = 0
    BY <1>0, <2>1, <2>2, <2>3 DEF IsScan
  <2> QED
    BY <1>0, <2>1, <2>4, UnscannedOK DEF ScanOK
<1> QED
  BY <1>1, <1>2, <1>3, <1>4, <1>5 DEF Scans

LEMMA OwedScan ==
  ASSUME RadarInv, NEW S, S \subseteq Keys, owed' = [owed EXCEPT ![Scan] = S]
  PROVE  owed' \in [Procs -> SUBSET Keys]
BY DEF RadarInv, Tables

LEMMA ScanInv ==
  ASSUME RadarInv, Backfill \/ Scans \/ ScanFails
  PROVE  RadarInv'
<1>0. /\ owed \in [Procs -> SUBSET Keys] /\ faults \in 0..MaxFaults /\ Scan \in Procs
      /\ scan.pc \notin {"page", "message"} => work[Scan].pc = "idle"
  BY RadarAssumption DEF RadarInv, Tables, ScanWorks, Procs
<1>1. IsWork(Idle) /\ Idle.rows = {} /\ Idle.found = {} /\ Idle.pc = "idle"
  BY IdleWork, IdleRows
<1>2. CASE Backfill
  <2>1. work[Scan].pc = "idle" /\ UNCHANGED <<work, faults, owed>> /\ ScanOnly
    BY <1>0, <1>2 DEF Backfill
  <2> QED
    BY <1>0, <1>1, <1>2, <2>1, ScanStepOK, HistoryInv
<1>3. CASE backfillPeer
  <2>1. scan.pc = "peers" /\ UNCHANGED <<work, faults, owed>> /\ ScanOnly
    BY <1>3 DEF backfillPeer
  <2> QED
    BY <1>0, <1>1, <1>3, <2>1, ScanStepOK, HistoryInv DEF Scans
<1>4. CASE getHistory
  <2>1. work[Scan].pc = "idle" /\ UNCHANGED <<work, faults>> /\ ScanOnly
    BY <1>4 DEF getHistory
  <2>2. owed' \in [Procs -> SUBSET Keys]
    <3>1. UNION {Due(m, posted[m]) : m \in Within(scan.peer)} \subseteq Keys
      BY DueKeys DEF RadarInv, Within, Newest, Below
    <3>2. owed' = owed \/ owed' = [owed EXCEPT ![Scan] = UNION {Due(m, posted[m]) : m \in Within(scan.peer)}]
      BY <1>4 DEF getHistory
    <3> QED
      BY <1>0, <3>1, <3>2, OwedScan
  <2> QED
    BY <1>0, <1>1, <1>4, <2>1, <2>2, ScanStepOK, HistoryInv DEF Scans
<1>5. CASE ScanMessage
  <2>1. PICK m \in scan.page :
          IF EndsPeriod(m[1]) THEN scan' = PeerScanned /\ UNCHANGED work
          ELSE /\ scan' = [scan EXCEPT !.page = @ \ {m}, !.before = m[1],
                                       !.pc = IF scan.page = {m} THEN "page" ELSE @]
               /\ work' = IF Looks(m[1], m[2]) THEN [work EXCEPT ![Scan] = Looking(m[1], m[2])]
                          ELSE work
    BY <1>5 DEF ScanMessage
  <2>2. /\ scan.pc = "message" /\ work[Scan].pc = "idle" /\ ScanOnly /\ UNCHANGED <<faults, owed>>
        /\ ScanFields(scan)
    BY <1>5 DEF ScanMessage, RadarInv, ScanOK, IsScan
  <2>3. m[1] \in Msgs /\ m[2] \in Versions
    BY DEF RadarInv, ScanOK, IsScan
  <2> DEFINE d == Looking(m[1], m[2])
  <2>4. IsWork(d) /\ d.pc = "list" /\ d.rows = {} /\ d.found = {}
    BY <2>3, LookingWork
  <2>5. work' = work \/ work' = [work EXCEPT ![Scan] = d]
    BY <2>1
  <2> HIDE DEF d
  <2>6. scan'.pc \notin {"page", "message"} => work'[Scan].pc = "idle"
    <3>1. CASE EndsPeriod(m[1])
      BY <2>1, <2>2, <3>1
    <3>2. CASE ~EndsPeriod(m[1])
      <4>1. scan'.pc \in {"page", "message"}
        BY <2>1, <2>2, <3>2 DEF ScanFields
      <4> QED
        BY <4>1
    <3> QED
      BY <3>1, <3>2
  <2> QED
    BY <1>0, <1>5, <2>2, <2>4, <2>5, <2>6, ScanStepOK, HistoryInv DEF Scans
<1>6. CASE SetMonitorPeerBackfilled
  <2>1. scan.pc = "scanned" /\ UNCHANGED <<work, faults>> /\ ScanOnly /\ owed' = [owed EXCEPT ![Scan] = {}]
    BY <1>6 DEF SetMonitorPeerBackfilled, Clear
  <2>2. owed' \in [Procs -> SUBSET Keys]
    BY <1>0, <2>1
  <2> QED
    BY <1>0, <1>1, <1>6, <2>1, <2>2, ScanStepOK, HistoryInv DEF Scans
<1>7. CASE ScanFails
  <2>1. /\ work' = [work EXCEPT ![Scan] = Idle] /\ scan' = Unscanned /\ ScanOnly
        /\ owed' = [owed EXCEPT ![Scan] = {}] /\ faults' = faults + 1 /\ faults < MaxFaults
    BY <1>7 DEF ScanFails, Clear
  <2>2. owed' \in [Procs -> SUBSET Keys] /\ faults' \in 0..MaxFaults
    BY <1>0, <2>1, RadarAssumption
  <2>3. ScanOK'
    BY <2>1, UnscannedOK DEF ScanOK
  <2>4. work'[Scan].pc = "idle"
    BY <1>0, <1>1, <2>1 DEF RadarInv, WorkOK
  <2> QED
    BY <1>1, <2>1, <2>2, <2>3, <2>4, HistoryInv
<1> QED
  BY <1>2, <1>3, <1>4, <1>5, <1>6, <1>7 DEF Scans

LEMMA AllIdle ==
  ASSUME work' = [p \in Procs |-> Idle], scan' = Unscanned
  PROVE  WorkOK' /\ Queued' /\ ScanWorks' /\ (UNCHANGED posted => ScanOK')
<1>1. \A p \in Procs : work'[p] = Idle
  OBVIOUS
<1>2. Scan \in Procs /\ Peers \subseteq Procs
  BY DEF Procs
<1> QED
  BY <1>1, <1>2, IdleWork, UnscannedOK DEF WorkOK, Queued, ScanWorks, ScanOK

LEMMA RestartInv == ASSUME RadarInv, Restart PROVE RadarInv'
<1>1. /\ work' = [p \in Procs |-> Idle] /\ scan' = Unscanned /\ enabling' = {} /\ faults' = faults + 1
      /\ faults < MaxFaults /\ owed' = [p \in Procs |-> {}]
      /\ UNCHANGED <<posted, queue, peers, rules, nextId, events, subscribed, alerts>>
  BY DEF Restart, tables
<1>2. Tables'
  BY <1>1, RadarAssumption DEF RadarInv, Tables
<1>3. WorkOK' /\ Queued' /\ ScanWorks' /\ ScanOK' /\ RulesOK' /\ EventsOK'
  BY <1>1, AllIdle, Undisturbed DEF RadarInv
<1>4. \A p \in Procs : work'[p].rows = {} /\ work'[p].found = {} /\ work'[p].pc = "idle"
  BY <1>1, IdleRows
<1>5. NamesOK' /\ AlertsOK'
  BY <1>1, <1>4, PairsOf, NamesKept, AlertsKept DEF RadarInv
<1> QED
  BY <1>2, <1>3, <1>5 DEF RadarInv

-----------------------------------------------------------------------------
(* Rules.                                                                  *)
LEMMA RuleShape ==
  ASSUME NEW r, IsRule(r), NEW b, IsBody(b)
  PROVE  LET new == [r EXCEPT !.body = b]
         IN  IsRule(new) /\ new.id = r.id /\ new.phrase = r.phrase /\ new.body = b
BY DEF IsRule

LEMMA AddedRule ==
  ASSUME NEW id, NEW phrase, NEW b, IsBody(b)
  PROVE  LET new == [id |-> id, phrase |-> phrase, body |-> b]
         IN  IsRule(new) /\ new.id = id /\ new.phrase = phrase /\ new.body = b
BY DEF IsRule

(* What a change of the rules leaves alone.                                *)
LEMMA WrittenInv ==
  ASSUME RadarInv, NEW new, NEW changed, Written(new, changed), enabling' \subseteq Peers,
         RulesOK', NamesOK'
  PROVE  RadarInv'
<1>1. UNCHANGED <<posted, queue, peers, events, subscribed, alerts, work, scan, faults>>
  BY DEF Written
<1>2. owed' \in [Procs -> SUBSET Keys]
  BY DEF Written, RadarInv, Tables
<1>3. Tables'
  BY <1>1, <1>2 DEF RadarInv, Tables
<1>4. EventsOK' /\ WorkOK' /\ Queued' /\ ScanWorks' /\ ScanOK' /\ AlertsOK'
  BY <1>1, Undisturbed, AlertsKept DEF RadarInv
<1> QED
  BY <1>3, <1>4 DEF RadarInv

(* A rule is written with a name that has none yet.                        *)
LEMMA RuleAdded ==
  ASSUME RadarInv, NEW phrase \in Phrases, NEW b, IsBody(b), RowOf(phrase) = {},
         nextId <= MaxIds, nextId' = nextId + 1,
         rules' \subseteq rules \cup {[id |-> nextId, phrase |-> phrase, body |-> b]},
         UNCHANGED <<events, work>>
  PROVE  RulesOK' /\ NamesOK'
<1> DEFINE new == [id |-> nextId, phrase |-> phrase, body |-> b]
<1>1. IsRule(new) /\ new.id = nextId /\ new.phrase = phrase /\ rules' \subseteq rules \cup {new}
  BY AddedRule
<1> HIDE DEF new
<1>2. nextId \in 1..MaxIds /\ MaxIds \in Nat
  BY RadarAssumption DEF RadarInv, RulesOK
<1>3. \A r \in rules : r.id # nextId /\ r.phrase # phrase /\ r.id < nextId + 1
  BY <1>2 DEF RadarInv, RulesOK, RowOf
<1>4. nextId' \in 1..(MaxIds + 1) /\ nextId < nextId + 1
  BY <1>2
<1>5. RulesOK'
  BY <1>1, <1>2, <1>3, <1>4 DEF RadarInv, RulesOK
<1>6. \A r \in rules' : <<r.id, r.phrase>> \in Pairs \cup {<<nextId, phrase>>}
  BY <1>1, PairsOf
<1> QED
  BY <1>2, <1>5, <1>6, NameGiven DEF RadarInv

LEMMA RuleChanged ==
  ASSUME RadarInv, NEW phrase \in Phrases, NEW b, IsBody(b), UNCHANGED nextId,
         rules' \subseteq {IF r.phrase = phrase THEN [r EXCEPT !.body = b] ELSE r : r \in rules},
         UNCHANGED <<events, work>>
  PROVE  RulesOK' /\ NamesOK'
<1> DEFINE new(r) == IF r.phrase = phrase THEN [r EXCEPT !.body = b] ELSE r
<1>1. \A r \in rules : IsRule(r)
  BY DEF RadarInv, RulesOK
<1>2. \A r \in rules : IsRule(new(r)) /\ new(r).id = r.id /\ new(r).phrase = r.phrase
  BY <1>1, RuleShape
<1>3. rules' \subseteq {new(r) : r \in rules}
  OBVIOUS
<1> HIDE DEF new
<1>4. RulesOK'
  BY <1>2, <1>3 DEF RadarInv, RulesOK
<1>5. \A r \in rules' : <<r.id, r.phrase>> \in Pairs
  BY <1>2, <1>3, PairsOf
<1>6. NamesOK'
  BY <1>5, PairsOf, NamesKept DEF RadarInv
<1> QED
  BY <1>4, <1>6

LEMMA UpsertedOK ==
  ASSUME RadarInv, NEW phrase \in Phrases, NEW b, IsBody(b), FreshId(phrase),
         rules' \subseteq Upserted(phrase, b), UNCHANGED <<events, work>>
  PROVE  RulesOK' /\ NamesOK'
<1>1. CASE RowOf(phrase) = {}
  BY <1>1, RuleAdded DEF FreshId, Upserted
<1>2. CASE RowOf(phrase) # {}
  BY <1>2, RuleChanged DEF FreshId, Upserted
<1> QED
  BY <1>1, <1>2

LEMMA BodiesOK ==
  ASSUME NEW body \in Bodies
  PROVE  IsBody(body) /\ IsBody([body EXCEPT !.sources = @ \cap Known])
<1>1. Said(body) /\ body.sources \subseteq Peers
  BY RadarAssumption DEF Said
<1>2. Said([body EXCEPT !.sources = body.sources \cap Known])
  BY <1>1, SaidKept, Zenon
<1>3. [body EXCEPT !.sources = @ \cap Known].sources = body.sources \cap Known
  BY <1>1 DEF Said
<1> QED
  BY <1>1, <1>2, <1>3 DEF IsBody

LEMMA AddInv == ASSUME RadarInv, NEW phrase \in Phrases, AddKeyword(phrase) PROVE RadarInv'
<1> DEFINE new == rules \cup {[id |-> nextId, phrase |-> phrase, body |-> Empty]}
<1>1. /\ RowOf(phrase) = {} /\ nextId <= MaxIds /\ nextId' = nextId + 1 /\ Written(new, {phrase})
      /\ UNCHANGED enabling
  BY DEF AddKeyword
<1>2. rules' = new /\ UNCHANGED <<events, work>>
  BY <1>1 DEF Written
<1>3. RulesOK' /\ NamesOK'
  BY <1>1, <1>2, EmptyBody, RuleAdded
<1>4. enabling' \subseteq Peers
  BY <1>1 DEF RadarInv, Tables
<1> QED
  BY <1>1, <1>3, <1>4, WrittenInv

LEMMA RulesInv ==
  ASSUME RadarInv, NEW phrase \in Phrases, NEW body \in Bodies, NEW values,
         \/ addWatchRule(phrase, body) \/ saveWatchRule(phrase, body)
         \/ ApplyWatchRules(phrase, body, values)
  PROVE  RadarInv'
<1>2. ASSUME NEW b, IsBody(b), UpsertWatchRule(phrase, b), enabling' \subseteq Peers
      PROVE  RadarInv'
  <2>1. FreshId(phrase) /\ Written(Upserted(phrase, b), {phrase})
    BY <1>2 DEF UpsertWatchRule
  <2>2. rules' = Upserted(phrase, b) /\ UNCHANGED <<events, work>>
    BY <2>1 DEF Written
  <2>3. RulesOK' /\ NamesOK'
    BY <1>2, <2>1, <2>2, UpsertedOK
  <2> QED
    BY <1>2, <2>1, <2>3, WrittenInv
<1>3. CASE addWatchRule(phrase, body)
  <2>1. enabling' \subseteq Peers
    BY <1>3 DEF addWatchRule, RadarInv, Tables
  <2> QED
    BY <1>2, <1>3, <2>1, BodiesOK DEF addWatchRule
<1>4. CASE saveWatchRule(phrase, body)
  <2>1. enabling' \subseteq Peers
    BY <1>4, BodiesOK DEF saveWatchRule, IsBody
  <2> QED
    BY <1>2, <1>4, <2>1, BodiesOK DEF saveWatchRule
<1>5. CASE ApplyWatchRules(phrase, body, values)
  <2>1. PICK deleted : /\ FreshId(phrase) /\ UNCHANGED enabling
                       /\ Written(Upserted(phrase, body) \ deleted, {phrase} \cup NamesOf(deleted))
    BY <1>5 DEF ApplyWatchRules
  <2>2. rules' \subseteq Upserted(phrase, body) /\ UNCHANGED <<events, work>>
    BY <2>1 DEF Written
  <2>3. RulesOK' /\ NamesOK'
    BY <2>1, <2>2, BodiesOK, UpsertedOK
  <2>4. enabling' \subseteq Peers
    BY <2>1 DEF RadarInv, Tables
  <2> QED
    BY <2>1, <2>3, <2>4, WrittenInv
<1> QED
  BY <1>3, <1>4, <1>5

LEMMA DeleteInv ==
  ASSUME RadarInv, NEW rows, DeleteKeyword(rows)
  PROVE  RadarInv'
<1>1. /\ Written(rules \ rows, NamesOf(rows)) /\ rules' \subseteq rules
      /\ UNCHANGED <<nextId, enabling, events, work>>
  BY DEF DeleteKeyword, Written
<1>2. RulesOK'
  BY <1>1 DEF RadarInv, RulesOK
<1>3. NamesOK'
  BY <1>1, PairsOf, NamesKept DEF RadarInv
<1>4. enabling' \subseteq Peers
  BY <1>1 DEF RadarInv, Tables
<1> QED
  BY <1>1, <1>2, <1>3, <1>4, WrittenInv

(* Sources and subscribers.                                                *)
LEMMA SettingsInv ==
  ASSUME RadarInv, SettingsOnly, peers' \in [Peers -> {"unknown", "off", "on"}],
         subscribed' \in BOOLEAN, enabling' \subseteq Peers, owed' \in [Procs -> SUBSET Keys]
  PROVE  RadarInv'
<1>1. UNCHANGED <<posted, queue, rules, nextId, events, alerts, work, scan, faults>>
  BY DEF SettingsOnly
<1>2. Tables'
  BY <1>1 DEF RadarInv, Tables
<1>3. RulesOK' /\ EventsOK' /\ WorkOK' /\ Queued' /\ ScanWorks' /\ ScanOK'
  BY <1>1, Undisturbed DEF RadarInv
<1>4. NamesOK' /\ AlertsOK'
  BY <1>1, PairsOf, NamesKept, AlertsKept DEF RadarInv
<1> QED
  BY <1>2, <1>3, <1>4 DEF RadarInv

LEMMA SourcesInv ==
  ASSUME RadarInv, (\E p \in Peers : toggleSource(p) \/ EnableSource(p)) \/ SyncDialogs \/ handleStart \/ handleStop
  PROVE  RadarInv'
<1>1. /\ peers \in [Peers -> {"unknown", "off", "on"}] /\ subscribed \in BOOLEAN /\ enabling \subseteq Peers
      /\ owed \in [Procs -> SUBSET Keys]
  BY DEF RadarInv, Tables
<1>2. ASSUME NEW p \in Peers, NEW state \in {"on", "off"}, SetMonitorPeerEnabled(p, state)
      PROVE  peers' \in [Peers -> {"unknown", "off", "on"}] /\ owed' \in [Procs -> SUBSET Keys]
  BY <1>1, <1>2 DEF SetMonitorPeerEnabled
<1>3. ASSUME NEW p \in Peers, toggleSource(p) PROVE RadarInv'
  <2>1. PICK state \in {"on", "off"} : SetMonitorPeerEnabled(p, state)
    BY <1>3 DEF toggleSource
  <2>2. UNCHANGED <<subscribed, enabling>> /\ SettingsOnly
    BY <1>3 DEF toggleSource
  <2> QED
    BY <1>1, <1>2, <2>1, <2>2, SettingsInv
<1>4. ASSUME NEW p \in Peers, EnableSource(p) PROVE RadarInv'
  <2>1. /\ SetMonitorPeerEnabled(p, "on") /\ enabling' \subseteq enabling /\ UNCHANGED subscribed
        /\ SettingsOnly
    BY <1>4 DEF EnableSource
  <2> QED
    BY <1>1, <1>2, <2>1, SettingsInv
<1>5. CASE SyncDialogs
  BY <1>1, <1>5, SettingsInv DEF SyncDialogs
<1>6. CASE handleStart \/ handleStop
  BY <1>1, <1>6, SettingsInv DEF handleStart, handleStop
<1> QED
  BY <1>3, <1>4, <1>5, <1>6

LEMMA RadarInit == Init => RadarInv
<1> SUFFICES ASSUME Init PROVE RadarInv
  OBVIOUS
<1>0. {MaxIds, MaxVer, MaxFaults, MaxPages} \subseteq Nat /\ MaxIds # 0
  BY RadarAssumption
<1>1. Tables
  <2>1. {m \in Msgs : posted[m] # None} = {}
    BY DEF Init
  <2>2. IsFiniteSet({m \in Msgs : posted[m] # None})
    BY <2>1, FS_EmptySet, Zenon
  <2>3. <<>> \in Seq(Msgs \X Versions)
    OBVIOUS
  <2> QED
    BY <1>0, <2>2, <2>3 DEF Init, Tables
<1>2. RulesOK
  <2>1. CASE rules = {} /\ nextId = 1
    BY <1>0, <2>1 DEF RulesOK
  <2>2. CASE ~(rules = {} /\ nextId = 1)
    <3>1. PICK phrase \in Phrases, body \in Bodies \cup {Empty} :
            nextId = 2 /\ rules = {[id |-> 1, phrase |-> phrase, body |-> body]}
      BY <2>2 DEF Init
    <3>2. IsBody(body)
      BY EmptyBody, BodiesOK
    <3> DEFINE r == [id |-> 1, phrase |-> phrase, body |-> body]
    <3>3. IsRule(r) /\ r.id = 1 /\ r.phrase = phrase /\ rules = {r}
      BY <3>1, <3>2, AddedRule
    <3> HIDE DEF r
    <3> QED
      BY <1>0, <3>1, <3>3 DEF RulesOK
  <2> QED
    BY <2>1, <2>2
<1>3. events = {} /\ alerts = [k \in Keys |-> 0] /\ \A p \in Procs : work[p] = Idle
  BY DEF Init
<1>4. EventsOK
  BY <1>3 DEF EventsOK
<1>5. WorkOK /\ Queued /\ ScanWorks /\ ScanOK
  <2>1. work = [p \in Procs |-> work[p]] /\ scan = Unscanned /\ Scan \in Procs /\ Peers \subseteq Procs
    BY DEF Init, Procs
  <2> QED
    BY <1>3, <2>1, IdleWork, UnscannedOK DEF WorkOK, Queued, ScanWorks, ScanOK
<1>6. NamesOK
  <2>1. Pairs = {<<r.id, r.phrase>> : r \in rules}
    BY <1>3, IdleRows DEF Pairs
  <2> QED
    BY <1>2, <2>1 DEF NamesOK, RulesOK, Rows
<1>7. AlertsOK
  BY <1>3, IdleRows DEF AlertsOK
<1> QED
  BY <1>1, <1>2, <1>4, <1>5, <1>6, <1>7 DEF RadarInv

LEMMA RadarStep == RadarInv /\ [Next]_vars => RadarInv'
<1> SUFFICES ASSUME RadarInv, [Next]_vars PROVE RadarInv'
  OBVIOUS
<1>1. CASE UNCHANGED vars
  <2>1. UNCHANGED <<posted, queue, tables, alerts, work, scan, enabling, faults, owed>>
    BY <1>1 DEF vars
  <2>2. Tables' /\ RulesOK' /\ EventsOK' /\ WorkOK' /\ Queued' /\ ScanWorks' /\ ScanOK'
    BY <2>1, Undisturbed DEF RadarInv, Tables, tables
  <2>3. NamesOK' /\ AlertsOK'
    BY <2>1, PairsOf, NamesKept, AlertsKept DEF RadarInv, tables
  <2> QED
    BY <2>2, <2>3 DEF RadarInv
<1>2. CASE Settings
  <2>1. ASSUME NEW m \in Msgs, Edit(m) PROVE RadarInv'
    BY <2>1, PostInv
  <2>2. ASSUME NEW phrase \in Phrases, AddKeyword(phrase) PROVE RadarInv'
    BY <2>2, AddInv
  <2>3. ASSUME NEW phrase \in Phrases, NEW body \in Bodies,
               \/ addWatchRule(phrase, body) \/ saveWatchRule(phrase, body)
               \/ \E values \in SUBSET Phrases : ApplyWatchRules(phrase, body, values)
        PROVE  RadarInv'
    BY <2>3, RulesInv
  <2>4. CASE deleteKeyword \/ handleStopKeywordCallback
    BY <2>4, DeleteInv DEF deleteKeyword, handleStopKeywordCallback
  <2>5. ASSUME (\E p \in Peers : toggleSource(p) \/ EnableSource(p)) \/ SyncDialogs \/ handleStart \/ handleStop
        PROVE  RadarInv'
    BY <2>5, SourcesInv
  <2> QED
    BY <1>2, <2>1, <2>2, <2>3, <2>4, <2>5 DEF Settings, Changes
<1>3. CASE Runs
  <2>1. ASSUME NEW m \in Msgs, Post(m) PROVE RadarInv'
    BY <2>1, PostInv
  <2>2. ASSUME NEW p \in Peers, Chat(p) \/ UpdateFails(p) PROVE RadarInv'
    BY <2>2, UpdateInv
  <2>3. ASSUME NEW p \in Procs, processObserved(p) PROVE RadarInv'
    BY <2>3, ListInv, DetailInv, RecordInv, NotifyInv DEF processObserved
  <2>4. CASE Backfill \/ Scans \/ ScanFails \/ Restart
    BY <2>4, ScanInv, RestartInv
  <2> QED
    BY <1>3, <2>1, <2>2, <2>3, <2>4 DEF Runs
<1> QED
  BY <1>1, <1>2, <1>3 DEF Next

(* Every reachable state of the radar, for any number of chats, messages,  *)
(* rules, edits and faults, satisfies the inductive invariant.             *)
THEOREM RadarInvariant == Spec => []RadarInv
BY RadarInit, RadarStep, PTL DEF Spec

(* The tables keep their columns and unique keys, and every process its    *)
(* local state (the schema in internal/db/store.go, processObserved and    *)
(* backfillPeer in internal/monitor/monitor.go).                           *)
THEOREM RadarTypes == Spec => []TypeOK
BY InvTypes, RadarInvariant, PTL

(* An owner is alerted at most once of a message under one name, however   *)
(* often it is handed out, edited, scanned, and matched by rules that were *)
(* deleted and added again (RecordEvent in internal/db/store.go,           *)
(* processObserved in internal/monitor/monitor.go).                        *)
THEOREM AlertedOnceAlways == Spec => []AlertedOnce
<1>1. RadarInv => AlertedOnce
  BY DEF RadarInv, AlertsOK, AlertedOnce
<1> QED
  BY <1>1, RadarInvariant, PTL

(* The rule that the button of an alert stops is the one that matched, or  *)
(* is gone: no other rule ever has its id (AUTOINCREMENT and DeleteKeyword *)
(* in internal/db/store.go, handleStopKeywordCallback in                   *)
(* internal/bot/bot.go).                                                   *)
THEOREM ButtonStopsItsRuleAlways == Spec => []ButtonStopsItsRule
<1>1. RadarInv => ButtonStopsItsRule
  <2> SUFFICES ASSUME RadarInv, NEW e \in events, NEW r \in rules, r.id = e.rule PROVE r.phrase = e.phrase
    BY DEF ButtonStopsItsRule
  <2>1. <<r.id, r.phrase>> \in Pairs /\ <<e.rule, e.phrase>> \in Pairs
    BY PairsOf
  <2> QED
    BY <2>1 DEF RadarInv, NamesOK
<1> QED
  BY <1>1, RadarInvariant, PTL

(* The newest of a set of messages, and how far the pages after them go.   *)
LEMMA NewestTop == ASSUME NEW S, NEW n PROVE Newest(S, n) = Top(S, n)
BY DEF Newest, Top, Above

LEMMA PageBounds ==
  ASSUME NEW j \in Nat, NEW s \in Nat, NEW c \in Nat, c < j * s
  PROVE  /\ j > 0 /\ s > 0
         /\ \A d \in Nat : d + s <= c => d < (j - 1) * s
<1>1. CASE j = 0
  BY <1>1
<1>2. CASE s = 0
  BY <1>2
<1>3. CASE j > 0 /\ s > 0
  <2>1. j * s = (j - 1) * s + s
    OBVIOUS
  <2>2. j * s \in Nat /\ (j - 1) * s \in Nat
    BY <1>3
  <2> DEFINE a == j * s
             b == (j - 1) * s
  <2>3. a = b + s /\ a \in Nat /\ b \in Nat /\ c < a
    BY <2>1, <2>2
  <2> HIDE DEF a, b
  <2>4. \A d \in Nat : d + s <= c => d < b
    BY <2>3
  <2> QED
    BY <1>3, <2>4 DEF b
<1> QED
  BY <1>1, <1>2, <1>3

LEMMA PageReaches ==
  ASSUME NEW B, B \subseteq Nat, IsFiniteSet(B), NEW n, NEW q \in 0..MaxPages, Reached(B, n, q)
  PROVE  LET page == Newest(B, PageSize)
         IN  /\ q < MaxPages /\ page # {}
             /\ n \in page \/ Reached({m \in B : \A x \in page : m < x}, n, q + 1)
<1> DEFINE page == Top(B, PageSize)
           rest == {m \in B : \A x \in page : m < x}
           size == Cardinality(Above(B, n))
<1>0. MaxPages \in Nat /\ PageSize \in Nat /\ q \in Nat /\ q <= MaxPages
  BY RadarAssumption
<1>1. n \in B /\ size \in Nat /\ size < (MaxPages - q) * PageSize
  BY AboveSize DEF Reached
<1>2. page = Newest(B, PageSize)
  BY NewestTop
<1>3. MaxPages - q \in Nat
  BY <1>0
<1>4. /\ MaxPages - q > 0 /\ PageSize > 0
      /\ \A d \in Nat : d + PageSize <= size => d < ((MaxPages - q) - 1) * PageSize
  <2> DEFINE j == MaxPages - q
  <2>1. j \in Nat /\ size < j * PageSize
    BY <1>1, <1>3
  <2> HIDE DEF j, size
  <2> QED
    <3>1. /\ j > 0 /\ PageSize > 0 /\ \A d \in Nat : d + PageSize <= size => d < (j - 1) * PageSize
      BY <1>0, <1>1, <2>1, PageBounds
    <3> QED
      BY <3>1 DEF j
<1>5. page # {}
  <2>1. PICK x \in B : \A y \in B : y <= x
    BY <1>1, Greatest
  <2>2. Above(B, x) = {}
    <3>1. \A y \in B : ~(y > x)
      BY <2>1
    <3> QED
      BY <3>1 DEF Above
  <2>3. Cardinality(Above(B, x)) = 0
    BY <2>2, FS_EmptySet
  <2>4. Cardinality(Above(B, x)) < PageSize
    BY <1>0, <1>4, <2>3
  <2>5. x \in page
    BY <2>4 DEF Top
  <2> QED
    BY <2>5
<1>6. ASSUME n \notin page PROVE Reached(rest, n, q + 1)
  <2>1. ~(size < PageSize)
    BY <1>1, <1>6 DEF Top
  <2>2. IsFiniteSet(page) /\ Cardinality(page) = PageSize
    <3>1. Above(B, n) \subseteq B
      BY DEF Above
    <3>2. Cardinality(Above(B, n)) <= Cardinality(B) /\ Cardinality(B) \in Nat
      BY <3>1, FS_Subset, FS_CardinalityType
    <3>3. PageSize <= Cardinality(B)
      BY <1>0, <1>1, <2>1, <3>2
    <3> QED
      BY <1>0, <3>3, TopSize
  <2>3. ASSUME NEW x \in page PROVE n < x
    <3>1. x \in B /\ Cardinality(Above(B, x)) < PageSize /\ x # n /\ x \in Nat /\ n \in Nat
      BY <1>1, <1>6, <2>3 DEF Top
    <3>2. ~(x < n)
      <4> SUFFICES ASSUME x < n PROVE FALSE
        OBVIOUS
      <4>1. Cardinality(Above(B, x)) \in Nat /\ size < Cardinality(Above(B, x))
        BY <1>1, <3>1, AboveLess
      <4> QED
        BY <1>0, <1>1, <2>1, <3>1, <4>1
    <3> QED
      BY <3>1, <3>2
  <2>4. n \in rest
    BY <1>1, <2>3
  <2>5. page \subseteq Above(B, n)
    BY <2>3 DEF Above, Top
  <2>6. IsFiniteSet(Above(B, n)) /\ IsFiniteSet(rest) /\ rest \subseteq Nat
    BY AboveSize, FS_Subset
  <2>7. Above(rest, n) \subseteq Above(B, n) \ page
    <3> SUFFICES ASSUME NEW y \in Above(rest, n) PROVE y \in Above(B, n) /\ y \notin page
      OBVIOUS
    <3>1. y \in B /\ y > n /\ (\A x \in page : y < x) /\ y \in Nat
      BY DEF Above
    <3>2. y \notin page
      <4>1. ~(y < y)
        BY <3>1
      <4> QED
        BY <3>1, <4>1
    <3> QED
      BY <3>1, <3>2 DEF Above
  <2> DEFINE a == Above(B, n)
             d == Cardinality(Above(rest, n))
  <2>8. d \in Nat /\ d + PageSize <= size
    <3>1. IsFiniteSet(a \ page) /\ Cardinality(a \ page) = Cardinality(a) - Cardinality(page)
      <4>1. a \cap page = page
        BY <2>5
      <4>2. /\ IsFiniteSet(a \ page)
            /\ Cardinality(a \ page) = Cardinality(a) - Cardinality(a \cap page)
        BY <2>2, <2>6, FS_Difference
      <4> HIDE DEF a, page
      <4> QED
        BY <4>1, <4>2
    <3>2. d <= Cardinality(a \ page) /\ d \in Nat
      BY <2>6, <2>7, <3>1, FS_Subset, AboveSize
    <3> QED
      BY <1>0, <1>1, <2>2, <3>1, <3>2
  <2> HIDE DEF d, size
  <2>9. d < ((MaxPages - q) - 1) * PageSize
    BY <1>4, <2>8
  <2>10. (MaxPages - q) - 1 = MaxPages - (q + 1)
    BY <1>0
  <2>11. d < (MaxPages - (q + 1)) * PageSize
    BY <2>9, <2>10
  <2> HIDE DEF rest
  <2> QED
    BY <2>4, <2>11 DEF Reached, d
<1>7. q < MaxPages
  BY <1>0, <1>4
<1> QED
  BY <1>2, <1>5, <1>6, <1>7

-----------------------------------------------------------------------------
(* What a process has in its hands of a rule that nobody changes stays     *)
(* there until it is recorded.                                             *)
Wanting(p, r) ==
  /\ r \in rules /\ work[p].pc # "idle" /\ InHand(work[p], r)
  /\ Wanted(work[p].msg, work[p].ver, r.phrase, r.body)
StillIn(p, r) ==
  /\ work'[p].pc \notin {"idle", "list"} /\ work'[p].msg = work[p].msg /\ work'[p].ver = work[p].ver
  /\ InHand(work'[p], r)
IsRecorded(p, r) == \E e \in events' : e.msg = work[p].msg /\ e.phrase = r.phrase

LEMMA ListHand ==
  ASSUME RadarInv, NEW p \in Procs, ListKeywords(p), NEW r, Wanting(p, r)
  PROVE  StillIn(p, r)
<1> DEFINE rows == {<<s.id, s.phrase>> : s \in rules}
           u == [work[p] EXCEPT !.rows = rows]
           d == RowsRead(p, u)
<1>1. IsWork(work[p]) /\ work[p].msg \in Msgs /\ work[p].ver \in Versions
  BY DEF RadarInv, WorkOK, IsWork, Wanting
<1>2. rows \subseteq Rows /\ <<r.id, r.phrase>> \in rows
  BY DEF RadarInv, RulesOK, Rows, Wanting
<1>3. Fields(u)
  BY <1>1, FieldsKept, Zenon DEF IsWork, Holds
<1>4. u.rows = rows /\ u.msg = work[p].msg /\ u.ver = work[p].ver /\ u.found = work[p].found /\ u.got = work[p].got
  BY <1>1 DEF IsWork, Holds, Fields
<1>5. work' = [work EXCEPT ![p] = d]
  BY DEF ListKeywords
<1>6. work'[p] = d
  BY <1>5 DEF RadarInv, WorkOK
<1> HIDE DEF u, rows
<1>7. Holds(u)
  BY <1>1, <1>2, <1>3, <1>4 DEF IsWork, Holds
<1>8. d.pc = "detail" /\ d.detail = 1 /\ d.msg = u.msg /\ d.ver = u.ver /\ d.rows = u.rows
  BY <1>1, <1>2, <1>4, <1>7, RowsReadWork
<1> HIDE DEF d
<1> QED
  BY <1>2, <1>4, <1>6, <1>8 DEF StillIn, InHand, ReadSoFar

LEMMA StoredRule == ASSUME RulesOK, NEW r \in rules PROVE Stored(r.id) = r.body
BY DEF RulesOK, Stored

(* One detail of a rule is read on, the last of them completes it.         *)
LEMMA ReadsOn ==
  ASSUME NEW w, IsBody(w.got), NEW body, IsBody(body), w.detail \in 1..4, ReadSoFar(w, body)
  PROVE  LET got == Details(w.got, body)[w.detail]
         IN  /\ w.detail < 4 => \A d : d.got = got /\ d.detail = w.detail + 1 => ReadSoFar(d, body)
             /\ w.detail = 4 => got = body
<1> DEFINE got == Details(w.got, body)[w.detail]
           n == w.detail
<1>1. /\ IsBody(got)
      /\ IF n = 1 THEN got.any = body.any /\ got.all = body.all /\ got.exclude = body.exclude
         ELSE got.any = w.got.any /\ got.all = w.got.all /\ got.exclude = w.got.exclude
      /\ got.groups = IF n = 2 THEN body.groups ELSE w.got.groups
      /\ got.bike = IF n = 3 THEN body.bike ELSE w.got.bike
      /\ got.sources = IF n = 4 THEN body.sources ELSE w.got.sources
  BY DetailsRead
<1> HIDE DEF got
<1>2. ASSUME n < 4, NEW d, d.got = got, d.detail = n + 1 PROVE ReadSoFar(d, body)
  <2>1. n = 1 \/ n = 2 \/ n = 3
    BY <1>2
  <2>2. CASE n = 1
    BY <1>1, <1>2, <2>2 DEF ReadSoFar
  <2>3. CASE n = 2
    BY <1>1, <1>2, <2>3 DEF ReadSoFar
  <2>4. CASE n = 3
    BY <1>1, <1>2, <2>4 DEF ReadSoFar
  <2> QED
    BY <2>1, <2>2, <2>3, <2>4
<1>3. ASSUME n = 4 PROVE got = body
  <2>1. /\ got.any = body.any /\ got.all = body.all /\ got.exclude = body.exclude
        /\ got.groups = body.groups /\ got.bike = body.bike /\ got.sources = body.sources
    BY <1>1, <1>3 DEF ReadSoFar
  <2>2. Said(got) /\ Said(body)
    BY <1>1 DEF IsBody
  <2> QED
    BY <2>1, <2>2, Zenon DEF Said
<1> QED
  BY <1>2, <1>3 DEF got

LEMMA DetailHand ==
  ASSUME RadarInv, NEW p \in Procs, loadKeywordDetails(p), NEW r, Wanting(p, r)
  PROVE  StillIn(p, r)
<1> DEFINE w == work[p]
           row == <<r.id, r.phrase>>
<1>1. /\ Row(p) \in w.rows /\ Row(p)[1] = w.id
      /\ \E d : work' = [work EXCEPT ![p] = d] /\ IsWork(d) /\ (MoreRead(p, d) \/ RuleRead(p, d))
  BY DetailRead DEF RadarInv
<1>2. PICK d : work' = [work EXCEPT ![p] = d] /\ IsWork(d) /\ (MoreRead(p, d) \/ RuleRead(p, d))
  BY <1>1
<1>3. work'[p] = d
  BY <1>2 DEF RadarInv, WorkOK
<1>4. w.pc = "detail" /\ IsWork(w) /\ IsBody(w.got) /\ w.detail \in 1..4
  BY DEF loadKeywordDetails, RadarInv, WorkOK, IsWork, Holds
<1>5. r \in rules /\ IsBody(r.body) /\ Stored(r.id) = r.body
  BY StoredRule DEF Wanting, RadarInv, RulesOK, IsRule
<1>6. row \in w.found \/ (row \in w.rows /\ (w.id = r.id => ReadSoFar(w, r.body)))
  BY <1>4 DEF Wanting, InHand
<1>7. CASE MoreRead(p, d)
  <2>1. /\ d.pc = "detail" /\ d.id = w.id /\ d.rows = w.rows /\ d.found = w.found
        /\ d.msg = w.msg /\ d.ver = w.ver /\ w.detail < 4 /\ d.detail = w.detail + 1
        /\ d.got = Details(w.got, Stored(w.id))[w.detail]
    BY <1>7 DEF MoreRead, Reads
  <2>2. ASSUME w.id = r.id, ReadSoFar(w, r.body) PROVE ReadSoFar(d, r.body)
    BY <1>4, <1>5, <2>1, <2>2, ReadsOn
  <2> QED
    BY <1>3, <1>6, <2>1, <2>2 DEF StillIn, InHand
<1>8. CASE RuleRead(p, d)
  <2>1. /\ w.detail = 4 /\ d.rows = w.rows \ {Row(p)}
        /\ d.found = IF Hit(p) THEN w.found \cup {Row(p)} ELSE w.found
        /\ d.pc = "detail" => d.detail = 1
        /\ d.pc # "idle" => d.msg = w.msg /\ d.ver = w.ver
    BY <1>8 DEF RuleRead
  <2>2. row \in d.found \/ row \in d.rows
    <3>1. CASE row \in w.found
      BY <2>1, <3>1
    <3>2. CASE row \in w.rows /\ row # Row(p)
      BY <2>1, <3>2
    <3>3. CASE row = Row(p) /\ (w.id = r.id => ReadSoFar(w, r.body))
      <4>1. w.id = r.id /\ Row(p)[2] = r.phrase
        BY <1>1, <3>3
      <4>2. Reads(p) = r.body
        BY <1>4, <1>5, <2>1, <3>3, <4>1, ReadsOn DEF Reads
      <4>3. Hit(p)
        BY <4>1, <4>2 DEF Hit, Wanting
      <4> QED
        BY <2>1, <3>3, <4>3
    <3> QED
      BY <1>6, <3>1, <3>2, <3>3
  <2>3. d.pc \notin {"idle", "list"} /\ (row \in d.rows => d.pc = "detail")
    BY <1>2, <2>2 DEF IsWork
  <2> QED
    BY <1>3, <2>1, <2>2, <2>3 DEF StillIn, InHand, ReadSoFar
<1> QED
  BY <1>2, <1>7, <1>8

LEMMA RecordHand ==
  ASSUME RadarInv, NEW p \in Procs, RecordEvent(p), NEW r, Wanting(p, r)
  PROVE  IsRecorded(p, r) \/ StillIn(p, r)
<1> DEFINE w == work[p]
           key == <<r.id, r.phrase>>
<1>0. PICK row \in w.found : \E d : Outcome(p, row, d)
  BY EventRecorded DEF RadarInv
<1>1. PICK d : Outcome(p, row, d)
  BY <1>0
<1>2. /\ w.pc = "record" /\ work' = [work EXCEPT ![p] = d] /\ IsWork(d)
      /\ d.rows = {} /\ d.found = w.found \ {row}
      /\ d.pc \in {"record", "alert", "done"} => d.msg = w.msg /\ d.ver = w.ver
      /\ p = Scan => d.pc \in {"record", "idle"}
      /\ p # Scan => d.pc \in {"record", "alert", "done"}
  BY <1>1 DEF Outcome
<1>3. work'[p] = d
  BY <1>2 DEF RadarInv, WorkOK
<1>4. key \in w.found
  BY <1>2 DEF Wanting, InHand, RadarInv, WorkOK, IsWork
<1>5. CASE key = row
  <2>1. row[2] = r.phrase
    BY <1>5
  <2>2. CASE Recorded(w.msg, row[2]) /\ events' = events
    BY <2>1, <2>2 DEF Recorded, IsRecorded
  <2>3. CASE events' = events \cup {[msg |-> w.msg, phrase |-> row[2], rule |-> row[1], ver |-> w.ver]}
    <3> DEFINE e == [msg |-> w.msg, phrase |-> row[2], rule |-> row[1], ver |-> w.ver]
    <3>1. e \in events' /\ e.msg = w.msg /\ e.phrase = r.phrase
      BY <2>1, <2>3
    <3> QED
      BY <3>1 DEF IsRecorded
  <2> QED
    BY <1>1, <2>2, <2>3 DEF Outcome
<1>6. CASE key # row
  <2>1. key \in d.found
    BY <1>2, <1>4, <1>6
  <2>2. d.pc \notin {"idle", "list", "done"}
    BY <1>2, <2>1 DEF IsWork
  <2>3. d.msg = w.msg /\ d.ver = w.ver
    BY <1>2, <2>2
  <2> QED
    BY <1>3, <2>1, <2>2, <2>3 DEF StillIn, InHand
<1> QED
  BY <1>5, <1>6

LEMMA NotifyHand ==
  ASSUME RadarInv, NEW p \in Procs, NotifyEvent(p), NEW r, Wanting(p, r)
  PROVE  StillIn(p, r)
<1> DEFINE w == work[p]
           key == <<r.id, r.phrase>>
           d == Recording(p, w)
<1>1. w.pc = "alert" /\ work' = [work EXCEPT ![p] = d]
  BY DEF NotifyEvent
<1>2. Holds(w) /\ w.msg \in Msgs /\ w.ver \in Versions /\ w.rows = {}
  BY <1>1 DEF RadarInv, WorkOK, IsWork
<1>3. key \in w.found
  BY <1>1, <1>2 DEF Wanting, InHand
<1>4. d.found = w.found /\ d.pc = "record" /\ d.msg = w.msg /\ d.ver = w.ver
  BY <1>2, <1>3, RecordingWork
<1>5. work'[p] = d
  BY <1>1 DEF RadarInv, WorkOK
<1> HIDE DEF d
<1> QED
  BY <1>3, <1>4, <1>5 DEF StillIn, InHand

LEMMA HandKept ==
  ASSUME RadarInv, NEW p \in Procs, processObserved(p), NEW r, Wanting(p, r)
  PROVE  IsRecorded(p, r) \/ StillIn(p, r)
BY ListHand, DetailHand, RecordHand, NotifyHand DEF processObserved

(* A chat's process keeps its message until it is done with it.            *)
GoesOn(p, d) ==
  /\ work' = [work EXCEPT ![p] = d] /\ events \subseteq events'
  /\ p # Scan => d.pc \notin {"idle", "list"} /\ d.msg = work[p].msg /\ d.ver = work[p].ver
LEMMA Proceeds ==
  ASSUME RadarInv, NEW p \in Procs, processObserved(p)
  PROVE  \E d : GoesOn(p, d)
<1> DEFINE w == work[p]
<1>1. IsWork(w) /\ w.pc # "idle" /\ w.msg \in Msgs /\ w.ver \in Versions
  BY DEF processObserved, ListKeywords, loadKeywordDetails, RecordEvent, NotifyEvent, RadarInv,
         WorkOK, IsWork
<1>2. CASE ListKeywords(p)
  <2> DEFINE rows == {<<s.id, s.phrase>> : s \in rules}
             u == [w EXCEPT !.rows = rows]
             d == RowsRead(p, u)
  <2>1. rows \subseteq Rows
    BY DEF RadarInv, RulesOK, Rows
  <2>2. Fields(u)
    BY <1>1, FieldsKept, Zenon DEF IsWork, Holds
  <2>3. u.rows = rows /\ u.msg = w.msg /\ u.ver = w.ver /\ u.found = w.found /\ u.got = w.got
    BY <1>1 DEF IsWork, Holds, Fields
  <2>4. work' = [work EXCEPT ![p] = d] /\ events' = events
    BY <1>2 DEF ListKeywords, tables
  <2> HIDE DEF u, rows
  <2>5. Holds(u)
    BY <1>1, <2>1, <2>2, <2>3 DEF IsWork, Holds
  <2>6. p # Scan => d.pc \notin {"idle", "list"} /\ d.msg = w.msg /\ d.ver = w.ver
    BY <1>1, <2>3, <2>5, RowsReadWork
  <2> HIDE DEF d
  <2> QED
    BY <2>4, <2>6 DEF GoesOn
<1>3. CASE loadKeywordDetails(p)
  <2>1. PICK d : work' = [work EXCEPT ![p] = d] /\ IsWork(d) /\ (MoreRead(p, d) \/ RuleRead(p, d))
    BY <1>3, DetailRead DEF RadarInv
  <2>2. events' = events
    BY <1>3 DEF loadKeywordDetails, tables
  <2>3. p # Scan => d.pc \notin {"idle", "list"} /\ d.msg = w.msg /\ d.ver = w.ver
    BY <2>1 DEF MoreRead, RuleRead
  <2> QED
    BY <2>1, <2>2, <2>3 DEF GoesOn
<1>4. CASE RecordEvent(p)
  <2>1. PICK row \in w.found : \E d : Outcome(p, row, d)
    BY <1>4, EventRecorded DEF RadarInv
  <2>2. PICK d : Outcome(p, row, d)
    BY <2>1
  <2> QED
    BY <2>2 DEF Outcome, GoesOn
<1>5. CASE NotifyEvent(p)
  <2> DEFINE d == Recording(p, w)
  <2>1. work' = [work EXCEPT ![p] = d] /\ events' = events /\ w.pc = "alert"
    BY <1>5 DEF NotifyEvent, tables
  <2>2. p # Scan => d.pc \notin {"idle", "list"} /\ d.msg = w.msg /\ d.ver = w.ver
    BY <1>1, <2>1, RecordingWork DEF IsWork
  <2> HIDE DEF d
  <2> QED
    BY <2>1, <2>2 DEF GoesOn
<1> QED
  BY <1>2, <1>3, <1>4, <1>5 DEF processObserved

LEMMA Stays ==
  ASSUME RadarInv, NEW p \in Procs, processObserved(p)
  PROVE  /\ work[p].pc # "idle" /\ \A q \in Procs \ {p} : work'[q] = work[q]
         /\ p # Scan => /\ work'[p].pc \notin {"idle", "list"}
                        /\ work'[p].msg = work[p].msg /\ work'[p].ver = work[p].ver
         /\ UNCHANGED <<posted, peers, rules, scan>> /\ events \subseteq events'
<1>1. PICK d : GoesOn(p, d)
  BY Proceeds
<1>2. work'[p] = d /\ \A q \in Procs \ {p} : work'[q] = work[q]
  BY <1>1 DEF GoesOn, RadarInv, WorkOK
<1>3. work[p].pc # "idle" /\ UNCHANGED <<posted, peers, rules, scan>>
  BY DEF processObserved, ListKeywords, loadKeywordDetails, RecordEvent, NotifyEvent, tables
<1> QED
  BY <1>1, <1>2, <1>3 DEF GoesOn

-----------------------------------------------------------------------------
(* What a chat owes, while others go on.                                   *)
RuleKept(k) == \A r \in rules : r.phrase = k[2] => r \in rules'
LEMMA ChatOwesKept ==
  ASSUME NEW p \in Peers, ChatOwes(p), work'[p] = work[p], owed'[p] \subseteq owed[p],
         events \subseteq events', \A k \in owed'[p] : RuleKept(k)
  PROVE  ChatOwes(p)'
<1>1. work'[p].pc \in {"idle", "list"} => owed'[p] = {}
  BY DEF ChatOwes
<1>2. ASSUME NEW k \in owed'[p]
      PROVE  /\ k[1] = work'[p].msg
             /\ \E r \in rules' : /\ Wants(r, k, work'[p].ver)
                                  /\ Recorded(k[1], k[2])' \/ InHand(work'[p], r)
  <2>1. PICK r \in rules : Wants(r, k, work[p].ver) /\ (Recorded(k[1], k[2]) \/ InHand(work[p], r))
    BY <1>2 DEF ChatOwes
  <2>2. r \in rules'
    BY <1>2, <2>1 DEF RuleKept, Wants
  <2>3. Recorded(k[1], k[2]) => Recorded(k[1], k[2])'
    BY DEF Recorded
  <2> QED
    BY <1>2, <2>1, <2>2, <2>3 DEF ChatOwes
<1> QED
  BY <1>1, <1>2 DEF ChatOwes

LEMMA NothingOwed == ASSUME NEW p \in Peers, owed'[p] = {} PROVE ChatOwes(p)'
BY DEF ChatOwes

(* While its own process goes on.                                          *)
LEMMA ChatPays ==
  ASSUME RadarInv, NEW p \in Peers, ChatOwes(p), processObserved(p)
  PROVE  ChatOwes(p)'
<1>1. /\ p \in Procs /\ p # Scan
      /\ work[p].pc # "idle" /\ rules' = rules /\ events \subseteq events'
      /\ work'[p].pc \notin {"idle", "list"} /\ work'[p].msg = work[p].msg /\ work'[p].ver = work[p].ver
  BY Stays, RadarAssumption DEF Procs
<1>2. ASSUME NEW k \in owed'[p]
      PROVE  /\ k[1] = work[p].msg
             /\ \E r \in rules : Wants(r, k, work[p].ver) /\ (Recorded(k[1], k[2]) \/ InHand(work[p], r))
  <2>1. CASE ListKeywords(p)
    <3>1. work[p].pc = "list" /\ owed'[p] = Due(work[p].msg, work[p].ver)
      BY <1>1, <2>1 DEF ListKeywords, RadarInv, Tables
    <3>2. PICK r \in rules : Wanted(work[p].msg, work[p].ver, r.phrase, r.body)
                               /\ k = <<work[p].msg, r.phrase>>
      BY <1>2, <3>1 DEF Due
    <3>3. k[1] = work[p].msg /\ k[2] = r.phrase
      BY <3>2
    <3> QED
      BY <3>1, <3>2, <3>3 DEF Wants, InHand
  <2>2. CASE ~ListKeywords(p)
    <3>1. owed' = owed
      BY <2>2 DEF processObserved, loadKeywordDetails, RecordEvent, NotifyEvent
    <3> QED
      BY <1>2, <3>1 DEF ChatOwes
  <2> QED
    BY <2>1, <2>2
<1>3. ASSUME NEW k \in owed'[p]
      PROVE  /\ k[1] = work'[p].msg
             /\ \E r \in rules' : /\ Wants(r, k, work'[p].ver)
                                  /\ Recorded(k[1], k[2])' \/ InHand(work'[p], r)
  <2>1. k[1] = work[p].msg
    BY <1>2, <1>3
  <2>2. PICK r \in rules : Wants(r, k, work[p].ver) /\ (Recorded(k[1], k[2]) \/ InHand(work[p], r))
    BY <1>2, <1>3
  <2>3. Recorded(k[1], k[2]) => Recorded(k[1], k[2])'
    BY <1>1 DEF Recorded
  <2>4. CASE InHand(work[p], r)
    <3>1. Wanting(p, r)
      BY <1>1, <2>1, <2>2, <2>4 DEF Wanting, Wants
    <3>2. IsRecorded(p, r) \/ StillIn(p, r)
      BY <1>1, <3>1, HandKept
    <3>3. IsRecorded(p, r) => Recorded(k[1], k[2])'
      BY <2>1, <2>2 DEF IsRecorded, Recorded, Wants
    <3> QED
      BY <1>1, <2>1, <2>2, <3>2, <3>3 DEF StillIn
  <2> QED
    BY <1>1, <2>1, <2>2, <2>3, <2>4
<1> QED
  BY <1>1, <1>3 DEF ChatOwes

(* What a scan owes, while others go on.                                   *)
LEMMA UnreadKept ==
  ASSUME scan' = scan, \A m \in Msgs : posted[m] = None <=> posted'[m] = None
  PROVE  Unread' = Unread
BY DEF Unread, Below

LEMMA ScanOwesKept ==
  ASSUME NEW k, ScanOwes(k), UNCHANGED scan, work'[Scan] = work[Scan], events \subseteq events',
         posted'[k[1]] = posted[k[1]], peers[scan.peer] = "on" => peers'[scan.peer] = "on",
         RuleKept(k), scan.pc = "scanned" \/ Unread' = Unread
  PROVE  ScanOwes(k)'
<1>1. PICK r \in rules : Wants(r, k, posted[k[1]]) /\ (Recorded(k[1], k[2]) \/ Waits(k, r))
  BY DEF ScanOwes
<1>2. r \in rules' /\ Wants(r, k, posted'[k[1]])
  BY <1>1 DEF RuleKept, Wants
<1>3. Recorded(k[1], k[2]) => Recorded(k[1], k[2])'
  BY DEF Recorded
<1>4. Waits(k, r) => Waits(k, r)'
  BY DEF Waits
<1> QED
  BY <1>1, <1>2, <1>3, <1>4 DEF ScanOwes

(* While its own process goes on.                                          *)
LEMMA ScanPays ==
  ASSUME RadarInv, NEW k, ScanOwes(k), processObserved(Scan)
  PROVE  ScanOwes(k)'
<1>1. /\ Scan \in Procs /\ work[Scan].pc # "idle" /\ events \subseteq events'
      /\ UNCHANGED <<posted, peers, rules, scan>>
  BY Stays DEF Procs
<1>2. Unread' = Unread
  BY <1>1, UnreadKept
<1>3. PICK r \in rules : Wants(r, k, posted[k[1]]) /\ (Recorded(k[1], k[2]) \/ Waits(k, r))
  BY DEF ScanOwes
<1>4. Recorded(k[1], k[2]) => Recorded(k[1], k[2])'
  BY <1>1 DEF Recorded
<1>5. Waits(k, r) => Waits(k, r)' \/ Recorded(k[1], k[2])'
  <2>1. CASE /\ work[Scan].msg = k[1] /\ work[Scan].ver = posted[k[1]] /\ InHand(work[Scan], r)
    <3>1. Wanting(Scan, r)
      BY <1>1, <1>3, <2>1 DEF Wanting, Wants
    <3>2. IsRecorded(Scan, r) \/ StillIn(Scan, r)
      BY <1>1, <3>1, HandKept
    <3>3. IsRecorded(Scan, r) => Recorded(k[1], k[2])'
      BY <1>3, <2>1 DEF IsRecorded, Recorded, Wants
    <3>4. StillIn(Scan, r) => Waits(k, r)'
      BY <1>1, <2>1 DEF StillIn, Waits
    <3> QED
      BY <3>2, <3>3, <3>4
  <2>2. CASE \/ scan.pc = "message" /\ <<k[1], posted[k[1]]>> \in scan.page
             \/ scan.pc \in {"page", "message"} /\ Reached(Unread, k[1], scan.pages)
    BY <1>1, <1>2, <2>2 DEF Waits
  <2> QED
    BY <2>1, <2>2 DEF Waits
<1> QED
  BY <1>1, <1>3, <1>4, <1>5 DEF ScanOwes

(* A message that is posted is newer than all that a scan looks for.       *)
LEMMA PostedAbove ==
  ASSUME RadarInv, NEW m \in Msgs, Post(m), scan.pc \in {"page", "message"},
         scan.pc = "page" => scan.pages > 0
  PROVE  Unread' = Unread
<1>1. /\ posted[m] = None /\ (\A n \in Msgs : n > m => posted[n] = None)
      /\ posted' = [posted EXCEPT ![m] = 0] /\ scan' = scan
  BY DEF Post
<1>2. posted \in [Msgs -> Versions \cup {None}] /\ None \notin Versions /\ 0 \in Versions
  BY RadarAssumption DEF RadarInv, Tables, Versions, None
<1>3. \A n \in Msgs : posted[n] # None => n < m
  BY <1>1, RadarAssumption
<1>4. \A n \in Msgs \ {m} : posted'[n] = posted[n]
  BY <1>1, <1>2
<1>5. m \in Nat /\ Msgs \subseteq Nat
  BY RadarAssumption
<1>6. CASE scan.pc = "page"
  <2>1. scan.before # 0 /\ scan.before \in Msgs /\ posted[scan.before] \in Versions
    BY <1>6 DEF RadarInv, ScanOK, IsScan
  <2>2. scan.before < m /\ scan.before \in Nat
    BY <1>2, <1>3, <1>5, <2>1
  <2>3. ~(m < scan.before)
    BY <1>5, <2>2
  <2>4. \A p : Below(p, scan.before)' = Below(p, scan.before)
    BY <1>1, <1>4, <2>1, <2>3 DEF Below
  <2> QED
    BY <1>1, <1>6, <2>4 DEF Unread
<1>7. CASE scan.pc = "message"
  <2>1. PICK x \in scan.page : x[1] \in Msgs /\ posted[x[1]] \in Versions
    BY <1>7 DEF RadarInv, ScanOK, IsScan
  <2>2. ~(m < x[1])
    BY <1>2, <1>3, <1>5, <2>1
  <2>3. Unread = {n \in Below(scan.peer, 0) : \A y \in scan.page : n < y[1]}
    BY <1>7 DEF Unread
  <2>4. Unread' = {n \in Below(scan.peer, 0)' : \A y \in scan.page : n < y[1]}
    BY <1>1, <1>7 DEF Unread
  <2>5. \A n \in Msgs : n # m => (n \in Below(scan.peer, 0)' <=> n \in Below(scan.peer, 0))
    BY <1>1, <1>4 DEF Below
  <2>6. Below(scan.peer, 0)' \subseteq Msgs /\ Below(scan.peer, 0) \subseteq Msgs
    BY DEF Below
  <2> QED
    BY <2>1, <2>2, <2>3, <2>4, <2>5, <2>6
<1> QED
  BY <1>6, <1>7

(* A page is read: what the scan looks for is on it or further below.      *)
LEMMA BelowFinite ==
  ASSUME RadarInv, NEW p, NEW n
  PROVE  IsFiniteSet(Below(p, n)) /\ Below(p, n) \subseteq Nat /\ Below(p, n) \subseteq Msgs
<1>1. Below(p, n) \subseteq {m \in Msgs : posted[m] # None} /\ Below(p, n) \subseteq Msgs
  BY DEF Below
<1>2. IsFiniteSet({m \in Msgs : posted[m] # None})
  BY DEF RadarInv, Tables
<1> QED
  BY <1>1, <1>2, FS_Subset, RadarAssumption

LEMMA PageTurned ==
  ASSUME RadarInv, getHistory, NEW n, Reached(Below(scan.peer, scan.before), n, scan.pages)
  PROVE  /\ scan'.pc = "message" /\ scan'.peer = scan.peer
         /\ \/ <<n, posted[n]>> \in scan'.page
            \/ Reached(Unread', n, scan'.pages)
<1> DEFINE B == Below(scan.peer, scan.before)
           page == Newest(B, PageSize)
           rest == {m \in B : \A x \in page : m < x}
           read == {<<m, posted[m]>> : m \in page}
           s == [scan EXCEPT !.pc = "message", !.page = read, !.pages = @ + 1]
<1>1. IsFiniteSet(B) /\ B \subseteq Nat /\ B \subseteq Msgs
  BY BelowFinite
<1>2. IsScan(scan) /\ scan.pages \in 0..MaxPages /\ posted' = posted
  BY DEF RadarInv, ScanOK, IsScan, getHistory, ScanOnly
<1>3. scan.pages < MaxPages /\ page # {} /\ (n \in page \/ Reached(rest, n, scan.pages + 1))
  BY <1>1, <1>2, PageReaches
<1>4. scan.pages # MaxPages
  BY <1>2, <1>3, RadarAssumption
<1>5. scan' = s
  BY <1>3, <1>4 DEF getHistory
<1>6. /\ s.pc = "message" /\ s.peer = scan.peer /\ s.page = read /\ s.pages = scan.pages + 1
  BY <1>2 DEF IsScan, ScanFields
<1> HIDE DEF s
<1>7. Unread' = rest
  <2>1. \A m \in page : scan.before # 0 => m < scan.before
    BY DEF Newest, Below
  <2>2. scan.before \in Nat
    BY <1>2, RadarAssumption DEF IsScan
  <2>3. Unread' = {m \in Below(scan.peer, 0) : \A x \in read : m < x[1]}
    BY <1>2, <1>5, <1>6 DEF Unread, Below
  <2>4. ASSUME NEW m \in Msgs PROVE (\A x \in read : m < x[1]) <=> (\A x \in page : m < x)
    <3>1. \A x \in page : <<x, posted[x]>> \in read /\ <<x, posted[x]>>[1] = x
      OBVIOUS
    <3>2. \A y \in read : y[1] \in page
      OBVIOUS
    <3> HIDE DEF page, read
    <3> QED
      BY <3>1, <3>2
  <2>5. ASSUME NEW m \in Below(scan.peer, 0), \A x \in page : m < x PROVE m \in B
    <3>1. PICK x \in page : m < x
      BY <1>3, <2>5
    <3>2. x \in Nat /\ m \in Nat /\ m \in Msgs
      BY <1>1, RadarAssumption DEF Newest, Below
    <3>3. scan.before # 0 => m < scan.before
      BY <2>1, <2>2, <3>1, <3>2
    <3> QED
      BY <2>5, <3>3 DEF Below
  <2>6. B \subseteq Below(scan.peer, 0)
    BY DEF Below
  <2>7. Below(scan.peer, 0) \subseteq Msgs
    BY DEF Below
  <2> HIDE DEF B, page, read
  <2> QED
    BY <2>3, <2>4, <2>5, <2>6, <2>7
<1>8. n \in page => <<n, posted[n]>> \in read
  OBVIOUS
<1> HIDE DEF B, page, rest, read
<1> QED
  BY <1>3, <1>5, <1>6, <1>7, <1>8

LEMMA HistoryPays ==
  ASSUME RadarInv, getHistory, \A k \in owed[Scan] : ScanOwes(k), NEW k \in owed'[Scan]
  PROVE  ScanOwes(k)'
<1>1. /\ scan.pc = "page" /\ work[Scan].pc = "idle" /\ work' = work
      /\ UNCHANGED <<posted, peers, rules, events>>
      /\ scan.peer \in Peers /\ Scan \in Procs /\ IsScan(scan)
  BY DEF getHistory, ScanOnly, tables, RadarInv, ScanOK, IsScan, Procs
<1> DEFINE n == k[1]
           v == posted[n]
<1>2. /\ PeerOf[n] = scan.peer /\ peers[scan.peer] = "on" /\ n \notin Service /\ n >= Since
      /\ v \in Versions
      /\ \E r \in rules : Wants(r, k, v)
           /\ \/ Recorded(k[1], k[2]) /\ scan.pages > 0
              \/ Reached(Below(scan.peer, scan.before), n, scan.pages)
  <2>1. CASE scan.pages # 0
    <3>1. k \in owed[Scan]
      BY <2>1 DEF getHistory
    <3>2. ScanOwes(k)
      BY <3>1
    <3>3. scan.pages > 0
      BY <1>1, <3>2 DEF ScanOwes
    <3>4. PICK r \in rules : Wants(r, k, v) /\ (Recorded(k[1], k[2]) \/ Waits(k, r))
      BY <3>2 DEF ScanOwes
    <3>5. Waits(k, r) => Reached(Below(scan.peer, scan.before), n, scan.pages)
      BY <1>1 DEF Waits, Unread
    <3> QED
      BY <3>2, <3>3, <3>4, <3>5 DEF ScanOwes
  <2>2. CASE scan.pages = 0
    <3>1. owed[Scan] = {}
      BY <1>1, <2>2 DEF ScanOwes
    <3>2. /\ peers[scan.peer] = "on"
          /\ owed'[Scan] = UNION {Due(m, posted[m]) : m \in Within(scan.peer)}
      BY <1>1, <2>2, <3>1 DEF getHistory, RadarInv, Tables
    <3>3. PICK m \in Within(scan.peer) : k \in Due(m, posted[m])
      BY <3>2
    <3>4. PICK r \in rules : Wanted(m, posted[m], r.phrase, r.body) /\ k = <<m, r.phrase>>
      BY <3>3 DEF Due
    <3>5. n = m /\ k[2] = r.phrase
      BY <3>4
    <3>6. scan.before = 0
      BY <1>1, <2>2 DEF IsScan
    <3>7. /\ m \in Below(scan.peer, 0) /\ m \notin Service /\ m >= Since
          /\ Cardinality(Above(Below(scan.peer, 0), m)) < PageSize * MaxPages
      BY DEF Within, Newest, Above
    <3>8. PeerOf[m] = scan.peer /\ posted[m] \in Versions
      BY <3>7 DEF Below, RadarInv, Tables
    <3>9. (MaxPages - scan.pages) * PageSize = PageSize * MaxPages
      BY <2>2, RadarAssumption
    <3>10. Reached(Below(scan.peer, scan.before), n, scan.pages)
      BY <3>5, <3>6, <3>7, <3>9 DEF Reached
    <3> QED
      BY <3>2, <3>4, <3>5, <3>7, <3>8, <3>10 DEF Wants
  <2> QED
    BY <2>1, <2>2
<1>3. PICK r \in rules : Wants(r, k, v)
           /\ \/ Recorded(k[1], k[2]) /\ scan.pages > 0
              \/ Reached(Below(scan.peer, scan.before), n, scan.pages)
  BY <1>2
<1>4. scan'.pc \in {"message", "scanned"} /\ scan'.peer = scan.peer
  BY <1>1 DEF getHistory, PeerScanned, IsScan, ScanFields
<1>5. CASE Recorded(k[1], k[2])
  BY <1>1, <1>2, <1>3, <1>4, <1>5 DEF ScanOwes, Recorded, Wants
<1>6. CASE Reached(Below(scan.peer, scan.before), n, scan.pages)
  <2>1. /\ scan'.pc = "message" /\ scan'.peer = scan.peer
        /\ <<n, v>> \in scan'.page \/ Reached(Unread', n, scan'.pages)
    BY <1>6, PageTurned
  <2>2. Waits(k, r)'
    BY <1>1, <2>1 DEF Waits
  <2> QED
    BY <1>1, <1>2, <1>3, <1>4, <2>2 DEF ScanOwes, Wants
<1> QED
  BY <1>3, <1>5, <1>6

(* The scan goes on to the next message of its page.                       *)
LEMMA WantedText ==
  ASSUME NEW m, NEW v, NEW phrase, NEW body, Wanted(m, v, phrase, body)
  PROVE  TextOf[m][v].words # <<>>
BY DEF Wanted, Evaluate

LEMMA NextMessage ==
  ASSUME RadarInv, NEW m \in scan.page, \A n \in scan.page : n[1] <= m[1], scan.pc = "message",
         scan' = [scan EXCEPT !.page = @ \ {m}, !.before = m[1],
                              !.pc = IF scan.page = {m} THEN "page" ELSE @],
         UNCHANGED posted
  PROVE  /\ scan'.peer = scan.peer /\ scan'.pages = scan.pages /\ scan'.pages > 0
         /\ scan'.page = scan.page \ {m}
         /\ scan'.pc = IF scan.page = {m} THEN "page" ELSE "message"
         /\ Unread' = Unread
<1> DEFINE s == [scan EXCEPT !.page = @ \ {m}, !.before = m[1],
                             !.pc = IF scan.page = {m} THEN "page" ELSE @]
<1>1. IsScan(scan) /\ m \in Msgs \X Versions /\ scan.page \subseteq Msgs \X Versions /\ scan.pages > 0
  BY DEF RadarInv, ScanOK, IsScan
<1>2. /\ s.peer = scan.peer /\ s.pages = scan.pages /\ s.page = scan.page \ {m} /\ s.before = m[1]
      /\ s.pc = IF scan.page = {m} THEN "page" ELSE "message"
  BY <1>1 DEF IsScan, ScanFields
<1>3. scan' = s
  OBVIOUS
<1> HIDE DEF s
<1>4. m[1] \in Msgs /\ m[1] \in Nat /\ m[1] # 0
  BY <1>1, RadarAssumption
<1>5. Unread = {n \in Below(scan.peer, 0) : \A x \in scan.page : n < x[1]}
  BY DEF Unread
<1>6. \A b : Below(scan.peer, b)' = Below(scan.peer, b)
  BY <1>2, <1>3 DEF Below
<1>7. Unread' = Unread
  <2>1. CASE scan.page = {m}
    <3>1. s.pc = "page"
      BY <1>2, <2>1
    <3>2. Unread' = Below(scan.peer, m[1])
      BY <1>2, <1>3, <3>1 DEF Unread, Below
    <3>3. \A n \in Msgs : (\A x \in scan.page : n < x[1]) <=> n < m[1]
      BY <2>1
    <3>4. Below(scan.peer, 0) \subseteq Msgs /\ Below(scan.peer, m[1]) \subseteq Msgs
      BY DEF Below
    <3> QED
      BY <1>4, <1>5, <3>2, <3>3, <3>4 DEF Below
  <2>2. CASE scan.page # {m}
    <3>1. s.pc = "message"
      BY <1>2, <2>2
    <3>2. Unread' = {n \in Below(scan.peer, 0) : \A x \in scan.page \ {m} : n < x[1]}
      BY <1>2, <1>3, <3>1 DEF Unread, Below
    <3>3. PICK y \in scan.page : y # m
      BY <2>2
    <3>4. ASSUME NEW n \in Msgs, \A x \in scan.page \ {m} : n < x[1] PROVE n < m[1]
      <4>1. n < y[1] /\ y[1] <= m[1] /\ y[1] \in Nat /\ n \in Nat
        BY <1>1, <3>3, <3>4, RadarAssumption
      <4> QED
        BY <1>4, <4>1
    <3>5. Below(scan.peer, 0) \subseteq Msgs
      BY DEF Below
    <3> QED
      BY <1>5, <3>2, <3>4, <3>5
  <2> QED
    BY <2>1, <2>2
<1> QED
  BY <1>1, <1>2, <1>3, <1>7

LEMMA MessagePays ==
  ASSUME RadarInv, ScanMessage, NEW k, ScanOwes(k)
  PROVE  ScanOwes(k)'
<1> DEFINE n == k[1]
           v == posted[n]
           owes == <<n, v>>
<1>1. /\ scan.pc = "message" /\ work[Scan].pc = "idle" /\ UNCHANGED <<posted, peers, rules, events>>
      /\ IsScan(scan) /\ Scan \in Procs
  BY DEF ScanMessage, ScanOnly, tables, RadarInv, ScanOK, IsScan, Procs
<1>2. PICK m \in scan.page :
        /\ \A x \in scan.page : x[1] <= m[1]
        /\ IF EndsPeriod(m[1])
           THEN scan' = PeerScanned /\ UNCHANGED work
           ELSE /\ scan' = [scan EXCEPT !.page = @ \ {m}, !.before = m[1],
                                        !.pc = IF scan.page = {m} THEN "page" ELSE @]
                /\ work' = IF Looks(m[1], m[2]) THEN [work EXCEPT ![Scan] = Looking(m[1], m[2])]
                           ELSE work
  BY DEF ScanMessage
<1>3. /\ PeerOf[n] = scan.peer /\ peers[scan.peer] = "on" /\ n \notin Service /\ n >= Since
      /\ v \in Versions
  BY DEF ScanOwes
<1>4. PICK r \in rules : Wants(r, k, v) /\ (Recorded(k[1], k[2]) \/ Waits(k, r))
  BY DEF ScanOwes
<1>5. Waits(k, r) => owes \in scan.page \/ Reached(Unread, n, scan.pages)
  BY <1>1 DEF Waits
<1>6. m[1] \in Msgs /\ m[2] \in Versions /\ m = <<m[1], m[2]>> /\ m[1] \in Nat
  BY <1>1, RadarAssumption DEF IsScan
<1>7. CASE EndsPeriod(m[1])
  <2>1. scan'.pc = "scanned" /\ scan'.peer = scan.peer
    BY <1>1, <1>2, <1>7 DEF PeerScanned, IsScan, ScanFields
  <2>2. ~Waits(k, r)
    <3> SUFFICES ASSUME Waits(k, r) PROVE FALSE
      OBVIOUS
    <3>1. n <= m[1] /\ n \in Nat
      <4>1. CASE owes \in scan.page
        <5>1. owes[1] = n /\ owes \in Msgs \X Versions /\ owes[1] <= m[1]
          BY <1>1, <1>2, <4>1 DEF IsScan
        <5> QED
          BY <5>1, RadarAssumption
      <4>2. CASE Reached(Unread, n, scan.pages)
        <5>1. n \in Below(scan.peer, 0) /\ n < m[1]
          BY <1>1, <4>2 DEF Reached, Unread
        <5> QED
          BY <1>6, <5>1, RadarAssumption DEF Below
      <4> QED
        BY <1>5, <4>1, <4>2
    <3>2. m[1] < Since /\ Since \in Nat
      BY <1>7, RadarAssumption DEF EndsPeriod
    <3> QED
      BY <1>3, <1>6, <3>1, <3>2
  <2> QED
    BY <1>1, <1>3, <1>4, <2>1, <2>2 DEF ScanOwes, Recorded, Wants
<1>8. CASE ~EndsPeriod(m[1])
  <2>1. /\ scan'.peer = scan.peer /\ scan'.pages = scan.pages /\ scan'.pages > 0
        /\ scan'.page = scan.page \ {m}
        /\ scan'.pc = IF scan.page = {m} THEN "page" ELSE "message"
        /\ Unread' = Unread
    BY <1>1, <1>2, <1>8, NextMessage
  <2>2. work' = IF Looks(m[1], m[2]) THEN [work EXCEPT ![Scan] = Looking(m[1], m[2])] ELSE work
    BY <1>2, <1>8
  <2>3. CASE Recorded(k[1], k[2])
    BY <1>1, <1>3, <1>4, <2>1, <2>3 DEF ScanOwes, Recorded, Wants
  <2>4. CASE owes = m
    <3>1. m[1] = n /\ m[2] = v
      BY <2>4
    <3>2. TextOf[n][v].words # <<>>
      BY <1>4, WantedText DEF Wants
    <3>3. Looks(m[1], m[2])
      BY <1>3, <3>1, <3>2 DEF Looks
    <3>4. work'[Scan] = Looking(m[1], m[2])
      BY <1>1, <2>2, <3>3 DEF RadarInv, WorkOK
    <3>5. work'[Scan].pc = "list" /\ work'[Scan].msg = n /\ work'[Scan].ver = v
      BY <1>6, <3>1, <3>4, LookingWork
    <3>6. Waits(k, r)'
      BY <1>1, <3>5 DEF Waits, InHand
    <3> QED
      BY <1>1, <1>3, <1>4, <2>1, <3>6 DEF ScanOwes, Wants
  <2>5. CASE owes \in scan.page /\ owes # m
    <3>1. owes \in scan'.page /\ scan'.pc = "message"
      BY <2>1, <2>5
    <3>2. Waits(k, r)'
      BY <1>1, <3>1 DEF Waits
    <3> QED
      BY <1>1, <1>3, <1>4, <2>1, <3>2 DEF ScanOwes, Wants
  <2>6. CASE Reached(Unread, n, scan.pages)
    <3>1. Waits(k, r)'
      BY <2>1, <2>6 DEF Waits
    <3> QED
      BY <1>1, <1>3, <1>4, <2>1, <3>1 DEF ScanOwes, Wants
  <2> QED
    BY <1>4, <1>5, <2>3, <2>4, <2>5, <2>6
<1> QED
  BY <1>7, <1>8

-----------------------------------------------------------------------------
(* Everybody's debts, step by step.                                        *)
LEMMA ChatsOwe ==
  ASSUME Debts, events \subseteq events',
         \A p \in Peers : work'[p] = work[p] /\ owed'[p] \subseteq owed[p],
         \A p \in Peers : \A k \in owed'[p] : RuleKept(k)
  PROVE  \A p \in Peers : ChatOwes(p)'
BY ChatOwesKept DEF Debts

LEMMA RulesStay == rules' = rules => \A k : RuleKept(k)
BY DEF RuleKept

LEMMA PostDebts == ASSUME RadarInv, Debts, NEW m \in Msgs, Post(m) PROVE Debts'
<1>1. /\ UNCHANGED <<peers, rules, events, work, scan, owed>> /\ posted[m] = None
      /\ posted' = [posted EXCEPT ![m] = 0]
  BY DEF Post, tables
<1>2. \A p \in Peers : ChatOwes(p)'
  BY <1>1, ChatsOwe, RulesStay
<1>3. ASSUME NEW k \in owed[Scan] PROVE ScanOwes(k)'
  <2>1. ScanOwes(k)
    BY DEF Debts
  <2>2. None \notin Versions
    BY RadarAssumption DEF Versions, None
  <2>3. posted'[k[1]] = posted[k[1]]
    BY <1>1, <2>1, <2>2 DEF ScanOwes, RadarInv, Tables
  <2>4. scan.pc = "scanned" \/ Unread' = Unread
    BY <2>1, PostedAbove DEF ScanOwes
  <2> QED
    BY <1>1, <2>1, <2>3, <2>4, ScanOwesKept, RulesStay
<1> QED
  BY <1>1, <1>2, <1>3 DEF Debts

LEMMA EditDebts == ASSUME RadarInv, Debts, NEW m \in Msgs, Edit(m) PROVE Debts'
<1>1. /\ UNCHANGED <<peers, rules, events, work, scan>> /\ posted[m] < MaxVer
      /\ posted' = [posted EXCEPT ![m] = @ + 1]
      /\ owed' = [owed EXCEPT ![Scan] = {k \in @ : k[1] # m}]
  BY DEF Edit, tables
<1>2. /\ owed'[Scan] = {k \in owed[Scan] : k[1] # m} /\ \A p \in Peers : owed'[p] = owed[p]
  BY <1>1, RadarAssumption DEF RadarInv, Tables, Procs
<1>3. \A p \in Peers : ChatOwes(p)'
  BY <1>1, <1>2, ChatsOwe, RulesStay
<1>4. Unread' = Unread
  <2>1. posted \in [Msgs -> Versions \cup {None}] /\ None = MaxVer + 1 /\ MaxVer \in Nat
    BY RadarAssumption DEF RadarInv, Tables, None
  <2>2. posted[m] \in Nat
    BY <2>1 DEF Versions
  <2>3. posted[m] # None /\ posted'[m] # None
    BY <1>1, <2>1, <2>2
  <2> QED
    BY <1>1, <2>1, <2>3, UnreadKept
<1>5. ASSUME NEW k \in owed'[Scan] PROVE ScanOwes(k)'
  <2>1. ScanOwes(k) /\ k[1] # m
    BY <1>2, <1>5 DEF Debts
  <2>2. posted'[k[1]] = posted[k[1]]
    BY <1>1, <2>1 DEF RadarInv, Tables
  <2> QED
    BY <1>1, <1>4, <2>1, <2>2, ScanOwesKept, RulesStay
<1> QED
  BY <1>3, <1>5 DEF Debts

(* A rule that is written or deleted takes what was owed for it along.     *)
LEMMA WrittenDebts ==
  ASSUME RadarInv, Debts, NEW new, NEW changed, Written(new, changed),
         \A r \in rules : r.phrase \notin changed => r \in new
  PROVE  Debts'
<1>1. /\ UNCHANGED <<posted, peers, events, work, scan>> /\ rules' = new
      /\ \A p \in Procs : owed'[p] = {k \in owed[p] : k[2] \notin changed}
  BY DEF Written
<1>2. \A p \in Procs : \A k \in owed'[p] : k \in owed[p] /\ RuleKept(k)
  BY <1>1 DEF RuleKept
<1>3. \A p \in Peers : ChatOwes(p)'
  BY <1>1, <1>2, ChatsOwe DEF Procs
<1>4. ASSUME NEW k \in owed'[Scan] PROVE ScanOwes(k)'
  <2>1. k \in owed[Scan] /\ RuleKept(k)
    BY <1>2 DEF Procs
  <2>2. ScanOwes(k)
    BY <2>1 DEF Debts
  <2>3. Unread' = Unread
    BY <1>1, UnreadKept
  <2> QED
    BY <1>1, <2>1, <2>2, <2>3, ScanOwesKept
<1> QED
  BY <1>3, <1>4 DEF Debts

LEMMA UpsertedKeeps ==
  ASSUME NEW phrase, NEW body, NEW r \in rules, r.phrase # phrase
  PROVE  r \in Upserted(phrase, body)
BY DEF Upserted

LEMMA RulesDebts ==
  ASSUME RadarInv, Debts, NEW phrase, NEW body,
         \/ AddKeyword(phrase) \/ UpsertWatchRule(phrase, body)
         \/ \E values \in SUBSET Phrases : ApplyWatchRules(phrase, body, values)
  PROVE  Debts'
<1>1. CASE AddKeyword(phrase)
  BY <1>1, WrittenDebts DEF AddKeyword
<1>2. CASE UpsertWatchRule(phrase, body)
  BY <1>2, UpsertedKeeps, WrittenDebts DEF UpsertWatchRule
<1>3. ASSUME NEW values \in SUBSET Phrases, ApplyWatchRules(phrase, body, values) PROVE Debts'
  <2> DEFINE written == Upserted(phrase, body)
             deleted == UNION {Meant(value, written) : value \in values}
  <2>1. Written(written \ deleted, {phrase} \cup NamesOf(deleted))
    BY <1>3 DEF ApplyWatchRules
  <2>2. \A r \in rules : r.phrase # phrase => r \in written
    BY UpsertedKeeps
  <2> HIDE DEF written, deleted
  <2>3. \A r \in rules : r.phrase \notin {phrase} \cup NamesOf(deleted) => r \in written \ deleted
    BY <2>2 DEF NamesOf
  <2> QED
    BY <2>1, <2>3, WrittenDebts
<1> QED
  BY <1>1, <1>2, <1>3

LEMMA DeleteDebts == ASSUME RadarInv, Debts, NEW rows, DeleteKeyword(rows) PROVE Debts'
<1>1. Written(rules \ rows, NamesOf(rows))
  BY DEF DeleteKeyword
<1>2. \A r \in rules : r.phrase \notin NamesOf(rows) => r \in rules \ rows
  BY DEF NamesOf
<1> QED
  BY <1>1, <1>2, WrittenDebts

(* Switches.                                                               *)
LEMMA SwitchDebts ==
  ASSUME RadarInv, Debts, UNCHANGED <<posted, rules, events, work, scan>>,
         \A p \in Peers : owed'[p] = owed[p], owed'[Scan] \subseteq owed[Scan],
         \A k \in owed'[Scan] : peers[PeerOf[k[1]]] = "on" => peers'[PeerOf[k[1]]] = "on"
  PROVE  Debts'
<1>1. \A p \in Peers : ChatOwes(p)'
  BY ChatsOwe, RulesStay
<1>2. ASSUME NEW k \in owed'[Scan] PROVE ScanOwes(k)'
  <2>1. ScanOwes(k)
    BY <1>2 DEF Debts
  <2>2. PeerOf[k[1]] = scan.peer
    BY <2>1 DEF ScanOwes
  <2>3. peers[scan.peer] = "on" => peers'[scan.peer] = "on"
    BY <1>2, <2>2
  <2>4. Unread' = Unread
    BY UnreadKept
  <2> QED
    BY <2>1, <2>3, <2>4, ScanOwesKept, RulesStay
<1> QED
  BY <1>1, <1>2 DEF Debts

LEMMA SourceDebts ==
  ASSUME RadarInv, Debts, NEW p \in Peers, NEW state \in {"on", "off"},
         SetMonitorPeerEnabled(p, state), SettingsOnly
  PROVE  Debts'
<1>1. /\ UNCHANGED <<posted, rules, events, work, scan>>
      /\ peers' = [peers EXCEPT ![p] = state]
      /\ owed' = IF state = "on" THEN owed
                 ELSE [owed EXCEPT ![Scan] = {k \in @ : PeerOf[k[1]] # p}]
  BY DEF SetMonitorPeerEnabled, SettingsOnly
<1>2. \A q \in Peers : peers'[q] = IF q = p THEN state ELSE peers[q]
  BY <1>1 DEF RadarInv, Tables
<1>3. CASE state = "on"
  <2>1. \A k \in owed'[Scan] : PeerOf[k[1]] \in Peers
    BY RadarAssumption, <1>1, <1>3 DEF RadarInv, Tables, Keys, Procs
  <2> QED
    BY <1>1, <1>2, <1>3, <2>1, SwitchDebts
<1>4. CASE state # "on"
  <2>1. /\ \A q \in Peers : owed'[q] = owed[q]
        /\ owed'[Scan] = {k \in owed[Scan] : PeerOf[k[1]] # p}
    BY <1>1, <1>4, RadarAssumption DEF RadarInv, Tables, Procs
  <2>2. \A k \in owed[Scan] : PeerOf[k[1]] \in Peers
    BY RadarAssumption DEF RadarInv, Tables, Keys, Procs
  <2> QED
    BY <1>1, <1>2, <2>1, <2>2, SwitchDebts
<1> QED
  BY <1>3, <1>4

LEMMA SettingsDebts ==
  ASSUME RadarInv, Debts,
         \/ \E p \in Peers : toggleSource(p) \/ EnableSource(p)
         \/ SyncDialogs \/ handleStart \/ handleStop
  PROVE  Debts'
<1>1. ASSUME NEW p \in Peers, toggleSource(p) PROVE Debts'
  BY <1>1, SourceDebts DEF toggleSource
<1>2. ASSUME NEW p \in Peers, EnableSource(p) PROVE Debts'
  BY <1>2, SourceDebts DEF EnableSource
<1>3. CASE SyncDialogs
  <2>1. UNCHANGED <<posted, rules, events, work, scan, owed>>
    BY <1>3 DEF SyncDialogs, SettingsOnly
  <2>2. \A p \in Peers : peers[p] = "on" => peers'[p] = "on"
    BY <1>3 DEF SyncDialogs
  <2>3. \A k \in owed[Scan] : PeerOf[k[1]] \in Peers
    BY RadarAssumption DEF RadarInv, Tables, Keys, Procs
  <2> QED
    BY <2>1, <2>2, <2>3, SwitchDebts
<1>4. CASE handleStart \/ handleStop
  <2>1. UNCHANGED <<posted, peers, rules, events, work, scan, owed>>
    BY <1>4 DEF handleStart, handleStop, SettingsOnly
  <2> QED
    BY <2>1, SwitchDebts
<1> QED
  BY <1>1, <1>2, <1>3, <1>4

(* Updates: a chat that starts or ends one owes nothing.                   *)
LEMMA ChatDebts ==
  ASSUME RadarInv, Debts, NEW p \in Peers, Chat(p) \/ UpdateFails(p)
  PROVE  Debts'
<1>1. /\ UNCHANGED <<posted, peers, rules, events, scan>> /\ p \in Procs /\ p # Scan /\ Scan \in Procs
  BY RadarAssumption DEF Chat, handleUpdate, SetChannelPts, UpdateFails, ChatOnly, tables, Procs
<1>2. \A q \in Procs \ {p} : work'[q] = work[q]
  BY DEF Chat, handleUpdate, SetChannelPts, UpdateFails, RadarInv, WorkOK
<1>3. owed'[p] = {} /\ \A q \in Procs \ {p} : owed'[q] = owed[q]
  <2>1. CASE handleUpdate(p)
    BY <1>1, <2>1 DEF handleUpdate, Debts, ChatOwes
  <2>2. CASE SetChannelPts(p) \/ UpdateFails(p)
    BY <1>1, <2>2 DEF SetChannelPts, UpdateFails, Clear, RadarInv, Tables
  <2> QED
    BY <2>1, <2>2 DEF Chat
<1>4. ASSUME NEW q \in Peers PROVE ChatOwes(q)'
  <2>1. CASE q = p
    BY <1>3, <2>1, NothingOwed
  <2>2. CASE q # p
    <3>1. work'[q] = work[q] /\ owed'[q] \subseteq owed[q] /\ ChatOwes(q)
      BY <1>2, <1>3, <2>2 DEF Procs, Debts
    <3> QED
      BY <1>1, <3>1, ChatOwesKept, RulesStay
  <2> QED
    BY <2>1, <2>2
<1>5. ASSUME NEW k \in owed'[Scan] PROVE ScanOwes(k)'
  <2>1. ScanOwes(k) /\ work'[Scan] = work[Scan]
    BY <1>1, <1>2, <1>3, <1>5 DEF Debts
  <2>2. Unread' = Unread
    BY <1>1, UnreadKept
  <2> QED
    BY <1>1, <2>1, <2>2, ScanOwesKept, RulesStay
<1> QED
  BY <1>4, <1>5 DEF Debts

LEMMA ObservedDebts ==
  ASSUME RadarInv, Debts, NEW p \in Procs, processObserved(p)
  PROVE  Debts'
<1>1. /\ \A q \in Procs \ {p} : work'[q] = work[q]
      /\ UNCHANGED <<posted, peers, rules, scan>> /\ events \subseteq events'
  BY Stays
<1>2. \A q \in Procs \ {p} : owed'[q] = owed[q]
  BY DEF processObserved, ListKeywords, loadKeywordDetails, RecordEvent, NotifyEvent, RadarInv, Tables
<1>3. p = Scan => owed' = owed
  BY DEF processObserved, ListKeywords, loadKeywordDetails, RecordEvent, NotifyEvent
<1>4. ASSUME NEW q \in Peers PROVE ChatOwes(q)'
  <2>1. CASE q = p
    BY <2>1, ChatPays DEF Debts
  <2>2. CASE q # p
    <3>1. work'[q] = work[q] /\ owed'[q] \subseteq owed[q] /\ ChatOwes(q)
      BY <1>1, <1>2, <2>2 DEF Procs, Debts
    <3> QED
      BY <1>1, <3>1, ChatOwesKept, RulesStay
  <2> QED
    BY <2>1, <2>2
<1>5. ASSUME NEW k \in owed'[Scan] PROVE ScanOwes(k)'
  <2>1. owed'[Scan] = owed[Scan]
    BY <1>2, <1>3 DEF Procs
  <2>2. ScanOwes(k)
    BY <1>5, <2>1 DEF Debts
  <2>3. CASE p = Scan
    BY <2>2, <2>3, ScanPays
  <2>4. CASE p # Scan
    <3>1. work'[Scan] = work[Scan] /\ Unread' = Unread
      BY <1>1, <2>4, UnreadKept DEF Procs
    <3> QED
      BY <1>1, <2>2, <3>1, ScanOwesKept, RulesStay
  <2> QED
    BY <2>3, <2>4
<1> QED
  BY <1>4, <1>5 DEF Debts

(* Scans: nothing is owed before the first page.                           *)
LEMMA ScanDebts ==
  ASSUME RadarInv, Debts, Backfill \/ Scans \/ ScanFails
  PROVE  Debts'
<1>1. /\ UNCHANGED <<rules, events>> /\ Scan \in Procs /\ Scan \notin Peers
      /\ \A p \in Peers : p \in Procs /\ p # Scan
  BY RadarAssumption DEF Backfill, Scans, backfillPeer, getHistory, ScanMessage,
     SetMonitorPeerBackfilled, ScanFails, ScanOnly, tables, Procs
<1>2. \A p \in Peers : work'[p] = work[p]
  BY <1>1 DEF Backfill, Scans, backfillPeer, getHistory, ScanMessage,
     SetMonitorPeerBackfilled, ScanFails, RadarInv, WorkOK
<1>3. \A p \in Peers : owed'[p] = owed[p]
  BY <1>1 DEF Backfill, Scans, backfillPeer, getHistory, ScanMessage,
     SetMonitorPeerBackfilled, ScanFails, Clear, RadarInv, Tables
<1>4. \A p \in Peers : ChatOwes(p)'
  BY <1>1, <1>2, <1>3, ChatsOwe, RulesStay
<1>5. ASSUME NEW k \in owed'[Scan] PROVE ScanOwes(k)'
  <2>1. CASE Backfill \/ backfillPeer
    <3>1. owed' = owed /\ scan.pc \in {"off", "peers"}
      BY <2>1 DEF Backfill, backfillPeer
    <3> QED
      BY <1>5, <3>1 DEF Debts, ScanOwes
  <2>2. CASE getHistory
    BY <1>5, <2>2, HistoryPays DEF Debts
  <2>3. CASE ScanMessage
    <3>1. owed' = owed
      BY <2>3 DEF ScanMessage
    <3> QED
      BY <1>5, <2>3, <3>1, MessagePays DEF Debts
  <2>4. CASE SetMonitorPeerBackfilled \/ ScanFails
    BY <1>1, <1>5, <2>4 DEF SetMonitorPeerBackfilled, ScanFails, Clear, RadarInv, Tables
  <2> QED
    BY <2>1, <2>2, <2>3, <2>4 DEF Scans
<1> QED
  BY <1>4, <1>5 DEF Debts

LEMMA RestartDebts == ASSUME RadarInv, Debts, Restart PROVE Debts'
<1>1. \A p \in Procs : owed'[p] = {}
  BY DEF Restart
<1> QED
  BY <1>1, NothingOwed DEF Debts, Procs

LEMMA DebtsInit == Init => Debts
<1> SUFFICES ASSUME Init PROVE Debts
  OBVIOUS
<1>1. \A p \in Procs : owed[p] = {}
  BY DEF Init
<1> QED
  BY <1>1 DEF Debts, ChatOwes, Procs

LEMMA DebtsStep == RadarInv /\ Debts /\ [Next]_vars => Debts'
<1> SUFFICES ASSUME RadarInv, Debts, [Next]_vars PROVE Debts'
  OBVIOUS
<1>1. CASE UNCHANGED vars
  <2>1. UNCHANGED <<posted, peers, rules, events, work, scan, owed>>
    BY <1>1 DEF vars, tables
  <2> QED
    BY <2>1, SwitchDebts
<1>2. CASE Changes
  <2>1. ASSUME NEW m \in Msgs, Edit(m) PROVE Debts'
    BY <2>1, EditDebts
  <2>2. ASSUME NEW phrase \in Phrases, NEW body \in Bodies,
               \/ addWatchRule(phrase, body) \/ saveWatchRule(phrase, body)
               \/ \E values \in SUBSET Phrases : ApplyWatchRules(phrase, body, values)
        PROVE  Debts'
    BY <2>2, RulesDebts DEF addWatchRule, saveWatchRule
  <2>3. ASSUME NEW phrase \in Phrases, AddKeyword(phrase) PROVE Debts'
    BY <2>3, RulesDebts
  <2>4. CASE deleteKeyword \/ handleStopKeywordCallback
    BY <2>4, DeleteDebts DEF deleteKeyword, handleStopKeywordCallback
  <2>5. CASE \/ \E p \in Peers : toggleSource(p) \/ EnableSource(p)
             \/ SyncDialogs \/ handleStart \/ handleStop
    BY <2>5, SettingsDebts
  <2> QED
    BY <1>2, <2>1, <2>2, <2>3, <2>4, <2>5 DEF Changes
<1>3. CASE Runs
  BY <1>3, PostDebts, ChatDebts, ObservedDebts, ScanDebts, RestartDebts DEF Runs
<1> QED
  BY <1>1, <1>2, <1>3 DEF Next, Settings

(* Nothing is missed: what is owed by a chat or a scan that is done is     *)
(* recorded, because nothing is left in its hands.                         *)
LEMMA PaidInFull == RadarInv /\ Debts => NothingMissed
<1> SUFFICES ASSUME RadarInv, Debts, NEW p \in Procs,
                    IF p = Scan THEN scan.pc = "scanned" ELSE work[p].pc = "done",
                    NEW k \in owed[p]
             PROVE  Recorded(k[1], k[2])
  BY DEF NothingMissed
<1>1. CASE p = Scan
  <2>1. scan.pc = "scanned" /\ ScanOwes(k)
    BY <1>1 DEF Debts
  <2>2. PICK r \in rules : Recorded(k[1], k[2]) \/ Waits(k, r)
    BY <2>1 DEF ScanOwes
  <2>3. work[Scan].pc = "idle"
    BY <2>1 DEF RadarInv, ScanWorks
  <2> QED
    BY <2>1, <2>2, <2>3 DEF Waits
<1>2. CASE p # Scan
  <2>1. work[p].pc = "done" /\ ChatOwes(p)
    BY <1>2 DEF Debts, Procs
  <2>2. PICK r \in rules : Recorded(k[1], k[2]) \/ InHand(work[p], r)
    BY <2>1 DEF ChatOwes
  <2>3. work[p].rows = {} /\ work[p].found = {}
    BY <2>1 DEF RadarInv, WorkOK, IsWork
  <2> QED
    BY <2>1, <2>2, <2>3 DEF InHand
<1> QED
  BY <1>1, <1>2

(* Every reachable state keeps the invariant and the debts.                *)
THEOREM OwedInvariant == Spec => []OwedInv
<1>1. Init => OwedInv
  BY RadarInit, DebtsInit DEF OwedInv
<1>2. OwedInv /\ [Next]_vars => OwedInv'
  BY RadarStep, DebtsStep DEF OwedInv
<1> QED
  BY <1>1, <1>2, PTL DEF Spec

(* When a chat's update has been handled, or a chat of a scan is finished, *)
(* without an error, every message in it that a rule wants is recorded,    *)
(* whatever rules, sources and messages are changed, posted, recorded by   *)
(* another process or scanned in pages meanwhile (processObserved and      *)
(* backfillPeer in internal/monitor/monitor.go).                           *)
THEOREM NothingMissedAlways == Spec => []NothingMissed
<1>1. OwedInv => NothingMissed
  BY PaidInFull DEF OwedInv
<1> QED
  BY <1>1, OwedInvariant, PTL
===============================================================================
