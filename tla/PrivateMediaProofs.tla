-------------------------- MODULE PrivateMediaProofs ---------------------------
(***************************************************************************)
(* What PrivateMedia.tla states of the cache, proved for every number of   *)
(* messages, workers and alerts, and every size of the disk.               *)
(*                                                                         *)
(* Two facts carry the argument.  Nothing becomes local without the mutex, *)
(* so what a worker counted before it began to make room is never less     *)
(* than what is there; and what it puts in place stays its own, or is      *)
(* removed, until its row is written.                                      *)
(***************************************************************************)
EXTENDS PrivateMedia, Counting

(* Whoever does something does it for a message.                           *)
Aimed ==
  /\ \A w \in Workers : worker[w].pc # "idle" => worker[w].msg \in Msgs
  /\ \A s \in Senders : sender[s].pc # "idle" => sender[s].msg \in Msgs

(* While one makes room: what it counted is what is stored or still listed *)
(* at least, and it lists nothing twice.                                   *)
Names(list) == {item[1] : item \in list}
RoomCounted ==
  \A w \in Workers : At(w, "evict") =>
    /\ \A i, j \in worker[w].list : i[1] = j[1] => i = j
    /\ Total(AllLocal \cup Names(worker[w].list)) <= worker[w].used

(* Between the file and its row.                                           *)
FilePlaced ==
  \A w \in Workers : At(w, "store") => files[worker[w].msg] \in {0, worker[w].media}

SweepListed == cleaner.pc = "sweep" => cleaner.list \cap AllLocal = {}

CacheInv == TypeOK /\ Aimed /\ RoomCounted /\ FilePlaced /\ SweepListed /\ WithinDisk

Waiting == {"download", "store", "release"}
Writing == {"download", "store"}

-----------------------------------------------------------------------------
(* The constants, and sums of sizes.                                       *)
LEMMA Settings ==
  /\ Msgs \subseteq Nat /\ IsFiniteSet(Msgs) /\ IsFiniteSet(Workers)
  /\ \A m \in Msgs : Size[m] \in Nat /\ Size[m] # 0 /\ Attachments[m] \in Nat
  /\ MaxDisk \in Nat /\ Ttl \in 0..Hold /\ Hold \in Nat /\ MaxFaults \in Nat
  /\ "free" \notin Workers /\ "cleaner" \notin Workers
BY PrivateMediaAssumption

LEMMA TotalType ==
  ASSUME NEW S, S \subseteq Msgs
  PROVE  Total(S) \in Nat /\ IsFiniteSet(S)
<1>1. IsFiniteSet(S)
  BY Settings, FS_Subset
<1>2. \A x \in S : Size[x] \in Nat
  BY Settings
<1> QED
  BY <1>1, <1>2, SumType DEF Total

LEMMA TotalLess ==
  ASSUME NEW S, S \subseteq Msgs, NEW T, T \subseteq S
  PROVE  Total(T) <= Total(S)
<1>1. IsFiniteSet(S) /\ T \in SUBSET S
  BY TotalType
<1>2. \A x \in S : Size[x] \in Nat /\ Size[x] <= Size[x]
  BY Settings
<1>3. \A x \in T : Size[x] \in Nat /\ Size[x] <= Size[x]
  BY <1>2
<1> QED
  BY <1>1, <1>2, <1>3, SumAtMost DEF Total

LEMMA TotalWithout ==
  ASSUME NEW S, S \subseteq Msgs, NEW m \in S
  PROVE  Total(S) = Size[m] + Total(S \ {m})
<1>1. IsFiniteSet(S) /\ \A x \in S : Size[x] \in Nat
  BY TotalType, Settings
<1> QED
  BY <1>1, SumWithout DEF Total

LEMMA TotalWith ==
  ASSUME NEW S, S \subseteq Msgs, NEW m \in Msgs
  PROVE  Total(S \cup {m}) <= Total(S) + Size[m]
<1>1. S \cup {m} \subseteq Msgs /\ m \in S \cup {m} /\ (S \cup {m}) \ {m} \subseteq S
  OBVIOUS
<1>2. Total(S \cup {m}) = Size[m] + Total((S \cup {m}) \ {m})
  BY <1>1, TotalWithout
<1>3. Total((S \cup {m}) \ {m}) <= Total(S)
  BY <1>1, TotalLess
<1>4. Total((S \cup {m}) \ {m}) \in Nat /\ Total(S) \in Nat /\ Size[m] \in Nat
  BY TotalType, Settings
<1> QED
  BY <1>2, <1>3, <1>4

(* What a set of workers has asked for.                                    *)
Load(wk, S) == SumFunctionOnSet([w \in S |-> Size[wk[w].msg]], S)

LEMMA LoadOne ==
  ASSUME NEW wk, NEW S, S \subseteq Workers, \A w \in S : wk[w].msg \in Msgs
  PROVE  /\ Load(wk, S) \in Nat
         /\ \A w \in S : Load(wk, S) = Size[wk[w].msg] + Load(wk, S \ {w})
<1> DEFINE f == [w \in S |-> Size[wk[w].msg]]
<1>1. IsFiniteSet(S)
  BY Settings, FS_Subset
<1>2. \A w \in S : f[w] = Size[wk[w].msg] /\ f[w] \in Nat
  BY Settings
<1>3. Load(wk, S) = SumFunctionOnSet(f, S)
  BY DEF Load
<1>4. \A w \in S : Load(wk, S \ {w}) = SumFunctionOnSet(f, S \ {w})
  <2> TAKE w \in S
  <2> DEFINE g == [v \in S \ {w} |-> Size[wk[v].msg]]
  <2>1. \A v \in S \ {w} : g[v] = f[v] /\ f[v] \in Nat
    BY <1>2
  <2>2. Load(wk, S \ {w}) = SumFunctionOnSet(g, S \ {w})
    BY DEF Load
  <2>3. IsFiniteSet(S \ {w})
    BY <1>1, FS_RemoveElement
  <2> HIDE DEF f, g
  <2> QED
    BY <2>1, <2>2, <2>3, SumSame
<1> HIDE DEF f
<1>5. SumFunctionOnSet(f, S) \in Nat
  BY <1>1, <1>2, SumType
<1>6. \A w \in S : SumFunctionOnSet(f, S) = f[w] + SumFunctionOnSet(f, S \ {w})
  BY <1>1, <1>2, SumWithout
<1> QED
  BY <1>2, <1>3, <1>4, <1>5, <1>6

LEMMA LoadSame ==
  ASSUME NEW wk, NEW new, NEW S, \A w \in S : new[w].msg = wk[w].msg
  PROVE  Load(new, S) = Load(wk, S)
<1>1. [w \in S |-> Size[new[w].msg]] = [w \in S |-> Size[wk[w].msg]]
  OBVIOUS
<1> QED
  BY <1>1 DEF Load

(* One worker goes on: what was asked for changes by its part.             *)
Part(d, pcs) == IF d.pc \in pcs THEN Size[d.msg] ELSE 0
Among(wk, pcs) == {w \in Workers : wk[w].pc \in pcs}
GoesOn(wk, new, pcs, w) ==
  /\ \A v \in Workers \ {w} : new[v] = wk[v]
  /\ \A v \in Workers : wk[v].pc \in pcs => wk[v].msg \in Msgs
  /\ \A v \in Workers : new[v].pc \in pcs => new[v].msg \in Msgs
LEMMA LoadMoves ==
  ASSUME NEW wk, NEW new, NEW pcs, NEW w \in Workers, GoesOn(wk, new, pcs, w)
  PROVE  /\ Load(wk, Among(wk, pcs)) \in Nat /\ Load(new, Among(new, pcs)) \in Nat
         /\ Part(wk[w], pcs) \in Nat /\ Part(new[w], pcs) \in Nat
         /\ Load(new, Among(new, pcs)) + Part(wk[w], pcs)
              = Load(wk, Among(wk, pcs)) + Part(new[w], pcs)
<1> DEFINE S == Among(wk, pcs)
           T == Among(new, pcs)
           R == S \ {w}
<1>1. /\ S \subseteq Workers /\ T \subseteq Workers /\ R = T \ {w} /\ R = S \ {w}
      /\ (w \in S <=> wk[w].pc \in pcs) /\ (w \in T <=> new[w].pc \in pcs)
      /\ (\A v \in S : wk[v].msg \in Msgs) /\ (\A v \in T : new[v].msg \in Msgs)
      /\ \A v \in R : new[v].msg = wk[v].msg
  BY DEF Among, GoesOn
<1> HIDE DEF S, T, R
<1>2. /\ Load(wk, S) \in Nat
      /\ \A v \in S : Load(wk, S) = Size[wk[v].msg] + Load(wk, S \ {v})
  BY <1>1, LoadOne
<1>3. /\ Load(new, T) \in Nat
      /\ \A v \in T : Load(new, T) = Size[new[v].msg] + Load(new, T \ {v})
  BY <1>1, LoadOne
<1>4. R \subseteq Workers /\ \A v \in R : wk[v].msg \in Msgs
  BY <1>1
<1>5. Load(wk, R) \in Nat
  BY <1>4, LoadOne
<1>6. Load(new, R) = Load(wk, R)
  BY <1>1, LoadSame
<1>7. (w \notin S => R = S) /\ (w \notin T => R = T)
  BY <1>1
<1>8. Load(wk, S) = Part(wk[w], pcs) + Load(wk, R) /\ Part(wk[w], pcs) \in Nat
  <2>1. CASE w \in S
    <3>1. Part(wk[w], pcs) = Size[wk[w].msg] /\ Size[wk[w].msg] \in Nat
      BY <1>1, <2>1, Settings DEF Part
    <3>2. Load(wk, S) = Size[wk[w].msg] + Load(wk, R)
      BY <1>1, <1>2, <2>1
    <3> QED
      BY <3>1, <3>2
  <2>2. CASE w \notin S
    <3>1. Part(wk[w], pcs) = 0
      BY <1>1, <2>2 DEF Part
    <3> QED
      BY <1>5, <1>7, <2>2, <3>1
  <2> QED
    BY <2>1, <2>2
<1>9. Load(new, T) = Part(new[w], pcs) + Load(wk, R) /\ Part(new[w], pcs) \in Nat
  <2>1. CASE w \in T
    <3>1. Part(new[w], pcs) = Size[new[w].msg] /\ Size[new[w].msg] \in Nat
      BY <1>1, <2>1, Settings DEF Part
    <3>2. Load(new, T) = Size[new[w].msg] + Load(new, R)
      BY <1>1, <1>3, <2>1
    <3> QED
      BY <1>6, <3>1, <3>2
  <2>2. CASE w \notin T
    <3>1. Part(new[w], pcs) = 0
      BY <1>1, <2>2 DEF Part
    <3> QED
      BY <1>5, <1>6, <1>7, <2>2, <3>1
  <2> QED
    BY <2>1, <2>2
<1> QED
  BY <1>2, <1>3, <1>5, <1>8, <1>9 DEF S, T

LEMMA AskedMoves ==
  ASSUME TypeOK, Aimed, NEW w \in Workers, NEW d, worker' = [worker EXCEPT ![w] = d],
         NEW pcs, "idle" \notin pcs, d.pc \in pcs => d.msg \in Msgs
  PROVE  /\ Asked(Doing(pcs)) \in Nat /\ Asked(Doing(pcs))' \in Nat
         /\ Part(worker[w], pcs) \in Nat /\ Part(d, pcs) \in Nat
         /\ Asked(Doing(pcs))' + Part(worker[w], pcs) = Asked(Doing(pcs)) + Part(d, pcs)
<1>0. PICK new : new = worker'
  OBVIOUS
<1>1. new[w] = d /\ \A v \in Workers \ {w} : new[v] = worker[v]
  BY <1>0 DEF TypeOK
<1>2. GoesOn(worker, new, pcs, w)
  BY <1>1 DEF GoesOn, Aimed
<1>3. Asked(Doing(pcs)) = Load(worker, Among(worker, pcs))
  BY DEF Asked, Load, Doing, Among
<1>4. Asked(Doing(pcs))' = Load(new, Among(new, pcs))
  BY <1>0 DEF Asked, Load, Doing, Among
<1>5. /\ Load(worker, Among(worker, pcs)) \in Nat /\ Load(new, Among(new, pcs)) \in Nat
      /\ Part(worker[w], pcs) \in Nat /\ Part(new[w], pcs) \in Nat
      /\ Load(new, Among(new, pcs)) + Part(worker[w], pcs)
           = Load(worker, Among(worker, pcs)) + Part(new[w], pcs)
  BY <1>2, LoadMoves
<1> QED
  BY <1>1, <1>3, <1>4, <1>5

-----------------------------------------------------------------------------
(* The initial states.                                                     *)
LEMMA Records ==
  /\ NoRow \in Row /\ IdleWorker \in Download /\ IdleSender \in Sending /\ Resting \in Cleaning
  /\ IdleWorker.pc = "idle" /\ IdleSender.pc = "idle" /\ Resting.pc = "list"
BY Settings DEF NoRow, Row, IdleWorker, Download, IdleSender, Sending, Resting, Cleaning

LEMMA LocalInMsgs == AllLocal \subseteq Msgs /\ AllLocal' \subseteq Msgs
BY DEF AllLocal

LEMMA NobodyAsks ==
  ASSUME NEW S, S = {} PROVE Asked(S) = 0
BY SumEmpty DEF Asked

LEMMA InitCache == Init => CacheInv
<1> SUFFICES ASSUME Init PROVE CacheInv
  OBVIOUS
<1>1. \A pcs : "idle" \notin pcs => Doing(pcs) = {}
  BY Records DEF Init, Doing
<1>2. Asked(Doing(Waiting)) = 0 /\ Asked(Doing(Writing)) = 0
  BY <1>1, NobodyAsks DEF Waiting, Writing
<1>3. AllLocal = {}
  BY DEF Init, AllLocal, Local, Stored, NoRow
<1>4. Total(AllLocal) = 0
  BY <1>3, SumEmpty DEF Total
<1>5. TypeOK
  BY <1>2, Records, Settings DEF Init, TypeOK, Waiting
<1>6. WithinDisk
  BY <1>2, <1>4, Settings DEF WithinDisk, Arriving, Writing
<1> QED
  BY <1>5, <1>6, Records DEF Init, CacheInv, Aimed, RoomCounted, FilePlaced, SweepListed, At

-----------------------------------------------------------------------------
(* What goes on beside the downloads: nothing becomes local, and files are *)
(* only removed.                                                           *)
LEMMA Beside ==
  ASSUME CacheInv, UNCHANGED <<reserved, worker>>, AllLocal' \subseteq AllLocal,
         \A m \in Msgs : files'[m] \in {0, files[m]}
  PROVE  /\ RoomCounted' /\ FilePlaced' /\ WithinDisk'
         /\ (reserved = Asked(Doing(Waiting)))'
         /\ worker' \in [Workers -> Download]
         /\ (\A w \in Workers : worker[w].pc # "idle" => worker[w].msg \in Msgs)'
<1>1. \A pcs : Asked(Doing(pcs))' = Asked(Doing(pcs))
  BY DEF Asked, Doing
<1>2. RoomCounted'
  <2> SUFFICES ASSUME NEW w \in Workers, At(w, "evict")
               PROVE Total(AllLocal' \cup Names(worker[w].list)) <= worker[w].used
    BY DEF RoomCounted, CacheInv, At, Total, Names, TypeOK
  <2> DEFINE S == AllLocal \cup Names(worker[w].list)
             T == AllLocal' \cup Names(worker[w].list)
  <2>1. worker[w] \in Download /\ Total(S) <= worker[w].used
    BY DEF CacheInv, RoomCounted, TypeOK
  <2>2. S \subseteq Msgs /\ T \subseteq S
    BY <2>1, LocalInMsgs DEF Names, Download
  <2> HIDE DEF S, T
  <2>3. Total(T) <= Total(S) /\ Total(T) \in Nat /\ Total(S) \in Nat
    BY <2>2, TotalLess, TotalType
  <2>4. worker[w].used \in Nat
    BY <2>1 DEF Download
  <2>5. Total(T) <= worker[w].used
    BY <2>1, <2>3, <2>4
  <2> QED
    BY <2>5 DEF T
<1>3. FilePlaced'
  BY DEF CacheInv, FilePlaced, At, Aimed
<1>4. WithinDisk'
  <2>1. Total(AllLocal)' = Total(AllLocal') /\ Total(AllLocal') <= Total(AllLocal)
    BY LocalInMsgs, TotalLess DEF Total
  <2>2. Total(AllLocal') \in Nat /\ Total(AllLocal) \in Nat
    BY LocalInMsgs, TotalType
  <2>3. Asked(Doing(Writing)) \in Nat
    <3>1. Asked(Doing(Writing)) = Load(worker, Doing(Writing))
      BY DEF Asked, Load
    <3>2. Doing(Writing) \subseteq Workers /\ \A w \in Doing(Writing) : worker[w].msg \in Msgs
      BY DEF Doing, CacheInv, Aimed, Writing
    <3> QED
      BY <3>1, <3>2, LoadOne
  <2>4. Total(AllLocal) + Asked(Doing(Writing)) <= MaxDisk
    BY DEF CacheInv, WithinDisk, Arriving, Writing
  <2>5. Total(AllLocal)' + Asked(Doing(Writing))' <= MaxDisk
    BY <1>1, <2>1, <2>2, <2>3, <2>4, Settings
  <2> QED
    BY <2>5 DEF WithinDisk, Arriving, Writing
<1>5. (reserved = Asked(Doing(Waiting)))'
  BY <1>1 DEF CacheInv, TypeOK, Waiting
<1> QED
  BY <1>2, <1>3, <1>4, <1>5 DEF CacheInv, TypeOK, Aimed

BesideTypes ==
  /\ tombs' \subseteq Msgs /\ rows' \in [Msgs -> Row] /\ files' \in [Msgs -> Nat]
  /\ faults' \in 0..MaxFaults /\ sender' \in [Senders -> Sending]
  /\ \A s \in Senders : sender'[s].pc # "idle" => sender'[s].msg \in Msgs
  /\ AllLocal' \subseteq AllLocal /\ \A m \in Msgs : files'[m] \in {0, files[m]}

LEMMA BesideKeeps ==
  ASSUME CacheInv, BesideTypes, UNCHANGED <<reserved, worker, mutex, cleaner>>
  PROVE  CacheInv'
<1>1. /\ RoomCounted' /\ FilePlaced' /\ WithinDisk' /\ (reserved = Asked(Doing(Waiting)))'
      /\ worker' \in [Workers -> Download]
      /\ (\A w \in Workers : worker[w].pc # "idle" => worker[w].msg \in Msgs)'
  BY Beside DEF BesideTypes
<1>2. TypeOK'
  BY <1>1 DEF CacheInv, TypeOK, BesideTypes, Waiting
<1>3. Aimed' /\ SweepListed'
  BY <1>1 DEF CacheInv, Aimed, SweepListed, BesideTypes
<1> QED
  BY <1>1, <1>2, <1>3 DEF CacheInv

(* What a step of the cleanup has to leave as it should be.                *)
LEMMA CleanerKeeps ==
  ASSUME CacheInv, BesideTypes, UNCHANGED <<reserved, worker>>,
         mutex' \in Workers \cup {"free", "cleaner"}, cleaner' \in Cleaning,
         \A w \in Workers : mutex' = w <=> mutex = w,
         cleaner'.pc = "sweep" <=> mutex' = "cleaner", SweepListed'
  PROVE  CacheInv'
<1>1. /\ RoomCounted' /\ FilePlaced' /\ WithinDisk' /\ (reserved = Asked(Doing(Waiting)))'
      /\ worker' \in [Workers -> Download]
      /\ (\A w \in Workers : worker[w].pc # "idle" => worker[w].msg \in Msgs)'
  BY Beside DEF BesideTypes
<1>2. TypeOK'
  BY <1>1 DEF CacheInv, TypeOK, BesideTypes, Waiting
<1>3. Aimed'
  BY <1>1 DEF CacheInv, Aimed, BesideTypes
<1> QED
  BY <1>1, <1>2, <1>3 DEF CacheInv

(* A row that changes without becoming local.                              *)
LEMMA NotMoreLocal ==
  ASSUME TypeOK, NEW m \in Msgs, NEW row \in Row, rows' = [rows EXCEPT ![m] = row],
         row.media = 0 \/ row.sent \/ (row.media = rows[m].media /\ row.sent = rows[m].sent)
  PROVE  rows' \in [Msgs -> Row] /\ AllLocal' \subseteq AllLocal
BY DEF TypeOK, AllLocal, Local, Stored

LEMMA FaultOr ==
  ASSUME TypeOK, Fault \/ UNCHANGED faults PROVE faults' \in 0..MaxFaults
BY Settings DEF TypeOK, Fault

LEMMA RecordKeeps ==
  ASSUME CacheInv, NEW m \in Msgs, RecordPrivateMessageDeletions(m) PROVE CacheInv'
<1> DEFINE row == [rows[m] EXCEPT !.left = IF Stored(m) THEN Hold ELSE @]
<1>1. row \in Row /\ row.media = rows[m].media /\ row.sent = rows[m].sent
  BY Settings DEF CacheInv, TypeOK, Row
<1>2. rows' = [rows EXCEPT ![m] = row]
  BY DEF RecordPrivateMessageDeletions
<1> HIDE DEF row
<1>3. rows' \in [Msgs -> Row] /\ AllLocal' \subseteq AllLocal
  BY <1>1, <1>2, NotMoreLocal DEF CacheInv, TypeOK
<1>4. BesideTypes
  BY <1>3 DEF BesideTypes, CacheInv, TypeOK, Aimed, RecordPrivateMessageDeletions
<1> QED
  BY <1>4, BesideKeeps DEF RecordPrivateMessageDeletions, saveVars

LEMMA TickKeeps ==
  ASSUME CacheInv, Tick PROVE CacheInv'
<1>1. \A m \in Msgs : /\ rows'[m] \in Row /\ rows'[m].media = rows[m].media
                      /\ rows'[m].sent = rows[m].sent
  <2> TAKE m \in Msgs
  <2>1. rows[m] \in Row /\ rows[m].left \in 0..Hold
    BY DEF CacheInv, TypeOK, Row
  <2> DEFINE left == IF rows[m].left = 0 THEN 0 ELSE rows[m].left - 1
  <2>2. left \in 0..Hold
    BY <2>1, Settings
  <2>3. rows'[m] = [rows[m] EXCEPT !.left = left]
    BY DEF Tick
  <2> HIDE DEF left
  <2> QED
    BY <2>1, <2>2, <2>3 DEF Row
<1>2. rows' \in [Msgs -> Row] /\ AllLocal' \subseteq AllLocal
  BY <1>1 DEF Tick, AllLocal, Local, Stored
<1>3. BesideTypes
  BY <1>2 DEF BesideTypes, CacheInv, TypeOK, Aimed, Tick
<1> QED
  BY <1>3, BesideKeeps DEF Tick, saveVars

LEMMA ShowKeeps ==
  ASSUME CacheInv, NEW s \in Senders, Show(s) PROVE CacheInv'
<1> USE DEF BySender, saveVars, cacheVars
<1>0. /\ rows \in [Msgs -> Row] /\ files \in [Msgs -> Nat] /\ sender \in [Senders -> Sending]
      /\ tombs \subseteq Msgs /\ faults \in 0..MaxFaults /\ TypeOK
      /\ \A t \in Senders : sender[t].pc # "idle" => sender[t].msg \in Msgs
  BY DEF CacheInv, TypeOK, Aimed
<1>1. UNCHANGED <<reserved, worker, mutex, cleaner, tombs, faults>>
  BY DEF Show, GetPrivateMedia, Open, DeletePrivateMedia, NotSent, MarkSent,
         SetPrivateMediaBotFileID, Unlink
<1>2. ASSUME GetPrivateMedia(s) \/ Open(s) \/ NotSent(s) PROVE BesideTypes
  <2>1. /\ sender' \in [Senders -> Sending]
        /\ \A t \in Senders : sender'[t].pc # "idle" => sender'[t].msg \in Msgs
    <3>1. CASE GetPrivateMedia(s)
      <4>1. PICK m \in tombs :
              sender' = [sender EXCEPT ![s] = [IdleSender EXCEPT !.pc = "open", !.msg = m]]
        BY <3>1 DEF GetPrivateMedia
      <4>2. /\ [IdleSender EXCEPT !.pc = "open", !.msg = m] \in Sending
            /\ [IdleSender EXCEPT !.pc = "open", !.msg = m].msg = m /\ m \in Msgs
        BY <1>0, Records DEF Sending, IdleSender
      <4> QED
        BY <1>0, <4>1, <4>2
    <3>2. CASE Open(s)
      BY <1>0, <3>2 DEF Open, Sending
    <3>3. CASE NotSent(s)
      BY <1>0, <3>3, Records DEF NotSent, Rests
    <3> QED
      BY <1>2, <3>1, <3>2, <3>3
  <2>2. UNCHANGED <<rows, files>>
    BY <1>2 DEF GetPrivateMedia, Open, NotSent
  <2> QED
    BY <1>0, <1>1, <2>1, <2>2 DEF BesideTypes, AllLocal, Local, Stored
<1>3. ASSUME DeletePrivateMedia(s) PROVE BesideTypes
  <2>1. sender[s].msg \in Msgs
    BY <1>0, <1>3 DEF DeletePrivateMedia
  <2>2. rows' \in [Msgs -> Row] /\ AllLocal' \subseteq AllLocal
    BY <1>0, <1>3, <2>1, NotMoreLocal, Records DEF DeletePrivateMedia, NoRow
  <2>3. /\ sender' \in [Senders -> Sending]
        /\ \A t \in Senders : sender'[t].pc # "idle" => sender'[t].msg \in Msgs
    BY <1>0, <1>3, Records DEF DeletePrivateMedia, Rests
  <2> QED
    BY <1>0, <1>1, <1>3, <2>2, <2>3 DEF BesideTypes, DeletePrivateMedia
<1>4. ASSUME SetPrivateMediaBotFileID(s) PROVE BesideTypes
  <2> DEFINE m == sender[s].msg
             row == [rows[m] EXCEPT !.sent = Stored(m)]
  <2>1. m \in Msgs
    BY <1>0, <1>4 DEF SetPrivateMediaBotFileID
  <2>2. row \in Row /\ (row.media = 0 \/ row.sent)
    BY <1>0, <2>1 DEF Row, Stored
  <2>3. rows' = [rows EXCEPT ![m] = row]
    BY <1>4 DEF SetPrivateMediaBotFileID
  <2>4. /\ sender' \in [Senders -> Sending]
        /\ \A t \in Senders : sender'[t].pc # "idle" => sender'[t].msg \in Msgs
    BY <1>0, <1>4, <2>1 DEF SetPrivateMediaBotFileID, Sending
  <2> HIDE DEF m, row
  <2>5. rows' \in [Msgs -> Row] /\ AllLocal' \subseteq AllLocal
    BY <1>0, <2>1, <2>2, <2>3, NotMoreLocal
  <2> QED
    BY <1>0, <1>1, <1>4, <2>4, <2>5 DEF BesideTypes, SetPrivateMediaBotFileID
<1>5. ASSUME Unlink(s) PROVE BesideTypes
  <2>1. /\ files' \in [Msgs -> Nat] /\ \A m \in Msgs : files'[m] \in {0, files[m]}
        /\ UNCHANGED rows
    BY <1>0, <1>5 DEF Unlink
  <2>2. /\ sender' \in [Senders -> Sending]
        /\ \A t \in Senders : sender'[t].pc # "idle" => sender'[t].msg \in Msgs
    BY <1>0, <1>5, Records DEF Unlink, Rests
  <2> QED
    BY <1>0, <1>1, <2>1, <2>2 DEF BesideTypes, AllLocal, Local, Stored
<1>6. BesideTypes
  BY <1>2, <1>3, <1>4, <1>5 DEF Show, MarkSent
<1> QED
  BY <1>1, <1>6, BesideKeeps

(* The cleanup.                                                            *)
LEMMA MinIn ==
  ASSUME NEW S, S \subseteq Msgs, S # {} PROVE Min(S) \in S
<1>1. S \subseteq Nat
  BY Settings
<1>2. \E i \in S : \A j \in S : i <= j
  BY <1>1, Least
<1> QED
  BY <1>2 DEF Min

LEMMA CleanupKeeps ==
  ASSUME CacheInv, Cleanup PROVE CacheInv'
<1> USE DEF ByCleaner, cacheVars
<1>0. /\ rows \in [Msgs -> Row] /\ files \in [Msgs -> Nat] /\ sender \in [Senders -> Sending]
      /\ tombs \subseteq Msgs /\ faults \in 0..MaxFaults /\ TypeOK /\ cleaner \in Cleaning
      /\ mutex \in Workers \cup {"free", "cleaner"}
      /\ \A t \in Senders : sender[t].pc # "idle" => sender[t].msg \in Msgs
      /\ cleaner.pc = "sweep" <=> mutex = "cleaner"
  BY DEF CacheInv, TypeOK, Aimed
<1>1. UNCHANGED <<reserved, worker, tombs, sender>>
  BY DEF Cleanup, ListExpiredPrivateMedia, RemoveExpired, removeOrphans
<1>2. CASE ListExpiredPrivateMedia
  <2>1. cleaner' \in Cleaning /\ cleaner'.pc = "file" /\ cleaner.pc = "list"
    BY <1>0, <1>2 DEF ListExpiredPrivateMedia, Cleaning
  <2>2. BesideTypes
    BY <1>0, <1>1, <1>2 DEF BesideTypes, ListExpiredPrivateMedia, AllLocal, Local, Stored
  <2>3. UNCHANGED mutex
    BY <1>2 DEF ListExpiredPrivateMedia
  <2> QED
    BY <1>0, <1>1, <2>1, <2>2, <2>3, CleanerKeeps DEF SweepListed
<1>3. CASE RemoveExpired
  <2> DEFINE m == Min(cleaner.list)
  <2>1. m \in Msgs
    BY <1>0, <1>3, MinIn DEF RemoveExpired, Cleaning
  <2> HIDE DEF m
  <2>2. /\ files' \in [Msgs -> Nat] /\ \A k \in Msgs : files'[k] \in {0, files[k]}
    <3>1. CASE files' = [files EXCEPT ![m] = 0]
      BY <1>0, <2>1, <3>1
    <3>2. CASE UNCHANGED files
      BY <1>0, <3>2
    <3> QED
      BY <1>3, <3>1, <3>2 DEF RemoveExpired, m
  <2>3. rows' \in [Msgs -> Row] /\ AllLocal' \subseteq AllLocal
    <3>1. CASE rows' = [rows EXCEPT ![m] = NoRow]
      BY <1>0, <2>1, <3>1, NotMoreLocal, Records DEF NoRow
    <3>2. CASE UNCHANGED rows
      BY <1>0, <3>2 DEF AllLocal, Local, Stored
    <3> QED
      BY <1>3, <3>1, <3>2 DEF RemoveExpired, m
  <2>4. /\ cleaner' \in Cleaning /\ cleaner'.pc # "sweep" /\ cleaner.pc \in {"file", "row"}
        /\ UNCHANGED mutex
    <3>0. UNCHANGED mutex
      BY <1>3 DEF RemoveExpired
    <3>1. CASE cleaner.pc = "file" /\ cleaner' = [cleaner EXCEPT !.pc = "row"]
      BY <1>0, <3>0, <3>1 DEF Cleaning
    <3>2. CASE cleaner.pc = "row" /\ cleaner' = [pc |-> "file", list |-> cleaner.list \ {m}]
      BY <1>0, <3>0, <3>2 DEF Cleaning
    <3>3. CASE cleaner.pc \in {"file", "row"} /\ cleaner' = Resting
      BY <3>0, <3>3, Records
    <3> QED
      BY <1>3, <3>1, <3>2, <3>3 DEF RemoveExpired, m
  <2>5. faults' \in 0..MaxFaults
    BY <1>0, <1>3, FaultOr DEF RemoveExpired
  <2>6. BesideTypes
    BY <1>0, <1>1, <2>2, <2>3, <2>5 DEF BesideTypes
  <2> QED
    BY <1>0, <1>1, <2>4, <2>6, CleanerKeeps DEF SweepListed
<1>4. CASE removeOrphans
  <2>1. CASE cleaner.pc = "file" /\ cleaner' = [pc |-> "sweep", list |-> Sweepable]
             /\ mutex = "free" /\ mutex' = "cleaner" /\ UNCHANGED <<rows, files, faults>>
    <3>1. cleaner' \in Cleaning /\ cleaner'.pc = "sweep"
      BY <2>1 DEF Cleaning, Sweepable
    <3>2. SweepListed'
      BY <2>1 DEF SweepListed, Sweepable, AllLocal, Local, Stored
    <3>3. BesideTypes
      BY <1>0, <1>1, <2>1 DEF BesideTypes, AllLocal, Local, Stored
    <3> QED
      BY <1>0, <1>1, <2>1, <3>1, <3>2, <3>3, CleanerKeeps, Settings
  <2>2. CASE cleaner.pc = "sweep" /\ cleaner' = Resting /\ mutex' = "free" /\ UNCHANGED rows
             /\ (\E some \in SUBSET cleaner.list : Removed(some)) /\ (Fault \/ UNCHANGED faults)
    <3>1. cleaner' \in Cleaning /\ cleaner'.pc = "list"
      BY <2>2, Records
    <3>2. files' \in [Msgs -> Nat] /\ \A m \in Msgs : files'[m] \in {0, files[m]}
      BY <1>0, <2>2 DEF Removed
    <3>3. faults' \in 0..MaxFaults
      BY <1>0, <2>2, FaultOr
    <3>4. BesideTypes
      BY <1>0, <1>1, <2>2, <3>2, <3>3 DEF BesideTypes, AllLocal, Local, Stored
    <3> QED
      BY <1>0, <1>1, <2>2, <3>1, <3>4, CleanerKeeps, Settings DEF SweepListed
  <2> QED
    BY <1>4, <2>1, <2>2 DEF removeOrphans, MaySweep, Unlocks
<1> QED
  BY <1>2, <1>3, <1>4 DEF Cleanup

LEMMA CrashKeeps ==
  ASSUME CacheInv, Crash PROVE CacheInv'
<1>1. \A pcs : "idle" \notin pcs => Doing(pcs)' = {}
  BY Records DEF Crash, Doing
<1>2. \A pcs : "idle" \notin pcs => Asked(Doing(pcs))' = 0
  BY <1>1, SumEmpty DEF Asked
<1>3. Asked(Doing(Waiting))' = 0 /\ Asked(Doing(Writing))' = 0
  BY <1>2 DEF Waiting, Writing
<1>4. Total(AllLocal)' = Total(AllLocal)
  BY DEF Crash, cacheVars, Total, AllLocal, Local, Stored
<1>5. Total(AllLocal) \in Nat /\ Asked(Doing(Writing)) \in Nat
  <2>1. Asked(Doing(Writing)) = Load(worker, Doing(Writing))
    BY DEF Asked, Load
  <2>2. Doing(Writing) \subseteq Workers /\ \A w \in Doing(Writing) : worker[w].msg \in Msgs
    BY DEF Doing, CacheInv, Aimed, Writing
  <2> QED
    BY <2>1, <2>2, LoadOne, LocalInMsgs, TotalType
<1>6. WithinDisk'
  <2>1. Total(AllLocal) + Asked(Doing(Writing)) <= MaxDisk
    BY DEF CacheInv, WithinDisk, Arriving, Writing
  <2>2. Total(AllLocal)' + Asked(Doing(Writing))' <= MaxDisk
    BY <1>3, <1>4, <1>5, <2>1, Settings
  <2> QED
    BY <2>2 DEF WithinDisk, Arriving, Writing
<1>7. faults' \in 0..MaxFaults
  BY FaultOr DEF Crash, CacheInv
<1>8. TypeOK'
  BY <1>3, <1>7, Records, Settings DEF Crash, CacheInv, TypeOK, Waiting, cacheVars
<1> QED
  BY <1>6, <1>8, Records DEF Crash, CacheInv, Aimed, RoomCounted, FilePlaced, SweepListed, At

-----------------------------------------------------------------------------
(* A download.  Files and rows change in the hands of the mutex only, so   *)
(* that what another worker has counted or put in place stays as it is.    *)
Goes(w, d) ==
  /\ d \in Download /\ worker' = [worker EXCEPT ![w] = d] /\ (d.pc # "idle" => d.msg \in Msgs)
  /\ UNCHANGED <<tombs, sender, cleaner>> /\ faults' \in 0..MaxFaults
  /\ rows' \in [Msgs -> Row] /\ files' \in [Msgs -> Nat]
  /\ UNCHANGED <<rows, files>> \/ mutex \in {w, "free"}
LockMoves(w, d) ==
  /\ mutex' = mutex \/ (mutex = w /\ mutex' = "free") \/ (mutex = "free" /\ mutex' = w)
  /\ d.pc \in {"evict", "store"} <=> mutex' = w
CountMoves(w, d) ==
  /\ reserved' + Part(worker[w], Waiting) = reserved + Part(d, Waiting) /\ reserved' \in Int
  /\ Total(AllLocal') + Asked(Doing(Writing)) + Part(d, Writing)
       <= MaxDisk + Part(worker[w], Writing)
RoomFor(d) ==
  d.pc = "evict" => /\ \A i, j \in d.list : i[1] = j[1] => i = j
                    /\ Total(AllLocal' \cup Names(d.list)) <= d.used
PlacedBy(d) == d.pc = "store" => files'[d.msg] \in {0, d.media}

LEMMA SameLocal ==
  ASSUME UNCHANGED rows PROVE AllLocal' = AllLocal
BY DEF AllLocal, Local, Stored

LEMMA WorkerKeeps ==
  ASSUME CacheInv, NEW w \in Workers, NEW d, Goes(w, d), LockMoves(w, d), CountMoves(w, d),
         RoomFor(d), PlacedBy(d)
  PROVE  CacheInv'
<1>0. /\ worker \in [Workers -> Download] /\ TypeOK /\ Aimed
      /\ mutex \in Workers \cup {"free", "cleaner"}
      /\ \A v \in Workers : worker[v].pc \in {"evict", "store"} <=> mutex = v
      /\ cleaner.pc = "sweep" <=> mutex = "cleaner"
  BY DEF CacheInv, TypeOK
<1>1. /\ worker' \in [Workers -> Download] /\ worker'[w] = d
      /\ \A v \in Workers \ {w} : worker'[v] = worker[v]
  BY <1>0 DEF Goes
<1>2. Aimed'
  BY <1>0, <1>1 DEF Aimed, Goes
<1>3. /\ mutex' \in Workers \cup {"free", "cleaner"}
      /\ (\A v \in Workers : worker[v].pc \in {"evict", "store"} <=> mutex = v)'
      /\ (cleaner.pc = "sweep" <=> mutex = "cleaner")'
  BY <1>0, <1>1, Settings DEF LockMoves, Goes
<1>4. \A v \in Workers \ {w} : worker[v].pc \in {"evict", "store"} => UNCHANGED <<rows, files>>
  BY <1>0, Settings DEF Goes
<1>5. RoomCounted'
  <2> SUFFICES ASSUME NEW v \in Workers, worker'[v].pc = "evict"
               PROVE  /\ \A i, j \in worker'[v].list : i[1] = j[1] => i = j
                      /\ Total(AllLocal' \cup Names(worker'[v].list)) <= worker'[v].used
    BY DEF RoomCounted, At, Total, Names
  <2>1. CASE v = w
    BY <1>1, <2>1 DEF RoomFor
  <2>2. CASE v # w
    <3>1. worker'[v] = worker[v] /\ AllLocal' = AllLocal
      BY <1>1, <1>4, <2>2, SameLocal
    <3> QED
      BY <3>1 DEF CacheInv, RoomCounted, At
  <2> QED
    BY <2>1, <2>2
<1>6. FilePlaced'
  BY <1>1, <1>4 DEF CacheInv, FilePlaced, At, PlacedBy
<1>7. SweepListed'
  <2> SUFFICES ASSUME cleaner'.pc = "sweep" PROVE cleaner'.list \cap AllLocal' = {}
    BY DEF SweepListed
  <2>1. cleaner' = cleaner /\ UNCHANGED <<rows, files>>
    BY <1>0, Settings DEF Goes
  <2> QED
    BY <2>1, SameLocal DEF CacheInv, SweepListed
<1>8. \A pcs : "idle" \notin pcs =>
        /\ Asked(Doing(pcs)) \in Nat /\ Asked(Doing(pcs))' \in Nat
        /\ Part(worker[w], pcs) \in Nat /\ Part(d, pcs) \in Nat
        /\ Asked(Doing(pcs))' + Part(worker[w], pcs) = Asked(Doing(pcs)) + Part(d, pcs)
  <2> SUFFICES ASSUME NEW pcs, "idle" \notin pcs
               PROVE /\ Asked(Doing(pcs)) \in Nat /\ Asked(Doing(pcs))' \in Nat
                     /\ Part(worker[w], pcs) \in Nat /\ Part(d, pcs) \in Nat
                     /\ Asked(Doing(pcs))' + Part(worker[w], pcs) = Asked(Doing(pcs)) + Part(d, pcs)
    OBVIOUS
  <2>1. worker' = [worker EXCEPT ![w] = d] /\ (d.pc \in pcs => d.msg \in Msgs)
    BY DEF Goes
  <2> QED
    BY <1>0, <2>1, AskedMoves
<1>9. "idle" \notin Waiting /\ "idle" \notin Writing
  BY DEF Waiting, Writing
<1>10. (reserved = Asked(Doing(Waiting)))'
  <2>1. /\ Asked(Doing(Waiting)) \in Nat /\ Asked(Doing(Waiting))' \in Nat
        /\ Part(worker[w], Waiting) \in Nat /\ Part(d, Waiting) \in Nat
        /\ Asked(Doing(Waiting))' + Part(worker[w], Waiting)
             = Asked(Doing(Waiting)) + Part(d, Waiting)
    BY <1>8, <1>9
  <2>2. reserved = Asked(Doing(Waiting))
    BY <1>0 DEF TypeOK, Waiting
  <2>3. reserved' + Part(worker[w], Waiting) = reserved + Part(d, Waiting) /\ reserved' \in Int
    BY DEF CountMoves
  <2>4. reserved' = Asked(Doing(Waiting))'
    BY <2>1, <2>2, <2>3
  <2> QED
    BY <2>4
<1>11. WithinDisk'
  <2>1. /\ Asked(Doing(Writing)) \in Nat /\ Asked(Doing(Writing))' \in Nat
        /\ Part(worker[w], Writing) \in Nat /\ Part(d, Writing) \in Nat
        /\ Asked(Doing(Writing))' + Part(worker[w], Writing)
             = Asked(Doing(Writing)) + Part(d, Writing)
    BY <1>8, <1>9
  <2>2. Total(AllLocal)' = Total(AllLocal') /\ Total(AllLocal') \in Nat
    BY LocalInMsgs, TotalType DEF Total
  <2>3. Total(AllLocal)' + Asked(Doing(Writing))' <= MaxDisk
    BY <2>1, <2>2, Settings DEF CountMoves
  <2> QED
    BY <2>3 DEF WithinDisk, Arriving, Writing
<1>12. TypeOK'
  BY <1>0, <1>1, <1>3, <1>10 DEF TypeOK, Goes, Waiting
<1> QED
  BY <1>2, <1>5, <1>6, <1>7, <1>11, <1>12 DEF CacheInv

(* What a worker may rely on.                                              *)
LEMMA Ledger ==
  ASSUME CacheInv
  PROVE  /\ Total(AllLocal) \in Nat /\ Asked(Doing(Writing)) \in Nat /\ reserved \in Nat
         /\ Asked(Doing(Writing)) <= reserved
         /\ Total(AllLocal) + Asked(Doing(Writing)) <= MaxDisk
<1> DEFINE S == Doing(Waiting)
           T == Doing(Writing)
           f == [w \in S |-> Size[worker[w].msg]]
           g == [w \in T |-> Size[worker[w].msg]]
<1>1. S \subseteq Workers /\ T \in SUBSET S
  BY DEF Doing, Waiting, Writing
<1>2. \A w \in S : f[w] = Size[worker[w].msg] /\ f[w] \in Nat
  BY Settings DEF Doing, Waiting, CacheInv, Aimed
<1>3. \A w \in T : g[w] = f[w] /\ g[w] \in Nat /\ g[w] <= f[w]
  <2>1. \A w \in T : w \in S /\ g[w] = Size[worker[w].msg]
    BY <1>1
  <2> HIDE DEF S, T, f, g
  <2>2. \A n \in Nat : n <= n
    OBVIOUS
  <2> QED
    BY <1>2, <2>1, <2>2
<1>4. reserved = SumFunctionOnSet(f, S) /\ Asked(T) = SumFunctionOnSet(g, T)
  BY DEF CacheInv, TypeOK, Asked, Waiting
<1>5. IsFiniteSet(S) /\ IsFiniteSet(T)
  BY <1>1, Settings, FS_Subset
<1>6. Total(AllLocal) + Asked(T) <= MaxDisk
  BY DEF CacheInv, WithinDisk, Arriving, Writing
<1>7. Total(AllLocal) \in Nat
  BY LocalInMsgs, TotalType
<1> HIDE DEF S, T, f, g
<1>8. SumFunctionOnSet(f, S) \in Nat /\ SumFunctionOnSet(g, T) \in Nat
  BY <1>2, <1>3, <1>5, SumType
<1>9. SumFunctionOnSet(g, T) <= SumFunctionOnSet(f, S)
  BY <1>1, <1>2, <1>3, <1>5, SumAtMost
<1>10. Asked(T) \in Nat /\ reserved \in Nat /\ Asked(T) <= reserved
  BY <1>4, <1>8, <1>9
<1> QED
  BY <1>6, <1>7, <1>10 DEF T

LEMMA LedgerThen ==
  ASSUME CacheInv'
  PROVE  Asked(Doing(Writing))' \in Nat
<1>1. PICK wk : wk = worker'
  OBVIOUS
<1>2. Asked(Doing(Writing))' = Load(wk, Among(wk, Writing))
  BY <1>1 DEF Asked, Load, Doing, Among
<1>3. Among(wk, Writing) \subseteq Workers /\ \A w \in Among(wk, Writing) : wk[w].msg \in Msgs
  BY <1>1 DEF Among, CacheInv, Aimed, Writing
<1> QED
  BY <1>2, <1>3, LoadOne

LEMMA Present ==
  ASSUME CacheInv, NEW w \in Workers
  PROVE  /\ worker[w] \in Download /\ (worker[w].pc # "idle" => worker[w].msg \in Msgs)
         /\ (worker[w].msg \in Msgs => Size[worker[w].msg] \in Nat)
         /\ rows \in [Msgs -> Row] /\ files \in [Msgs -> Nat] /\ worker \in [Workers -> Download]
         /\ faults \in 0..MaxFaults /\ TypeOK
         /\ worker[w].pc \in {"evict", "store"} <=> mutex = w
         /\ w # "free" /\ w # "cleaner"
BY Settings DEF CacheInv, TypeOK, Aimed

(* Room is counted by what is stored, rows unchanged.                      *)
LEMMA CountStill ==
  ASSUME CacheInv, UNCHANGED rows, NEW w \in Workers, NEW d, d \in Download,
         d.pc \in Writing => worker[w].pc \in Writing /\ d.msg = worker[w].msg
  PROVE  Total(AllLocal') + Asked(Doing(Writing)) + Part(d, Writing)
           <= MaxDisk + Part(worker[w], Writing)
<1>1. AllLocal' = AllLocal
  BY SameLocal
<1>2. /\ Total(AllLocal) \in Nat /\ Asked(Doing(Writing)) \in Nat
      /\ Total(AllLocal) + Asked(Doing(Writing)) <= MaxDisk
  BY Ledger
<1>3. Part(worker[w], Writing) \in Nat
  BY Present DEF Part, Writing
<1>4. Part(d, Writing) = Part(worker[w], Writing) \/ Part(d, Writing) = 0
  BY DEF Part
<1> QED
  BY <1>1, <1>2, <1>3, <1>4, Settings

LEMMA StillGoes ==
  ASSUME CacheInv, NEW w \in Workers, NEW d, d \in Download, d.pc # "idle" => d.msg \in Msgs,
         worker' = [worker EXCEPT ![w] = d],
         UNCHANGED <<tombs, sender, cleaner, rows, files, faults>>
  PROVE  Goes(w, d)
<1>1. rows \in [Msgs -> Row] /\ files \in [Msgs -> Nat] /\ faults \in 0..MaxFaults
  BY DEF CacheInv, TypeOK
<1> QED
  BY <1>1 DEF Goes

LEMMA BeginsKeeps ==
  ASSUME CacheInv, NEW w \in Workers, Begins(w) PROVE CacheInv'
<1>1. PICK m \in Msgs : \E v \in 1..Attachments[m] :
        worker' = [worker EXCEPT ![w] = [IdleWorker EXCEPT !.pc = "reserve", !.msg = m, !.media = v]]
  BY DEF Begins
<1>2. PICK v \in 1..Attachments[m] :
        worker' = [worker EXCEPT ![w] = [IdleWorker EXCEPT !.pc = "reserve", !.msg = m, !.media = v]]
  BY <1>1
<1> DEFINE d == [IdleWorker EXCEPT !.pc = "reserve", !.msg = m, !.media = v]
<1>3. /\ worker[w].pc = "idle"
      /\ UNCHANGED <<tombs, sender, cleaner, rows, files, mutex, reserved, faults>>
  BY DEF Begins, At, ByWorker, cacheVars
<1>4. d \in Download /\ d.pc = "reserve" /\ d.msg = m
  <2>1. v \in Nat
    BY Settings
  <2>2. IdleWorker \in Download
    BY Records
  <2> QED
    BY <2>1, <2>2 DEF IdleWorker, Download
<1>5. worker' = [worker EXCEPT ![w] = d]
  BY <1>2
<1> HIDE DEF d
<1>6. Goes(w, d)
  BY <1>3, <1>4, <1>5, StillGoes
<1>7. LockMoves(w, d)
  BY <1>3, <1>4, Present DEF LockMoves
<1>8. CountMoves(w, d)
  <2>1. Part(worker[w], Waiting) = 0 /\ Part(d, Waiting) = 0
    BY <1>3, <1>4 DEF Part, Waiting
  <2>2. d.pc \notin Writing
    BY <1>4 DEF Writing
  <2> QED
    BY <1>3, <1>4, <2>1, <2>2, CountStill, Ledger DEF CountMoves
<1>9. RoomFor(d) /\ PlacedBy(d)
  BY <1>4 DEF RoomFor, PlacedBy
<1> QED
  BY <1>6, <1>7, <1>8, <1>9, WorkerKeeps

LEMMA ReserveKeeps ==
  ASSUME CacheInv, NEW w \in Workers, reserve(w) PROVE CacheInv'
<1> DEFINE used == Total(AllLocal)
           size == Size[worker[w].msg]
<1>0. /\ worker[w].pc = "reserve" /\ mutex = "free"
      /\ UNCHANGED <<tombs, sender, cleaner, rows, files, faults>>
  BY DEF reserve, At, ByWorker, cacheVars
<1>1. /\ worker[w] \in Download /\ worker[w].msg \in Msgs /\ size \in Nat
      /\ w # "free" /\ w # "cleaner" /\ used \in Nat /\ reserved \in Nat
  BY <1>0, Present, Ledger
<1>2. CASE Fits(used, size) /\ Reserves(w)
  <2> DEFINE d == [worker[w] EXCEPT !.pc = "download"]
  <2>1. /\ d \in Download /\ d.pc = "download" /\ d.msg = worker[w].msg
        /\ worker' = [worker EXCEPT ![w] = d] /\ reserved' = reserved + size /\ mutex' = "free"
    BY <1>1, <1>2 DEF Reserves, Turns, Unlocks, Download
  <2> HIDE DEF d
  <2>2. Goes(w, d)
    BY <1>0, <1>1, <2>1, StillGoes
  <2>3. LockMoves(w, d)
    BY <1>0, <1>1, <2>1 DEF LockMoves
  <2>4. CountMoves(w, d)
    <3>1. /\ Part(worker[w], Waiting) = 0 /\ Part(d, Waiting) = size
          /\ Part(worker[w], Writing) = 0 /\ Part(d, Writing) = size
      BY <1>0, <2>1 DEF Part, Waiting, Writing
    <3>2. AllLocal' = AllLocal
      BY <1>0, SameLocal
    <3>3. Asked(Doing(Writing)) \in Nat /\ Asked(Doing(Writing)) <= reserved
      BY Ledger
    <3>4. used + reserved + size <= MaxDisk
      BY <1>2 DEF Fits
    <3> HIDE DEF used, size
    <3>5. used + Asked(Doing(Writing)) + size <= MaxDisk
      BY <1>1, <3>3, <3>4, Settings
    <3>6. Total(AllLocal') = used
      BY <3>2 DEF used
    <3> QED
      BY <1>1, <2>1, <3>1, <3>3, <3>5, <3>6, Settings DEF CountMoves
  <2>5. RoomFor(d) /\ PlacedBy(d)
    BY <2>1 DEF RoomFor, PlacedBy
  <2> QED
    BY <2>2, <2>3, <2>4, <2>5, WorkerKeeps
<1>3. CASE Locks(w) /\ UNCHANGED reserved /\
           worker' = [worker EXCEPT ![w].pc = "evict", ![w].used = used,
                        ![w].list = {<<m, rows[m].left>> : m \in {k \in Msgs : Evictable(k)}}]
  <2> DEFINE list == {<<m, rows[m].left>> : m \in {k \in Msgs : Evictable(k)}}
             d == [worker[w] EXCEPT !.pc = "evict", !.used = used, !.list = list]
  <2>1. list \in SUBSET (Msgs \X (0..Hold)) /\ \A i, j \in list : i[1] = j[1] => i = j
    BY Present DEF Row
  <2>2. Names(list) \subseteq AllLocal
    BY DEF Names, Evictable, AllLocal
  <2>3. worker' = [worker EXCEPT ![w] = d]
    BY <1>3
  <2> HIDE DEF list, used
  <2>4. d \in Download /\ d.pc = "evict" /\ d.msg = worker[w].msg /\ d.list = list /\ d.used = used
    BY <1>1, <2>1 DEF Download
  <2> HIDE DEF d
  <2>5. Goes(w, d)
    BY <1>0, <1>1, <2>3, <2>4, StillGoes
  <2>6. LockMoves(w, d)
    BY <1>0, <1>1, <1>3, <2>4 DEF LockMoves, Locks
  <2>7. CountMoves(w, d)
    <3>1. Part(worker[w], Waiting) = 0 /\ Part(d, Waiting) = 0 /\ d.pc \notin Writing
      BY <1>0, <2>4 DEF Part, Waiting, Writing
    <3> QED
      BY <1>0, <1>1, <1>3, <2>4, <3>1, CountStill DEF CountMoves
  <2>8. RoomFor(d) /\ PlacedBy(d)
    <3>1. AllLocal' \cup Names(list) = AllLocal
      BY <1>0, <2>2, SameLocal
    <3>2. Total(AllLocal' \cup Names(list)) <= used
      BY <1>1, <3>1 DEF used
    <3> QED
      BY <2>1, <2>4, <3>2 DEF RoomFor, PlacedBy
  <2> QED
    BY <2>5, <2>6, <2>7, <2>8, WorkerKeeps
<1> QED
  BY <1>2, <1>3 DEF reserve

(* Less is local: the count of the disk is kept.                           *)
LEMMA CountLess ==
  ASSUME CacheInv, AllLocal' \subseteq AllLocal, NEW w \in Workers, NEW d, d.pc \notin Writing
  PROVE  Total(AllLocal') + Asked(Doing(Writing)) + Part(d, Writing)
           <= MaxDisk + Part(worker[w], Writing)
<1>1. /\ Total(AllLocal) \in Nat /\ Asked(Doing(Writing)) \in Nat
      /\ Total(AllLocal) + Asked(Doing(Writing)) <= MaxDisk
  BY Ledger
<1>2. Total(AllLocal') \in Nat /\ Total(AllLocal') <= Total(AllLocal)
  BY LocalInMsgs, TotalType, TotalLess
<1>3. Part(worker[w], Writing) \in Nat
  BY Present DEF Part, Writing
<1>4. Part(d, Writing) = 0
  BY DEF Part
<1> QED
  BY <1>1, <1>2, <1>3, <1>4, Settings

LEMMA EvictKeeps ==
  ASSUME CacheInv, NEW w \in Workers, Evict(w) PROVE CacheInv'
<1>1. PICK item \in Oldest(w) :
       /\ files' = [files EXCEPT ![item[1]] = 0]
       /\ \/ rows' = [rows EXCEPT ![item[1]] = NoRow]
             /\ worker' = [worker EXCEPT ![w].list = @ \ {item}, ![w].used = @ - Size[item[1]]]
             /\ UNCHANGED <<mutex, faults>>
          \/ Fault /\ Unlocks /\ UNCHANGED rows
             /\ worker' = [worker EXCEPT ![w] = IdleWorker]
  BY DEF Evict
<1>2. worker[w].pc = "evict" /\ mutex = w /\ UNCHANGED <<tombs, sender, cleaner, reserved>>
  BY Present DEF Evict, At, ByWorker
<1>3. /\ worker[w] \in Download /\ rows \in [Msgs -> Row] /\ files \in [Msgs -> Nat]
      /\ worker \in [Workers -> Download] /\ TypeOK /\ w # "free" /\ w # "cleaner"
      /\ worker[w].msg \in Msgs
  BY <1>2, Present
<1> DEFINE m == item[1]
           list == worker[w].list
           used == worker[w].used
<1>4. item \in list /\ m \in Msgs /\ Size[m] \in Nat
  BY <1>3, Settings DEF Oldest, Download
<1>5. files' \in [Msgs -> Nat]
  BY <1>1, <1>3, <1>4
<1>6. CASE rows' = [rows EXCEPT ![m] = NoRow] /\ UNCHANGED <<mutex, faults>>
           /\ worker' = [worker EXCEPT ![w].list = @ \ {item}, ![w].used = @ - Size[m]]
  <2> DEFINE d == [worker[w] EXCEPT !.list = list \ {item}, !.used = used - Size[m]]
             U == AllLocal \cup Names(list)
             V == AllLocal' \cup Names(list \ {item})
  <2>1. rows' \in [Msgs -> Row] /\ AllLocal' \subseteq AllLocal /\ m \notin AllLocal'
    <3>1. rows' \in [Msgs -> Row] /\ AllLocal' \subseteq AllLocal
      BY <1>3, <1>4, <1>6, NotMoreLocal, Records DEF NoRow
    <3>2. m \notin AllLocal'
      BY <1>3, <1>4, <1>6 DEF AllLocal, Local, Stored, NoRow
    <3> QED
      BY <3>1, <3>2
  <2>2. \A i, j \in list : i[1] = j[1] => i = j
    BY <1>2 DEF CacheInv, RoomCounted, At
  <2>3. Total(U) <= used /\ used \in Nat
    BY <1>2, <1>3 DEF CacheInv, RoomCounted, At, Download
  <2>4. U \subseteq Msgs /\ m \in U
    BY <1>3, <1>4, LocalInMsgs DEF Names, Download
  <2>5. V \subseteq U \ {m}
    BY <1>4, <2>1, <2>2 DEF Names
  <2>6. worker' = [worker EXCEPT ![w] = d]
    BY <1>6
  <2> HIDE DEF m, U, V
  <2>7. /\ Total(U) = Size[m] + Total(U \ {m}) /\ Total(U \ {m}) \in Nat /\ Total(V) \in Nat
        /\ Total(V) <= Total(U \ {m})
    BY <2>4, <2>5, TotalWithout, TotalLess, TotalType
  <2>8. used - Size[m] \in Nat /\ Total(V) <= used - Size[m]
    <3> HIDE DEF used
    <3> QED
      BY <1>4, <2>3, <2>7
  <2>9. d \in Download /\ d.pc = "evict" /\ d.msg = worker[w].msg /\ d.list = list \ {item}
        /\ d.used = used - Size[m]
    BY <1>2, <1>3, <2>8 DEF Download
  <2> HIDE DEF d
  <2>10. Goes(w, d)
    BY <1>2, <1>3, <1>5, <1>6, <2>1, <2>6, <2>9 DEF Goes, TypeOK
  <2>11. LockMoves(w, d)
    BY <1>2, <1>6, <2>9 DEF LockMoves
  <2>12. CountMoves(w, d)
    <3>1. Part(worker[w], Waiting) = 0 /\ Part(d, Waiting) = 0 /\ d.pc \notin Writing
      BY <1>2, <2>9 DEF Part, Waiting, Writing
    <3> QED
      BY <1>2, <2>1, <3>1, CountLess, Ledger DEF CountMoves
  <2>13. RoomFor(d) /\ PlacedBy(d)
    BY <2>2, <2>8, <2>9 DEF RoomFor, PlacedBy, V
  <2> QED
    BY <2>10, <2>11, <2>12, <2>13, WorkerKeeps
<1>7. CASE Fault /\ Unlocks /\ UNCHANGED rows /\ worker' = [worker EXCEPT ![w] = IdleWorker]
  <2>1. Goes(w, IdleWorker)
    BY <1>2, <1>3, <1>5, <1>7, FaultOr, Records DEF Goes
  <2>2. LockMoves(w, IdleWorker)
    BY <1>2, <1>3, <1>7, Records DEF LockMoves, Unlocks
  <2>3. CountMoves(w, IdleWorker)
    <3>1. Part(worker[w], Waiting) = 0 /\ Part(IdleWorker, Waiting) = 0
          /\ IdleWorker.pc \notin Writing /\ AllLocal' \subseteq AllLocal
      BY <1>2, <1>7, Records, SameLocal DEF Part, Waiting, Writing
    <3> QED
      BY <1>2, <3>1, CountLess, Ledger DEF CountMoves
  <2>4. RoomFor(IdleWorker) /\ PlacedBy(IdleWorker)
    BY Records DEF RoomFor, PlacedBy
  <2> QED
    BY <2>1, <2>2, <2>3, <2>4, WorkerKeeps
<1> QED
  BY <1>1, <1>6, <1>7

LEMMA EvictedKeeps ==
  ASSUME CacheInv, NEW w \in Workers, Evicted(w) PROVE CacheInv'
<1>1. worker[w].pc = "evict" /\ mutex = w /\ mutex' = "free"
      /\ UNCHANGED <<tombs, sender, cleaner, rows, files, faults>>
  BY Present DEF Evicted, At, ByWorker, cacheVars, Unlocks
<1>2. /\ worker[w] \in Download /\ w # "free" /\ w # "cleaner" /\ worker[w].msg \in Msgs
      /\ Size[worker[w].msg] \in Nat
  BY <1>1, Present
<1>3. CASE Enough(w) /\ reserved' = reserved + Size[worker[w].msg]
           /\ worker' = [worker EXCEPT ![w].pc = "download", ![w].list = {}, ![w].used = 0]
  <2> DEFINE d == [worker[w] EXCEPT !.pc = "download", !.list = {}, !.used = 0]
             size == Size[worker[w].msg]
             used == worker[w].used
  <2>1. /\ d \in Download /\ d.pc = "download" /\ d.msg = worker[w].msg
        /\ worker' = [worker EXCEPT ![w] = d]
    BY <1>2, <1>3 DEF Download
  <2> HIDE DEF d
  <2>2. Goes(w, d)
    BY <1>1, <1>2, <2>1, StillGoes
  <2>3. LockMoves(w, d)
    BY <1>1, <1>2, <2>1 DEF LockMoves
  <2>4. CountMoves(w, d)
    <3>1. /\ Part(worker[w], Waiting) = 0 /\ Part(d, Waiting) = size
          /\ Part(worker[w], Writing) = 0 /\ Part(d, Writing) = size
      BY <1>1, <2>1 DEF Part, Waiting, Writing
    <3>2. AllLocal' = AllLocal
      BY <1>1, SameLocal
    <3>3. Asked(Doing(Writing)) \in Nat /\ Asked(Doing(Writing)) <= reserved /\ reserved \in Nat
      BY Ledger
    <3>4. used + reserved + size <= MaxDisk /\ used \in Nat
      BY <1>2, <1>3 DEF Enough, Fits, Download
    <3>5. Total(AllLocal) <= used
      <4> DEFINE U == AllLocal \cup Names(worker[w].list)
      <4>1. Total(U) <= used
        BY <1>1 DEF CacheInv, RoomCounted, At
      <4>2. U \subseteq Msgs /\ AllLocal \subseteq U
        BY <1>2, LocalInMsgs DEF Names, Download
      <4> HIDE DEF U, used
      <4>3. Total(AllLocal) <= Total(U) /\ Total(U) \in Nat /\ Total(AllLocal) \in Nat
        BY <4>2, TotalLess, TotalType
      <4> QED
        BY <3>4, <4>1, <4>3
    <3>6. Total(AllLocal) \in Nat
      BY Ledger
    <3>7. reserved' = reserved + size /\ size \in Nat
      BY <1>2, <1>3
    <3> HIDE DEF used, size
    <3>8. Total(AllLocal) + Asked(Doing(Writing)) + size <= MaxDisk
      BY <3>3, <3>4, <3>5, <3>6, <3>7, Settings
    <3> QED
      BY <3>1, <3>2, <3>3, <3>6, <3>7, <3>8, Settings DEF CountMoves
  <2>5. RoomFor(d) /\ PlacedBy(d)
    BY <2>1 DEF RoomFor, PlacedBy
  <2> QED
    BY <2>2, <2>3, <2>4, <2>5, WorkerKeeps
<1>4. CASE UNCHANGED reserved /\ worker' = [worker EXCEPT ![w] = IdleWorker]
  <2>1. Goes(w, IdleWorker)
    BY <1>1, <1>4, Records, StillGoes
  <2>2. LockMoves(w, IdleWorker)
    BY <1>1, <1>2, Records DEF LockMoves
  <2>3. CountMoves(w, IdleWorker)
    <3>1. Part(worker[w], Waiting) = 0 /\ Part(IdleWorker, Waiting) = 0
          /\ IdleWorker.pc \notin Writing /\ AllLocal' \subseteq AllLocal
      BY <1>1, Records, SameLocal DEF Part, Waiting, Writing
    <3> QED
      BY <1>4, <3>1, CountLess, Ledger DEF CountMoves
  <2>4. RoomFor(IdleWorker) /\ PlacedBy(IdleWorker)
    BY Records DEF RoomFor, PlacedBy
  <2> QED
    BY <2>1, <2>2, <2>3, <2>4, WorkerKeeps
<1> QED
  BY <1>3, <1>4 DEF Evicted

LEMMA DownloadFailsKeeps ==
  ASSUME CacheInv, NEW w \in Workers, DownloadFails(w) PROVE CacheInv'
<1> DEFINE d == [worker[w] EXCEPT !.pc = "release"]
<1>1. worker[w].pc = "download"
      /\ UNCHANGED <<tombs, sender, cleaner, rows, files, faults, mutex, reserved>>
  BY DEF DownloadFails, At, ByWorker, cacheVars
<1>2. worker[w] \in Download /\ worker[w].msg \in Msgs /\ mutex # w
  BY <1>1, Present
<1>3. /\ d \in Download /\ d.pc = "release" /\ d.msg = worker[w].msg
      /\ worker' = [worker EXCEPT ![w] = d]
  BY <1>2 DEF Download, DownloadFails, Turns
<1> HIDE DEF d
<1>4. Goes(w, d)
  BY <1>1, <1>2, <1>3, StillGoes
<1>5. LockMoves(w, d)
  BY <1>1, <1>2, <1>3 DEF LockMoves
<1>6. CountMoves(w, d)
  <2>1. Part(worker[w], Waiting) = Part(d, Waiting) /\ Part(d, Waiting) \in Nat
    BY <1>1, <1>2, <1>3, Settings DEF Part, Waiting
  <2>2. d.pc \notin Writing /\ AllLocal' \subseteq AllLocal
    BY <1>1, <1>3, SameLocal DEF Writing
  <2> QED
    BY <1>1, <2>1, <2>2, CountLess, Ledger DEF CountMoves
<1>7. RoomFor(d) /\ PlacedBy(d)
  BY <1>3 DEF RoomFor, PlacedBy
<1> QED
  BY <1>4, <1>5, <1>6, <1>7, WorkerKeeps

LEMMA RenameKeeps ==
  ASSUME CacheInv, NEW w \in Workers, Rename(w) PROVE CacheInv'
<1> DEFINE d == [worker[w] EXCEPT !.pc = "store"]
<1>1. worker[w].pc = "download" /\ mutex = "free" /\ mutex' = w
      /\ UNCHANGED <<tombs, sender, cleaner, rows, faults, reserved>>
  BY DEF Rename, At, ByWorker, cacheVars, MayStore
<1>2. worker[w] \in Download /\ worker[w].msg \in Msgs
      /\ rows \in [Msgs -> Row] /\ files \in [Msgs -> Nat] /\ faults \in 0..MaxFaults
  BY <1>1, Present
<1>3. /\ d \in Download /\ d.pc = "store" /\ d.msg = worker[w].msg /\ d.media = worker[w].media
      /\ worker' = [worker EXCEPT ![w] = d]
  BY <1>2 DEF Download, Rename, Turns
<1>4. files' \in [Msgs -> Nat] /\ files'[worker[w].msg] = worker[w].media
  BY <1>2 DEF Rename, Download
<1> HIDE DEF d
<1>5. Goes(w, d)
  BY <1>1, <1>2, <1>3, <1>4 DEF Goes
<1>6. LockMoves(w, d)
  BY <1>1, <1>3 DEF LockMoves
<1>7. CountMoves(w, d)
  <2>1. Part(worker[w], Waiting) = Part(d, Waiting) /\ Part(d, Waiting) \in Nat
    BY <1>1, <1>2, <1>3, Settings DEF Part, Waiting
  <2>2. d.pc \in Writing => worker[w].pc \in Writing /\ d.msg = worker[w].msg
    BY <1>1, <1>3 DEF Writing
  <2> QED
    BY <1>1, <1>3, <2>1, <2>2, CountStill, Ledger DEF CountMoves
<1>8. RoomFor(d) /\ PlacedBy(d)
  BY <1>3, <1>4 DEF RoomFor, PlacedBy
<1> QED
  BY <1>5, <1>6, <1>7, <1>8, WorkerKeeps

LEMMA SaveKeeps ==
  ASSUME CacheInv, NEW w \in Workers, SavePrivateMedia(w) PROVE CacheInv'
<1> DEFINE d == [worker[w] EXCEPT !.pc = "release"]
           m == worker[w].msg
<1>1. worker[w].pc = "store" /\ mutex = w /\ mutex' = "free"
      /\ UNCHANGED <<tombs, sender, cleaner, reserved>>
  BY Present DEF SavePrivateMedia, At, ByWorker, Unlocks
<1>2. worker[w] \in Download /\ m \in Msgs /\ Size[m] \in Nat
      /\ w # "free" /\ w # "cleaner" /\ TypeOK
      /\ rows \in [Msgs -> Row] /\ files \in [Msgs -> Nat] /\ faults \in 0..MaxFaults
  BY <1>1, Present
<1>3. /\ d \in Download /\ d.pc = "release" /\ d.msg = m
      /\ worker' = [worker EXCEPT ![w] = d]
  BY <1>2 DEF Download, SavePrivateMedia, Turns
<1> HIDE DEF d
<1>4. LockMoves(w, d)
  BY <1>1, <1>2, <1>3 DEF LockMoves
<1>5. /\ Part(worker[w], Waiting) = Size[m] /\ Part(d, Waiting) = Size[m]
      /\ Part(worker[w], Writing) = Size[m] /\ Part(d, Writing) = 0
  BY <1>1, <1>3 DEF Part, Waiting, Writing
<1>6. /\ rows' \in [Msgs -> Row] /\ files' \in [Msgs -> Nat] /\ faults' \in 0..MaxFaults
      /\ AllLocal' \subseteq AllLocal \cup {m}
  <2> DEFINE row == [media |-> worker[w].media, sent |-> FALSE, left |-> LifeOf(m)]
  <2>1. CASE rows' = [rows EXCEPT ![m] = row] /\ UNCHANGED <<files, faults>>
    <3>1. row \in Row
      BY <1>2, Settings DEF Row, LifeOf, Download
    <3> HIDE DEF row
    <3> QED
      BY <1>2, <2>1, <3>1 DEF AllLocal, Local, Stored
  <2>2. CASE Fault /\ files' = [files EXCEPT ![m] = 0] /\ UNCHANGED rows
    BY <1>2, <2>2, FaultOr, SameLocal
  <2> QED
    BY <2>1, <2>2 DEF SavePrivateMedia
<1>7. Goes(w, d)
  BY <1>1, <1>2, <1>3, <1>6 DEF Goes
<1>8. CountMoves(w, d)
  <2>1. Total(AllLocal') <= Total(AllLocal) + Size[m]
    <3>1. AllLocal \cup {m} \subseteq Msgs
      BY <1>2, LocalInMsgs
    <3>2. Total(AllLocal') <= Total(AllLocal \cup {m}) /\ Total(AllLocal') \in Nat
          /\ Total(AllLocal \cup {m}) \in Nat
      BY <1>6, <3>1, TotalLess, TotalType, LocalInMsgs
    <3>3. Total(AllLocal \cup {m}) <= Total(AllLocal) + Size[m]
      BY <1>2, LocalInMsgs, TotalWith
    <3>4. Total(AllLocal) \in Nat
      BY Ledger
    <3> QED
      BY <1>2, <3>2, <3>3, <3>4
  <2>2. /\ Total(AllLocal) \in Nat /\ Asked(Doing(Writing)) \in Nat /\ reserved \in Nat
        /\ Total(AllLocal) + Asked(Doing(Writing)) <= MaxDisk
    BY Ledger
  <2>3. Total(AllLocal') \in Nat
    BY LocalInMsgs, TotalType
  <2> HIDE DEF m
  <2>4. Total(AllLocal') + Asked(Doing(Writing)) + 0 <= MaxDisk + Size[m]
    BY <1>2, <2>1, <2>2, <2>3, Settings
  <2> QED
    BY <1>1, <1>5, <2>2, <2>4 DEF CountMoves
<1>9. RoomFor(d) /\ PlacedBy(d)
  BY <1>3 DEF RoomFor, PlacedBy
<1> QED
  BY <1>4, <1>7, <1>8, <1>9, WorkerKeeps

LEMMA ReleaseKeeps ==
  ASSUME CacheInv, NEW w \in Workers, release(w) PROVE CacheInv'
<1>1. worker[w].pc = "release" /\ mutex = "free" /\ reserved' = reserved - Size[worker[w].msg]
      /\ UNCHANGED <<tombs, sender, cleaner, rows, files, faults, mutex>>
      /\ worker' = [worker EXCEPT ![w] = IdleWorker]
  BY DEF release, At, ByWorker, cacheVars
<1>2. worker[w] \in Download /\ worker[w].msg \in Msgs /\ Size[worker[w].msg] \in Nat /\ w # "free"
  BY <1>1, Present
<1>3. Goes(w, IdleWorker)
  BY <1>1, Records, StillGoes
<1>4. LockMoves(w, IdleWorker)
  BY <1>1, <1>2, Records DEF LockMoves
<1>5. CountMoves(w, IdleWorker)
  <2>1. Part(worker[w], Waiting) = Size[worker[w].msg] /\ Part(IdleWorker, Waiting) = 0
    BY <1>1, Records DEF Part, Waiting
  <2>2. IdleWorker.pc \notin Writing /\ AllLocal' \subseteq AllLocal
    BY <1>1, Records, SameLocal DEF Writing
  <2>3. reserved \in Nat
    BY Ledger
  <2>4. reserved' + Part(worker[w], Waiting) = reserved + Part(IdleWorker, Waiting) /\ reserved' \in Int
    BY <1>1, <1>2, <2>1, <2>3
  <2> QED
    BY <2>2, <2>4, CountLess DEF CountMoves
<1>6. RoomFor(IdleWorker) /\ PlacedBy(IdleWorker)
  BY Records DEF RoomFor, PlacedBy
<1> QED
  BY <1>3, <1>4, <1>5, <1>6, WorkerKeeps

-----------------------------------------------------------------------------
LEMMA StutterKeeps ==
  ASSUME CacheInv, UNCHANGED vars PROVE CacheInv'
<1>1. BesideTypes
  BY SameLocal DEF BesideTypes, CacheInv, TypeOK, Aimed, vars, cacheVars
<1> QED
  BY <1>1, BesideKeeps DEF vars, saveVars

LEMMA StepKeeps == CacheInv /\ [Next]_vars => CacheInv'
<1> SUFFICES ASSUME CacheInv, [Next]_vars PROVE CacheInv'
  OBVIOUS
<1>1. ASSUME NEW m \in Msgs, RecordPrivateMessageDeletions(m) PROVE CacheInv'
  BY <1>1, RecordKeeps
<1>2. CASE Tick
  BY <1>2, TickKeeps
<1>3. ASSUME NEW w \in Workers, Save(w) PROVE CacheInv'
  BY <1>3, BeginsKeeps, ReserveKeeps, EvictKeeps, EvictedKeeps, DownloadFailsKeeps, RenameKeeps,
     SaveKeeps, ReleaseKeeps DEF Save
<1>4. ASSUME NEW s \in Senders, Show(s) PROVE CacheInv'
  BY <1>4, ShowKeeps
<1>5. CASE Cleanup
  BY <1>5, CleanupKeeps
<1>6. CASE Crash
  BY <1>6, CrashKeeps
<1>7. CASE UNCHANGED vars
  BY <1>7, StutterKeeps
<1> QED
  BY <1>1, <1>2, <1>3, <1>4, <1>5, <1>6, <1>7 DEF Next

(* The inductive invariant.                                                *)
THEOREM CacheInvariant == Spec => []CacheInv
BY InitCache, StepKeeps, PTL DEF Spec

(* Every variable has its type, the mutex is held by whoever works under   *)
(* it, and what is reserved is what the downloads have asked for           *)
(* (Store.mu and Store.reserved in internal/privatemedia).                 *)
THEOREM CacheTypes == Spec => []TypeOK
<1>1. CacheInv => TypeOK
  BY DEF CacheInv
<1> QED
  BY <1>1, CacheInvariant, PTL

(* What local rows account for and what is being downloaded never passes   *)
(* maxDiskBytes, for any number of workers that make room at the same time;*)
(* files without such a row are not counted (SweepRestoresLimitHolds).     *)
THEOREM WithinDiskAlways == Spec => []WithinDisk
<1>1. CacheInv => WithinDisk
  BY DEF CacheInv
<1> QED
  BY <1>1, CacheInvariant, PTL

-----------------------------------------------------------------------------
(* A file is the attachment its row describes.  Only a worker between the  *)
(* file and its row may leave the two apart, and it holds the mutex.       *)
LEMMA StillDescribed ==
  ASSUME TypeOK, NEW m \in Msgs, Describes(m), files'[m] \in {0, files[m]},
         \/ rows'[m].media = 0 \/ rows'[m].sent
         \/ rows'[m].media = rows[m].media /\ rows'[m].sent = rows[m].sent,
         \A w \in Workers : At(w, "store") => worker'[w] = worker[w]
  PROVE  Describes(m)'
BY DEF Describes, Local, Stored, At

LEMMA OthersStay ==
  ASSUME TypeOK, NEW w \in Workers, NEW d, worker' = [worker EXCEPT ![w] = d],
         worker[w].pc # "store"
  PROVE  \A v \in Workers : At(v, "store") => worker'[v] = worker[v]
BY DEF TypeOK, At

LEMMA SaveDescribes ==
  ASSUME CacheInv, NEW w \in Workers, Save(w), NEW m \in Msgs, Describes(m)
  PROVE  Describes(m)'
<1>0. /\ TypeOK /\ worker \in [Workers -> Download] /\ rows \in [Msgs -> Row]
      /\ files \in [Msgs -> Nat] /\ (worker[w].pc # "idle" => worker[w].msg \in Msgs)
  BY Present
<1>1. CASE Begins(w) \/ reserve(w) \/ Evicted(w) \/ DownloadFails(w) \/ release(w)
  <2>1. UNCHANGED <<rows, files>> /\ worker[w].pc # "store"
    BY <1>1 DEF Begins, reserve, Evicted, DownloadFails, release, cacheVars, At
  <2>2. \A v \in Workers : At(v, "store") => worker'[v] = worker[v]
    BY <1>0, <1>1, <2>1 DEF Begins, reserve, Reserves, Evicted, DownloadFails, release, Turns, At
  <2> QED
    BY <1>0, <2>1, <2>2, StillDescribed
<1>2. CASE Evict(w)
  <2>1. PICK item \in Oldest(w) :
         /\ files' = [files EXCEPT ![item[1]] = 0]
         /\ rows' = [rows EXCEPT ![item[1]] = NoRow] \/ UNCHANGED rows
    BY <1>2 DEF Evict
  <2>2. files'[m] \in {0, files[m]} /\ (rows'[m] = NoRow \/ rows'[m] = rows[m])
    BY <1>0, <2>1
  <2>3. \A v \in Workers : At(v, "store") => worker'[v] = worker[v]
    BY <1>0, <1>2 DEF Evict, At
  <2> QED
    BY <1>0, <2>2, <2>3, StillDescribed DEF NoRow
<1>3. CASE Rename(w)
  <2>1. worker[w].pc = "download" /\ UNCHANGED rows
    BY <1>3 DEF Rename, At
  <2>2. CASE worker[w].msg = m
    <3>1. worker'[w].pc = "store" /\ worker'[w].msg = m
      BY <1>0, <1>3, <2>2 DEF Rename, Turns, Download
    <3> QED
      BY <3>1 DEF Describes, At
  <2>3. CASE worker[w].msg # m
    <3>1. files'[m] = files[m]
      BY <1>0, <1>3, <2>3 DEF Rename
    <3>2. \A v \in Workers : At(v, "store") => worker'[v] = worker[v]
      BY <1>0, <1>3, <2>1 DEF Rename, Turns, At
    <3> QED
      BY <1>0, <2>1, <3>1, <3>2, StillDescribed
  <2> QED
    BY <2>2, <2>3
<1>4. CASE SavePrivateMedia(w)
  <2>1. worker[w].pc = "store" /\ worker[w].msg \in Msgs /\ worker[w].media \in Nat
    BY <1>0, <1>4 DEF SavePrivateMedia, At, Download
  <2>2. files[worker[w].msg] \in {0, worker[w].media}
    BY <2>1 DEF CacheInv, FilePlaced, At
  <2>3. \A v \in Workers : At(v, "store") => v = w
    BY <2>1, Present DEF At
  <2>4. CASE worker[w].msg = m
    BY <1>0, <1>4, <2>2, <2>4 DEF SavePrivateMedia, Describes
  <2>5. CASE worker[w].msg # m
    <3>1. files[m] = 0 \/ ~Local(m) \/ files[m] = rows[m].media
      BY <2>3, <2>5 DEF Describes
    <3>2. files'[m] = files[m] /\ rows'[m] = rows[m]
      BY <1>0, <1>4, <2>1, <2>5 DEF SavePrivateMedia
    <3> QED
      BY <3>1, <3>2 DEF Describes, Local, Stored
  <2> QED
    BY <2>4, <2>5
<1> QED
  BY <1>1, <1>2, <1>3, <1>4 DEF Save

LEMMA NextDescribes ==
  ASSUME CacheInv, Next, ~Crash, NEW m \in Msgs, Describes(m)
  PROVE  Describes(m)'
<1>0. /\ TypeOK /\ rows \in [Msgs -> Row] /\ files \in [Msgs -> Nat]
      /\ sender \in [Senders -> Sending] /\ cleaner \in Cleaning
  BY DEF CacheInv, TypeOK
<1>1. ASSUME NEW k \in Msgs, RecordPrivateMessageDeletions(k) PROVE Describes(m)'
  <2>1. /\ rows'[m].media = rows[m].media /\ rows'[m].sent = rows[m].sent
        /\ UNCHANGED <<files, worker>>
    BY <1>0, <1>1 DEF RecordPrivateMessageDeletions, saveVars, Row
  <2> QED
    BY <1>0, <2>1, StillDescribed
<1>2. CASE Tick
  <2>1. rows'[m] = [rows[m] EXCEPT !.left = IF @ = 0 THEN 0 ELSE @ - 1] /\ UNCHANGED <<files, worker>>
    BY <1>2 DEF Tick, saveVars
  <2>2. rows'[m].media = rows[m].media /\ rows'[m].sent = rows[m].sent
    BY <1>0, <2>1 DEF Row
  <2> QED
    BY <1>0, <2>1, <2>2, StillDescribed
<1>3. ASSUME NEW w \in Workers, Save(w) PROVE Describes(m)'
  BY <1>3, SaveDescribes
<1>4. ASSUME NEW s \in Senders, Show(s) PROVE Describes(m)'
  <2>1. UNCHANGED worker
    BY <1>4 DEF Show, GetPrivateMedia, Open, DeletePrivateMedia, NotSent, MarkSent,
                SetPrivateMediaBotFileID, Unlink, BySender, saveVars
  <2>2. files'[m] \in {0, files[m]}
    BY <1>0, <1>4 DEF Show, GetPrivateMedia, Open, DeletePrivateMedia, NotSent, MarkSent,
                      SetPrivateMediaBotFileID, Unlink, cacheVars
  <2>3. \/ rows'[m].media = 0 \/ rows'[m].sent
        \/ rows'[m].media = rows[m].media /\ rows'[m].sent = rows[m].sent
    <3>1. CASE DeletePrivateMedia(s)
      BY <1>0, <3>1 DEF DeletePrivateMedia, NoRow
    <3>2. CASE SetPrivateMediaBotFileID(s)
      BY <1>0, <3>2 DEF SetPrivateMediaBotFileID, Stored, Row
    <3>3. CASE GetPrivateMedia(s) \/ Open(s) \/ NotSent(s) \/ Unlink(s)
      BY <3>3 DEF GetPrivateMedia, Open, NotSent, Unlink, cacheVars
    <3> QED
      BY <1>4, <3>1, <3>2, <3>3 DEF Show, MarkSent
  <2> QED
    BY <1>0, <2>1, <2>2, <2>3, StillDescribed
<1>5. CASE Cleanup
  <2>1. UNCHANGED worker
    BY <1>5 DEF Cleanup, ListExpiredPrivateMedia, RemoveExpired, removeOrphans, ByCleaner
  <2>2. files'[m] \in {0, files[m]}
    BY <1>0, <1>5 DEF Cleanup, ListExpiredPrivateMedia, RemoveExpired, removeOrphans, Removed,
                      cacheVars
  <2>3. rows'[m] = NoRow \/ rows'[m] = rows[m]
    BY <1>0, <1>5 DEF Cleanup, ListExpiredPrivateMedia, RemoveExpired, removeOrphans, cacheVars
  <2> QED
    BY <1>0, <2>1, <2>2, <2>3, StillDescribed DEF NoRow
<1> QED
  BY <1>1, <1>2, <1>3, <1>4, <1>5 DEF Next

(* A file and its row, written in two steps, are never of two downloads    *)
(* (Save and SavePrivateMedia), but for a crash in between.                *)
THEOREM RowDescribesFileHolds == Spec => RowDescribesFile
<1>1. CacheInv /\ [Next]_vars => [Crash \/ \A m \in Msgs : Describes(m) => Describes(m)']_vars
  BY NextDescribes
<1> QED
  BY <1>1, CacheInvariant, PTL DEF Spec, RowDescribesFile

-----------------------------------------------------------------------------
Held(m) == m \in tombs /\ Stored(m)
LEMMA NextHolds ==
  ASSUME CacheInv, Next, NEW m \in Msgs, m \in tombs', rows'[m].media # 0, ~Held(m)
  PROVE  rows'[m].left = Hold
<1>0. TypeOK /\ rows \in [Msgs -> Row]
  BY DEF CacheInv, TypeOK
<1>1. ASSUME NEW k \in Msgs, RecordPrivateMessageDeletions(k) PROVE rows'[m].left = Hold
  BY <1>0, <1>1 DEF RecordPrivateMessageDeletions, Held, Stored, Row
<1>2. ASSUME UNCHANGED tombs, \/ rows'[m].media = 0 \/ rows'[m].media = rows[m].media
      PROVE  FALSE
  BY <1>2 DEF Held, Stored
<1>3. CASE Tick
  <2>1. rows'[m].media = rows[m].media
    BY <1>0, <1>3 DEF Tick, Row
  <2> QED
    BY <1>2, <1>3, <2>1 DEF Tick
<1>4. ASSUME NEW w \in Workers, Save(w) PROVE rows'[m].left = Hold
  <2>1. UNCHANGED tombs
    BY <1>4 DEF Save, Begins, reserve, Evict, Evicted, DownloadFails, Rename, SavePrivateMedia,
                release, ByWorker
  <2>2. CASE SavePrivateMedia(w)
    <3>1. worker[w].msg \in Msgs
      BY <2>2, Present DEF SavePrivateMedia, At
    <3>2. rows'[m] = rows[m] \/ rows'[m].left = LifeOf(m)
      BY <1>0, <2>2, <3>1 DEF SavePrivateMedia
    <3>3. rows'[m].left = LifeOf(m)
      BY <1>2, <2>1, <3>2
    <3> QED
      BY <2>1, <3>3 DEF LifeOf
  <2>3. CASE Evict(w)
    <3>1. rows'[m] = rows[m] \/ rows'[m] = NoRow
      BY <1>0, <2>3 DEF Evict
    <3> QED
      BY <1>2, <2>1, <3>1 DEF NoRow
  <2>4. CASE Begins(w) \/ reserve(w) \/ Evicted(w) \/ DownloadFails(w) \/ Rename(w) \/ release(w)
    <3>1. UNCHANGED rows
      BY <2>4 DEF Begins, reserve, Evicted, DownloadFails, Rename, release, cacheVars
    <3> QED
      BY <1>2, <2>1, <3>1
  <2> QED
    BY <1>4, <2>2, <2>3, <2>4 DEF Save
<1>5. ASSUME NEW s \in Senders, Show(s) PROVE rows'[m].left = Hold
  <2>1. UNCHANGED tombs
    BY <1>5 DEF Show, GetPrivateMedia, Open, DeletePrivateMedia, NotSent, MarkSent,
                SetPrivateMediaBotFileID, Unlink, BySender
  <2>2. rows'[m].media = 0 \/ rows'[m].media = rows[m].media
    <3>1. CASE DeletePrivateMedia(s)
      BY <1>0, <3>1 DEF DeletePrivateMedia, NoRow
    <3>2. CASE SetPrivateMediaBotFileID(s)
      BY <1>0, <3>2 DEF SetPrivateMediaBotFileID, Row
    <3>3. CASE GetPrivateMedia(s) \/ Open(s) \/ NotSent(s) \/ Unlink(s)
      BY <3>3 DEF GetPrivateMedia, Open, NotSent, Unlink, cacheVars
    <3> QED
      BY <1>5, <3>1, <3>2, <3>3 DEF Show, MarkSent
  <2> QED
    BY <1>2, <2>1, <2>2
<1>6. CASE Cleanup
  <2>1. UNCHANGED tombs /\ (rows'[m] = NoRow \/ rows'[m] = rows[m])
    BY <1>0, <1>6 DEF Cleanup, ListExpiredPrivateMedia, RemoveExpired, removeOrphans, cacheVars,
                      ByCleaner
  <2> QED
    BY <1>2, <2>1 DEF NoRow
<1>7. CASE Crash
  BY <1>2, <1>7 DEF Crash, cacheVars
<1> QED
  BY <1>1, <1>3, <1>4, <1>5, <1>6, <1>7 DEF Next

(* The attachment of a deleted message is held whichever of its download   *)
(* and its deletion came first (SavePrivateMedia and                       *)
(* RecordPrivateMessageDeletions in internal/db).                          *)
THEOREM HeldInEitherOrderHolds == Spec => HeldInEitherOrder
<1>1. CacheInv /\ [Next]_vars =>
        [\A m \in Msgs : (m \in tombs' /\ rows'[m].media # 0) /\ ~(m \in tombs /\ Stored(m))
                            => rows'[m].left = Hold]_vars
  BY NextHolds DEF Held
<1> QED
  BY <1>1, CacheInvariant, PTL DEF Spec, HeldInEitherOrder

-----------------------------------------------------------------------------
(* The sweep of the cleanup takes no file that a row accounts for, however *)
(* long ago it looked (removeOrphans).                                     *)
LEMMA CleanerSweeps ==
  ASSUME Cleanup, cleaner.pc = "sweep"
  PROVE  /\ \E some \in SUBSET cleaner.list : Removed(some)
         /\ Removed(cleaner.list) \/ Fault
         /\ UNCHANGED worker
<1>1. removeOrphans
  BY DEF Cleanup, ListExpiredPrivateMedia, RemoveExpired
<1> QED
  BY <1>1 DEF removeOrphans, ByCleaner

LEMMA NextSpares ==
  ASSUME CacheInv, Next, cleaner.pc = "sweep", cleaner'.pc = "list", ~Crash, NEW m \in Msgs, Local(m)
  PROVE  files'[m] = files[m]
<1>1. UNCHANGED cleaner => FALSE
  OBVIOUS
<1>2. ASSUME NEW k \in Msgs, RecordPrivateMessageDeletions(k) PROVE FALSE
  BY <1>1, <1>2 DEF RecordPrivateMessageDeletions
<1>3. CASE Tick
  BY <1>1, <1>3 DEF Tick
<1>4. ASSUME NEW w \in Workers, Save(w) PROVE FALSE
  BY <1>1, <1>4 DEF Save, Begins, reserve, Evict, Evicted, DownloadFails, Rename, SavePrivateMedia,
                    release, ByWorker
<1>5. ASSUME NEW s \in Senders, Show(s) PROVE FALSE
  BY <1>1, <1>5 DEF Show, GetPrivateMedia, Open, DeletePrivateMedia, NotSent, MarkSent,
                    SetPrivateMediaBotFileID, Unlink, BySender
<1>6. CASE Cleanup
  <2>1. \E some \in SUBSET cleaner.list : Removed(some)
    BY <1>6, CleanerSweeps
  <2>2. m \notin cleaner.list
    BY DEF CacheInv, SweepListed, AllLocal
  <2> QED
    BY <2>1, <2>2 DEF Removed
<1> QED
  BY <1>2, <1>3, <1>4, <1>5, <1>6 DEF Next

(* The sweep of the cleanup never takes a file that is stored or that is    *)
(* being stored while it lists rows and files (removeOrphans in            *)
(* internal/privatemedia).                                                 *)
THEOREM SweepSparesStoredHolds == Spec => SweepSparesStored
<1>1. CacheInv /\ [Next]_vars =>
        [cleaner.pc = "sweep" /\ cleaner'.pc = "list" /\ ~Crash
           => \A m \in Msgs : Local(m) => files'[m] = files[m]]_vars
  BY NextSpares
<1> QED
  BY <1>1, CacheInvariant, PTL DEF Spec, SweepSparesStored

-----------------------------------------------------------------------------
(* What the sweep will leave, with what is being downloaded, is within the *)
(* limit from when it looked: it holds the mutex, so nobody reserves,      *)
(* stores or places a file until it is done.                               *)
SweepCounted ==
  cleaner.pc = "sweep" => Total(Msgs \ cleaner.list) + Asked(Doing(Writing)) <= MaxDisk

LEMMA LessAsked ==
  ASSUME CacheInv, mutex = "cleaner", NEW w \in Workers, Save(w)
  PROVE  Asked(Doing(Writing))' <= Asked(Doing(Writing))
<1>1. /\ worker[w] \in Download /\ worker \in [Workers -> Download] /\ TypeOK /\ Aimed
      /\ worker[w].pc \notin {"evict", "store"} /\ w # "cleaner"
  BY Present DEF CacheInv
<1>2. Begins(w) \/ DownloadFails(w)
  BY <1>1 DEF Save, reserve, Evict, Evicted, Rename, MayStore, SavePrivateMedia, release, At
<1>3. PICK d \in Download : worker' = [worker EXCEPT ![w] = d] /\ d.pc \in {"reserve", "release"}
  <2>1. CASE Begins(w)
    <3>0. PICK m \in Msgs : \E v \in 1..Attachments[m] :
            worker' = [worker EXCEPT ![w] = [IdleWorker EXCEPT !.pc = "reserve", !.msg = m, !.media = v]]
      BY <2>1 DEF Begins
    <3>1. PICK v \in 1..Attachments[m] :
            worker' = [worker EXCEPT ![w] = [IdleWorker EXCEPT !.pc = "reserve", !.msg = m, !.media = v]]
      BY <3>0
    <3>2. v \in Nat /\ IdleWorker \in Download
      BY Settings, Records
    <3>3. [IdleWorker EXCEPT !.pc = "reserve", !.msg = m, !.media = v] \in Download
      BY <3>2 DEF Download
    <3>4. [IdleWorker EXCEPT !.pc = "reserve", !.msg = m, !.media = v].pc = "reserve"
      BY DEF IdleWorker
    <3> QED
      BY <3>1, <3>3, <3>4
  <2>2. CASE DownloadFails(w)
    <3>1. worker' = [worker EXCEPT ![w] = [worker[w] EXCEPT !.pc = "release"]]
      BY <1>1, <2>2 DEF DownloadFails, Turns
    <3>2. /\ [worker[w] EXCEPT !.pc = "release"] \in Download
          /\ [worker[w] EXCEPT !.pc = "release"].pc = "release"
      BY <1>1 DEF Download
    <3> QED
      BY <3>1, <3>2
  <2> QED
    BY <1>2, <2>1, <2>2
<1>4. "idle" \notin Writing /\ d.pc \notin Writing
  BY <1>3 DEF Writing
<1>5. /\ Asked(Doing(Writing)) \in Nat /\ Asked(Doing(Writing))' \in Nat
      /\ Part(worker[w], Writing) \in Nat /\ Part(d, Writing) \in Nat
      /\ Asked(Doing(Writing))' + Part(worker[w], Writing)
           = Asked(Doing(Writing)) + Part(d, Writing)
  BY <1>1, <1>3, <1>4, AskedMoves
<1>6. Part(d, Writing) = 0
  BY <1>4 DEF Part
<1> QED
  BY <1>5, <1>6

LEMMA SweepStaysCounted == CacheInv /\ SweepCounted /\ [Next]_vars => SweepCounted'
<1> SUFFICES ASSUME CacheInv, SweepCounted, [Next]_vars, cleaner'.pc = "sweep"
             PROVE  Total(Msgs \ cleaner'.list) + Asked(Doing(Writing))' <= MaxDisk
  BY DEF SweepCounted, Total
<1>0. /\ Asked(Doing(Writing)) \in Nat /\ Total(Msgs \ cleaner.list) \in Nat
      /\ \A pcs : UNCHANGED worker => Asked(Doing(pcs))' = Asked(Doing(pcs))
  BY Ledger, TotalType DEF Asked, Doing
<1>1. CASE UNCHANGED <<cleaner, worker>>
  BY <1>0, <1>1 DEF SweepCounted
<1>2. ASSUME NEW w \in Workers, Save(w)
      PROVE  Total(Msgs \ cleaner'.list) + Asked(Doing(Writing))' <= MaxDisk
  <2>1. UNCHANGED cleaner
    BY <1>2 DEF Save, Begins, reserve, Evict, Evicted, DownloadFails, Rename, SavePrivateMedia,
                release, ByWorker
  <2>2. mutex = "cleaner"
    BY <2>1 DEF CacheInv, TypeOK
  <2>3. Asked(Doing(Writing))' <= Asked(Doing(Writing)) /\ Asked(Doing(Writing))' \in Nat
    <3>1. CacheInv'
      BY StepKeeps
    <3>2. Asked(Doing(Writing))' \in Nat
      BY <3>1, LedgerThen
    <3> QED
      BY <1>2, <2>2, <3>2, LessAsked
  <2> QED
    BY <1>0, <2>1, <2>3, Settings DEF SweepCounted
<1>3. CASE Cleanup
  <2>1. removeOrphans /\ cleaner' = [pc |-> "sweep", list |-> Sweepable] /\ UNCHANGED worker
    <3>1. cleaner \in Cleaning
      BY DEF CacheInv, TypeOK
    <3>2. ~ListExpiredPrivateMedia
      <4>1. ASSUME NEW S PROVE [cleaner EXCEPT !.pc = "file", !.list = S].pc = "file"
        BY <3>1 DEF Cleaning
      <4> QED
        BY <4>1 DEF ListExpiredPrivateMedia
    <3>3. ~RemoveExpired
      BY <3>1, Records DEF RemoveExpired, Cleaning
    <3> QED
      BY <1>3, <3>2, <3>3, Records DEF Cleanup, removeOrphans, ByCleaner
  <2>2. Msgs \ cleaner'.list = AllLocal
    BY <2>1 DEF Sweepable, AllLocal
  <2> QED
    BY <1>0, <2>1, <2>2, Ledger
<1>4. CASE Crash
  BY <1>4, Records DEF Crash
<1>5. ASSUME NEW s \in Senders, Show(s) PROVE UNCHANGED <<cleaner, worker>>
  BY <1>5 DEF Show, GetPrivateMedia, Open, DeletePrivateMedia, NotSent, MarkSent,
              SetPrivateMediaBotFileID, Unlink, BySender, saveVars
<1>6. (Tick \/ (\E m \in Msgs : RecordPrivateMessageDeletions(m)) \/ UNCHANGED vars)
        => UNCHANGED <<cleaner, worker>>
  BY DEF Tick, RecordPrivateMessageDeletions, saveVars, vars
<1> QED
  BY <1>1, <1>2, <1>3, <1>4, <1>5, <1>6 DEF Next

LEMMA NextRestores ==
  ASSUME CacheInv, SweepCounted, Next, cleaner.pc = "sweep", cleaner'.pc = "list", faults' = faults
  PROVE  Total(OnDisk') + Arriving' <= MaxDisk
<1>1. UNCHANGED cleaner => FALSE
  OBVIOUS
<1>2. ~Fault
  BY DEF Fault, CacheInv, TypeOK
<1>3. Cleanup
  BY <1>1, <1>2 DEF Next, RecordPrivateMessageDeletions, Tick, Save, Begins, reserve, Evict, Evicted,
     DownloadFails, Rename, SavePrivateMedia, release, ByWorker, Show, GetPrivateMedia, Open,
     DeletePrivateMedia, NotSent, MarkSent, SetPrivateMediaBotFileID, Unlink, BySender, Crash
<1>4. Removed(cleaner.list) /\ UNCHANGED worker
  BY <1>2, <1>3, CleanerSweeps
<1>5. OnDisk' \subseteq Msgs \ cleaner.list
  BY <1>4 DEF Removed, OnDisk
<1>6. Arriving' = Asked(Doing(Writing))
  BY <1>4 DEF Arriving, Asked, Doing, Writing
<1>7. Total(OnDisk') <= Total(Msgs \ cleaner.list) /\ Total(OnDisk') \in Nat
      /\ Total(Msgs \ cleaner.list) \in Nat
  BY <1>5, TotalLess, TotalType
<1>8. Asked(Doing(Writing)) \in Nat
  BY Ledger
<1> QED
  BY <1>6, <1>7, <1>8, Settings DEF SweepCounted

(* A sweep that ends without an error leaves files that are, together with *)
(* what is being downloaded, within maxDiskBytes, whatever files without a *)
(* row crashes, sends and failed statements had left (removeOrphans).      *)
THEOREM SweepRestoresLimitHolds == Spec => SweepRestoresLimit
<1>1. Init => SweepCounted
  BY Records DEF Init, SweepCounted
<1>2. CacheInv /\ SweepCounted /\ [Next]_vars =>
        [cleaner.pc = "sweep" /\ cleaner'.pc = "list" /\ faults' = faults
           => Total(OnDisk') + Arriving' <= MaxDisk]_vars
  BY NextRestores
<1> QED
  BY <1>1, <1>2, SweepStaysCounted, CacheInvariant, PTL DEF Spec, SweepRestoresLimit
===============================================================================
