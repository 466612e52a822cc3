----------------------------- MODULE PrivateMedia -----------------------------
(***************************************************************************)
(* The cache of attachments from direct chats of one owner: downloads by a *)
(* few workers (internal/monitor/private_media.go), the files and their    *)
(* rows (internal/privatemedia, internal/db/private_media.go), the alerts  *)
(* that send them (internal/bot/deletions.go) and the cleanup.             *)
(*                                                                         *)
(* Only a Save that makes room or stores, and the sweep, hold Store.mu;    *)
(* deletions, expiry and the bot change rows and files beside them.        *)
(* The download queue keeps one job for a message, but forgets that after  *)
(* a few minutes, and drops what does not fit: what a worker begins next   *)
(* is therefore any attachment of any message.  Temporary files, names     *)
(* and captions are left out.                                              *)
(***************************************************************************)
EXTENDS Naturals, FiniteSets, FiniteSetsExt, Functions

CONSTANTS
  Msgs,        \* messages with an attachment
  Attachments, \* message -> how many it has, one after the other (by edits)
  Size,        \* message -> bytes of its attachment, as announced: no more is written
  MaxDisk,     \* maxDiskBytes
  Ttl, Hold,   \* PrivateMediaTTL and PrivateMediaDeletedHold, in ticks
  Workers,     \* downloads at a time
  Senders,     \* alerts and presses of a button at a time
  MaxFaults    \* bound: statements that fail, and crashes

ASSUME PrivateMediaAssumption ==
  /\ Msgs \subseteq Nat /\ IsFiniteSet(Msgs) /\ {Size, Attachments} \subseteq [Msgs -> Nat \ {0}]
  /\ {MaxDisk, Ttl, Hold, MaxFaults} \subseteq Nat /\ Ttl < Hold
  /\ IsFiniteSet(Workers) /\ Workers \cap {"free", "cleaner"} = {}

VARIABLES
  tombs,       \* messages whose deletion is recorded
  rows,        \* message -> [media, sent, left]: media 0 for no row, sent
               \* for a bot_file_id, left the time until expires_at
  files,       \* message -> attachment in its file, 0 for no file
  mutex,       \* Store.mu: free, a worker or the cleaner
  reserved,    \* Store.reserved
  worker,      \* worker -> [pc, msg, media, list, used]
  sender,      \* sender -> [pc, msg]
  cleaner,     \* [pc, list]
  faults

cacheVars == <<rows, files>>
saveVars == <<mutex, reserved, worker>>
vars == <<tombs, cacheVars, saveVars, sender, cleaner, faults>>

NoRow == [media |-> 0, sent |-> FALSE, left |-> 0]
IdleWorker == [pc |-> "idle", msg |-> 0, media |-> 0, list |-> {}, used |-> 0]
IdleSender == [pc |-> "idle", msg |-> 0]
Resting == [pc |-> "list", list |-> {}]

Init ==
  /\ tombs = {}
  /\ rows = [m \in Msgs |-> NoRow] /\ files = [m \in Msgs |-> 0]
  /\ mutex = "free" /\ reserved = 0 /\ worker = [w \in Workers |-> IdleWorker]
  /\ sender = [s \in Senders |-> IdleSender] /\ cleaner = Resting /\ faults = 0

Fault == faults < MaxFaults /\ faults' = faults + 1
Stored(m) == rows[m].media # 0
Local(m) == Stored(m) /\ ~rows[m].sent
Evictable(m) == Local(m) /\ m \notin tombs
Total(S) == SumFunctionOnSet(Size, S)
AllLocal == {m \in Msgs : Local(m)}

(***************************************************************************)
(* Deletions from Telegram, and time.                                      *)
(***************************************************************************)
(* A deletion, and the longer life of an attachment, in one transaction.   *)
RecordPrivateMessageDeletions(m) ==
  /\ tombs' = tombs \cup {m}
  /\ rows' = [rows EXCEPT ![m].left = IF Stored(m) THEN Hold ELSE @]
  /\ UNCHANGED <<files, saveVars, sender, cleaner, faults>>

Tick ==
  /\ rows' = [m \in Msgs |-> [rows[m] EXCEPT !.left = IF @ = 0 THEN 0 ELSE @ - 1]]
  /\ UNCHANGED <<tombs, files, saveVars, sender, cleaner, faults>>

(***************************************************************************)
(* Save, by a download worker.                                             *)
(***************************************************************************)
ByWorker == UNCHANGED <<tombs, sender, cleaner>>
At(w, pc) == worker[w].pc = pc
Turns(w, pc) == worker' = [worker EXCEPT ![w].pc = pc]
Locks(w) == mutex = "free" /\ mutex' = w
Unlocks == mutex' = "free"

Has(m, v) == rows[m].media = v /\ rows[m].left > 0
(* The next job of the queue: an attachment that is not already stored.    *)
Begins(w) ==
  /\ At(w, "idle")
  /\ \E m \in Msgs : \E v \in 1..Attachments[m] :
       /\ ~Has(m, v)
       /\ worker' = [worker EXCEPT ![w] = [IdleWorker EXCEPT !.pc = "reserve", !.msg = m, !.media = v]]
  /\ ByWorker /\ UNCHANGED <<cacheVars, mutex, reserved, faults>>

FitsAlone(used, size) == used + size <= MaxDisk      \* mutant: other downloads are not counted
Fits(used, size) == used + reserved + size <= MaxDisk

(* mutant: the sum is not raised *)
ReservesNothing(w) == UNCHANGED reserved /\ Turns(w, "download") /\ Unlocks
Reserves(w) ==
  /\ reserved' = reserved + Size[worker[w].msg] /\ Turns(w, "download") /\ Unlocks

(* What is stored locally is added up and, when there is too little room,  *)
(* what may be evicted is listed.                                          *)
reserve(w) ==
  LET used == Total(AllLocal) IN
  /\ At(w, "reserve") /\ mutex = "free"
  /\ IF Fits(used, Size[worker[w].msg]) THEN Reserves(w)
     ELSE /\ Locks(w) /\ UNCHANGED reserved
          /\ worker' = [worker EXCEPT ![w].pc = "evict", ![w].used = used,
                          ![w].list = {<<m, rows[m].left>> : m \in {k \in Msgs : Evictable(k)}}]
  /\ ByWorker /\ UNCHANGED <<cacheVars, faults>>

(* The oldest of what was listed goes first, its file and then its row,    *)
(* which stays when the statement fails.                                   *)
Enough(w) == Fits(worker[w].used, Size[worker[w].msg])
Oldest(w) == {item \in worker[w].list : \A k \in worker[w].list : item[2] <= k[2]}
Evict(w) ==
  /\ At(w, "evict") /\ ~Enough(w)
  /\ \E item \in Oldest(w) :
       /\ files' = [files EXCEPT ![item[1]] = 0]
       /\ \/ rows' = [rows EXCEPT ![item[1]] = NoRow]
             /\ worker' = [worker EXCEPT ![w].list = @ \ {item}, ![w].used = @ - Size[item[1]]]
             /\ UNCHANGED <<mutex, faults>>
          \/ Fault /\ Unlocks /\ UNCHANGED rows
             /\ worker' = [worker EXCEPT ![w] = IdleWorker]
  /\ ByWorker /\ UNCHANGED reserved

Evicted(w) ==
  /\ At(w, "evict") /\ Unlocks
  /\ \/ Enough(w) /\ reserved' = reserved + Size[worker[w].msg]
        /\ worker' = [worker EXCEPT ![w].pc = "download", ![w].list = {}, ![w].used = 0]
     \/ ~Enough(w) /\ worker[w].list = {} /\ UNCHANGED reserved      \* ErrNoSpace
        /\ worker' = [worker EXCEPT ![w] = IdleWorker]
  /\ ByWorker /\ UNCHANGED <<cacheVars, faults>>

(* A download that fails, is empty or is cut off leaves nothing. *)
DownloadFails(w) ==
  /\ At(w, "download") /\ Turns(w, "release")
  /\ ByWorker /\ UNCHANGED <<cacheVars, mutex, reserved, faults>>

Unlocked == TRUE                          \* mutant: the file and its row are stored without the mutex
MayStore == mutex = "free"
Rename(w) ==
  /\ At(w, "download") /\ MayStore /\ mutex' = w /\ Turns(w, "store")
  /\ files' = [files EXCEPT ![worker[w].msg] = worker[w].media]
  /\ ByWorker /\ UNCHANGED <<rows, reserved, faults>>

AlwaysTtl(m) == Ttl                       \* mutant: a deletion that came first is forgotten
LifeOf(m) == IF m \in tombs THEN Hold ELSE Ttl
SavePrivateMedia(w) ==
  LET m == worker[w].msg IN
  /\ At(w, "store") /\ Unlocks /\ Turns(w, "release")
  /\ \/ rows' = [rows EXCEPT ![m] = [media |-> worker[w].media, sent |-> FALSE, left |-> LifeOf(m)]]
        /\ UNCHANGED <<files, faults>>
     \/ Fault /\ files' = [files EXCEPT ![m] = 0] /\ UNCHANGED rows
  /\ ByWorker /\ UNCHANGED reserved

(* What was reserved is given back. *)
release(w) ==
  /\ At(w, "release") /\ mutex = "free" /\ reserved' = reserved - Size[worker[w].msg]
  /\ worker' = [worker EXCEPT ![w] = IdleWorker]
  /\ ByWorker /\ UNCHANGED <<cacheVars, mutex, faults>>

Save(w) ==
  \/ Begins(w) \/ reserve(w) \/ Evict(w) \/ Evicted(w)
  \/ DownloadFails(w) \/ Rename(w) \/ SavePrivateMedia(w) \/ release(w)

(***************************************************************************)
(* An alert, or a press of its button, sends the attachment.               *)
(***************************************************************************)
BySender == UNCHANGED <<tombs, saveVars, cleaner>>
Rests(s) == sender' = [sender EXCEPT ![s] = IdleSender]

(* The row is read; one that has a file id is sent without a file, which   *)
(* changes nothing.                                                        *)
GetPrivateMedia(s) ==
  /\ sender[s].pc = "idle"
  /\ \E m \in tombs : /\ Local(m) /\ rows[m].left > 0
                      /\ sender' = [sender EXCEPT ![s] = [IdleSender EXCEPT !.pc = "open", !.msg = m]]
  /\ BySender /\ UNCHANGED <<cacheVars, faults>>

Open(s) ==
  /\ sender[s].pc = "open"
  /\ sender' = [sender EXCEPT ![s].pc = IF files[sender[s].msg] = 0 THEN "lost" ELSE "send"]
  /\ BySender /\ UNCHANGED <<cacheVars, faults>>

(* The file was not there; its row is deleted. *)
DeletePrivateMedia(s) ==
  /\ sender[s].pc = "lost" /\ Rests(s)
  /\ rows' = [rows EXCEPT ![sender[s].msg] = NoRow]
  /\ BySender /\ UNCHANGED <<files, faults>>

(* Telegram refuses the attachment, or takes it and gives no file id.      *)
NotSent(s) ==
  /\ sender[s].pc = "send" /\ Rests(s)
  /\ BySender /\ UNCHANGED <<cacheVars, faults>>

(* It takes it, and MarkSent stores the file id and removes the file.      *)
SetPrivateMediaBotFileID(s) ==
  LET m == sender[s].msg IN
  /\ sender[s].pc = "send" /\ sender' = [sender EXCEPT ![s].pc = "unlink"]
  /\ rows' = [rows EXCEPT ![m].sent = Stored(m)]
  /\ BySender /\ UNCHANGED <<files, faults>>

Unlink(s) ==
  /\ sender[s].pc = "unlink" /\ Rests(s)
  /\ files' = [files EXCEPT ![sender[s].msg] = 0]
  /\ BySender /\ UNCHANGED <<rows, faults>>

MarkSent(s) == SetPrivateMediaBotFileID(s) \/ Unlink(s)
Show(s) == GetPrivateMedia(s) \/ Open(s) \/ DeletePrivateMedia(s) \/ NotSent(s) \/ MarkSent(s)

(***************************************************************************)
(* Cleanup: what was listed as expired, one by one, then the sweep.        *)
(***************************************************************************)
ByCleaner == UNCHANGED <<tombs, reserved, worker, sender>>

ListExpiredPrivateMedia ==
  /\ cleaner.pc = "list"
  /\ cleaner' = [cleaner EXCEPT !.pc = "file", !.list = {m \in Msgs : Stored(m) /\ rows[m].left = 0}]
  /\ ByCleaner /\ UNCHANGED <<cacheVars, mutex, faults>>

(* A file, then its row; when either cannot be removed, the rest is left   *)
(* for the next cleanup.                                                   *)
RemoveExpired ==
  LET m == Min(cleaner.list) IN
  /\ cleaner.list # {}
  /\ \/ /\ cleaner.pc = "file" /\ cleaner' = [cleaner EXCEPT !.pc = "row"]
        /\ files' = [files EXCEPT ![m] = 0] /\ UNCHANGED <<rows, faults>>
     \/ /\ cleaner.pc = "row" /\ cleaner' = [pc |-> "file", list |-> cleaner.list \ {m}]
        /\ rows' = [rows EXCEPT ![m] = NoRow] /\ UNCHANGED <<files, faults>>
     \/ /\ cleaner.pc \in {"file", "row"} /\ Fault /\ cleaner' = Resting
        /\ UNCHANGED cacheVars
  /\ ByCleaner /\ UNCHANGED mutex

MaySweep == mutex = "free"
(* The sweep keeps the files of local rows and goes through the others; it *)
(* ends at one that cannot be removed.                                     *)
SweepableUnstored == {m \in Msgs : ~Stored(m)}   \* mutant: any row accounts for a file
Sweepable == {m \in Msgs : ~Local(m)}
Removed(S) == files' = [m \in Msgs |-> IF m \in S THEN 0 ELSE files[m]]
removeOrphans ==
  \/ /\ cleaner.pc = "file" /\ cleaner.list = {} /\ MaySweep /\ mutex' = "cleaner"
     /\ cleaner' = [pc |-> "sweep", list |-> Sweepable]
     /\ ByCleaner /\ UNCHANGED <<cacheVars, faults>>
  \/ /\ cleaner.pc = "sweep" /\ Unlocks /\ cleaner' = Resting
     /\ \/ Removed(cleaner.list) /\ UNCHANGED faults
        \/ Fault /\ \E some \in SUBSET cleaner.list : Removed(some)
     /\ ByCleaner /\ UNCHANGED rows

Cleanup == ListExpiredPrivateMedia \/ RemoveExpired \/ removeOrphans

(* The process ends and starts again, with the rows and files there are.   *)
Crash ==
  /\ Fault
  /\ mutex' = "free" /\ reserved' = 0
  /\ worker' = [w \in Workers |-> IdleWorker] /\ sender' = [s \in Senders |-> IdleSender]
  /\ cleaner' = Resting
  /\ UNCHANGED <<tombs, cacheVars>>

Next ==
  \/ \E m \in Msgs : RecordPrivateMessageDeletions(m)
  \/ Tick
  \/ \E w \in Workers : Save(w)
  \/ \E s \in Senders : Show(s)
  \/ Cleanup \/ Crash

Spec == Init /\ [][Next]_vars

(***************************************************************************)
(* Properties.                                                             *)
(***************************************************************************)
Row == [media : Nat, sent : BOOLEAN, left : 0..Hold]
Download == [pc : {"idle", "reserve", "evict", "download", "store", "release"},
             msg : Msgs \cup {0}, media : Nat, list : SUBSET (Msgs \X (0..Hold)), used : Nat]
Sending == [pc : {"idle", "open", "lost", "send", "unlink"}, msg : Msgs \cup {0}]
Cleaning == [pc : {"list", "file", "row", "sweep"}, list : SUBSET Msgs]

Doing(pcs) == {w \in Workers : worker[w].pc \in pcs}
Asked(S) == SumFunctionOnSet([w \in S |-> Size[worker[w].msg]], S)
TypeOK ==
  /\ tombs \subseteq Msgs /\ rows \in [Msgs -> Row] /\ files \in [Msgs -> Nat]
  /\ mutex \in Workers \cup {"free", "cleaner"} /\ faults \in 0..MaxFaults
  /\ worker \in [Workers -> Download] /\ sender \in [Senders -> Sending] /\ cleaner \in Cleaning
  (* the mutex is held by whom it says, and nobody else *)
  /\ \A w \in Workers : worker[w].pc \in {"evict", "store"} <=> mutex = w
  /\ cleaner.pc = "sweep" <=> mutex = "cleaner"
  /\ reserved = Asked(Doing({"download", "store", "release"}))

(* README: the cache is capped.  What rows account for, with all that is   *)
(* still being downloaded, never passes the limit, whatever the others do  *)
(* while one of them makes room.  Files without such a row come on top: see*)
(* SweepRestoresLimit.                                                     *)
Arriving == Asked(Doing({"download", "store"}))
WithinDisk == Total(AllLocal) + Arriving <= MaxDisk

(* Files that no row accounts for (after a crash between a file and its    *)
(* row, a failed removal, a send not yet finished, a row deleted under a   *)
(* download) come on top of the limit until the next sweep.  When one ends *)
(* without an error, the files that are there, with what is still being    *)
(* downloaded, are within it.                                              *)
OnDisk == {m \in Msgs : files[m] # 0}
SweepRestoresLimit ==
  [][cleaner.pc = "sweep" /\ cleaner'.pc = "list" /\ faults' = faults
       => Total(OnDisk') + Arriving' <= MaxDisk]_vars

(* A file is the attachment that its row describes: two downloads for one  *)
(* message, of what it had and of what an edit put in its place, are never *)
(* mixed up by anything but a crash between the file and its row.          *)
Describes(m) ==
  \/ files[m] = 0 \/ ~Local(m) \/ files[m] = rows[m].media
  \/ \E w \in Workers : At(w, "store") /\ worker[w].msg = m
RowDescribesFile == [][Crash \/ \A m \in Msgs : Describes(m) => Describes(m)']_vars

(* The attachment of a deleted message is held from when it is both stored *)
(* and known to be deleted, whichever comes first.                         *)
HeldInEitherOrder ==
  [][\A m \in Msgs : (m \in tombs' /\ rows'[m].media # 0) /\ ~(m \in tombs /\ Stored(m))
                       => rows'[m].left = Hold]_vars

(* The sweep takes files that no row accounts for, such as a crash, a      *)
(* failed removal or a send leaves behind; never one that was being stored *)
(* while it looked.                                                        *)
SweepSparesStored ==
  [][cleaner.pc = "sweep" /\ cleaner'.pc = "list" /\ ~Crash
       => \A m \in Msgs : Local(m) => files'[m] = files[m]]_vars

(* Comment of reserve: "Held attachments are never evicted."  What makes   *)
(* room leaves the attachments of deleted messages alone.                  *)
HeldNeverEvicted ==
  [][\A m \in tombs : Local(m) /\ rows[m].left > 0 /\ files[m] # 0 /\ files'[m] = 0
                      => ~\E w \in Workers : At(w, "evict") /\ worker'[w] # worker[w]]_vars
===============================================================================
