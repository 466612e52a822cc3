--------------------------- MODULE DeletionArchive ---------------------------
(***************************************************************************)
(* The archive of one owner's direct chats and its deletion outbox:        *)
(* internal/monitor/private_messages.go drives it, the tables behind it    *)
(* are those of internal/db/private_messages.go, and the alerts go out     *)
(* through internal/bot/deletions.go.                                      *)
(*                                                                         *)
(* Four actors share the database, each of its statements or transactions  *)
(* being atomic: the update handler, the archive maintenance pass that     *)
(* prunes and then seeds dialogs from their history, the outbox that       *)
(* flushes pending deletions every two seconds, and the attachment         *)
(* downloads that hold alerts back.  Telegram, the owner and the network   *)
(* are the environment.                                                    *)
(*                                                                         *)
(* Rows of other owners are never touched (every statement has an          *)
(* owner_user_id condition), so one owner is modelled.  Message ids are    *)
(* numbers that grow with the message date.  Instants are kept as ages:    *)
(* Tick makes everything one unit older, ages stop at MaxAge, which is     *)
(* beyond every threshold, so stopping there changes no comparison.        *)
(***************************************************************************)
EXTENDS Naturals, FiniteSets

CONSTANTS
  Peers,         \* users with whom the owner has a direct dialog
  Bots,          \* those of them that are bots
  Msgs,          \* ids of the messages of these dialogs
  PeerOf,        \* the dialog of a message
  MaxVer,        \* bound: versions of a message, the original is 1
  Editable,      \* bound: messages that are edited
  Attached,      \* messages that come with an attachment the bot can send
  Quiet,         \* privateDeletionQuietPeriod
  MediaWait,     \* privateDeletionMediaWait
  Retention,     \* privateArchiveRetention
  MaxAge,        \* where ages stop
  PassTime,      \* an outbox pass, a few calls long, takes no longer than this
  MaxMessages,   \* privateArchiveMaxMessages
  PageLimit,     \* privateHistoryPageLimit
  ListLimit,     \* privateDeletionBatchLimit
  MaxAttempts,   \* from this attempt on the backoff does not grow
  Backoff,       \* privateDeletionRetryBackoff, by attempt
  AlertIds,      \* bound: alert ids in use at once
  MaxFaults,     \* bound: crashes, disconnects and failed statements
  Refused        \* dialogs whose alerts Telegram may refuse for good

ASSUME IdsAssumption == /\ Msgs \subseteq Nat /\ IsFiniteSet(Msgs)
                        /\ Peers \subseteq Nat \ {0} /\ AlertIds \subseteq Nat \ {0}
ASSUME PeersAssumption == /\ Bots \subseteq Peers /\ Refused \subseteq Peers
                          /\ PeerOf \in [Msgs -> Peers]
ASSUME KindsAssumption == Editable \subseteq Msgs /\ Attached \subseteq Msgs
ASSUME LimitsAssumption ==
  /\ {MaxVer, MaxMessages, PageLimit, ListLimit, MaxAttempts} \subseteq Nat \ {0}
  /\ MaxFaults \in Nat
ASSUME TimesAssumption ==
  /\ {Quiet, MediaWait, Retention, MaxAge, PassTime} \subseteq Nat
  /\ Quiet <= MaxAge /\ MediaWait <= MaxAge /\ Retention < MaxAge
  /\ PassTime <= Retention
  /\ Backoff \in [1..MaxAttempts -> 0..MaxAge]

VARIABLES
  (* Telegram *)
  latest,     \* [Msgs -> Nat]: versions so far, 0 before it is sent
  stamp,      \* [Msgs -> [1..MaxVer -> Nat]]: the second of each version
  gone,       \* messages deleted in Telegram
  age,        \* [Msgs -> Nat]: time since the message was sent
  (* the update stream, in order per message *)
  seen,       \* [Msgs -> Nat]: the handler has got no later version than this
  heard,      \* messages whose deletion the handler got
  (* private_dialogs *)
  dialog,     \* [Peers -> "unknown" | "new" | "seeded"]
  (* private_messages *)
  archived,   \* messages with a row
  ver,        \* [Msgs -> Nat]: the version in the row, 0 without a row
  marked,     \* rows with deleted_at
  (* private_message_deletions *)
  tombs,      \* messages with a row
  notified,   \* rows with notified_at
  obsAge,     \* [Msgs -> Nat]: time since observed_at
  attempts,   \* [Msgs -> Nat]: attempts
  wait,       \* [Msgs -> Nat]: time until next_attempt_at
  (* private_deletion_alerts and private_deletion_alert_messages *)
  rows,       \* ids with a row
  covers,     \* [AlertIds -> SUBSET Msgs]: the messages of an alert
  rowAge,     \* [AlertIds -> Nat]: time since created_at
  (* the owner's chat with the bot *)
  told,       \* messages named by an alert that reached the chat
  buttons,    \* alerts whose button reached the chat, until retention ends
  acked,      \* those of them whose delivery the bot was told of
  (* processes *)
  media,      \* mediaPending: attachments queued or downloading
  flush,      \* flushPrivateDeletionOutbox in progress
  fill,       \* runPrivateArchivePass in progress
  faults      \* faults so far

telegramVars == <<latest, stamp, gone, age>>
streamVars == <<seen, heard>>
messageVars == <<archived, ver, marked>>
tombVars == <<tombs, notified, obsAge, attempts, wait>>
alertVars == <<rows, covers, rowAge>>
chatVars == <<told, buttons, acked>>
vars == <<telegramVars, streamVars, dialog, messageVars, tombVars,
          alertVars, chatVars, media, flush, fill, faults>>
(* what a step of one process usually leaves alone *)
dbVars == <<dialog, messageVars, tombVars, alertVars>>

NoPeer == 0     \* ids are positive in the code, 0 stands for none
NoAlert == 0
NoPage == [m \in Msgs |-> 0]

FlushStates ==
  [pc : {"idle", "next", "send", "mark", "drop", "fail"},
   rows : SUBSET Msgs,                 \* listed deletions still to be reported
   young : SUBSET Peers,               \* dialogs that may wait for an attachment
   peer : Peers \cup {NoPeer}, alert : AlertIds \cup {NoAlert},  \* the batch sent
   elapsed : 0..PassTime]              \* time since the listing
FillStates ==
  [pc : {"idle", "dialogs", "page"},
   peers : SUBSET Peers,               \* dialogs whose page is still to be fetched
   peer : Peers \cup {NoPeer}, page : [Msgs -> 0..MaxVer],  \* the page, 0 not in it
   failed : BOOLEAN,                   \* a message of it could not be archived
   cut : SUBSET Msgs]                  \* messages older than the pass's cutoff

FlushIdle == [pc |-> "idle", rows |-> {}, young |-> {}, peer |-> NoPeer,
              alert |-> NoAlert, elapsed |-> 0]
FillIdle == [pc |-> "idle", peers |-> {}, peer |-> NoPeer, page |-> NoPage,
             failed |-> FALSE, cut |-> {}]

TypeOK ==
  /\ latest \in [Msgs -> 0..MaxVer]
  /\ stamp \in [Msgs -> [1..MaxVer -> Nat]]
  /\ gone \subseteq Msgs
  /\ age \in [Msgs -> 0..MaxAge]
  /\ seen \in [Msgs -> 1..MaxVer]
  /\ heard \subseteq Msgs
  /\ dialog \in [Peers -> {"unknown", "new", "seeded"}]
  /\ archived \subseteq Msgs /\ marked \subseteq Msgs
  /\ ver \in [Msgs -> 0..MaxVer]
  /\ tombs \subseteq Msgs /\ notified \subseteq Msgs
  /\ obsAge \in [Msgs -> 0..MaxAge]
  /\ attempts \in [Msgs -> 0..MaxAttempts]
  /\ wait \in [Msgs -> 0..MaxAge]
  /\ rows \subseteq AlertIds
  /\ covers \in [AlertIds -> SUBSET Msgs]
  /\ \A a \in AlertIds : covers[a] # {} <=> a \in rows      \* the foreign key
  /\ rowAge \in [AlertIds -> 0..MaxAge]
  /\ told \subseteq Msgs
  /\ buttons \subseteq AlertIds /\ acked \subseteq AlertIds
  /\ media \subseteq Msgs
  /\ flush \in FlushStates
  /\ flush.pc \in {"send", "mark", "drop", "fail"} => flush.alert \in AlertIds
  /\ fill \in FillStates
  /\ faults \in 0..MaxFaults

Init ==
  /\ latest = [m \in Msgs |-> 0]
  /\ stamp = [m \in Msgs |-> [v \in 1..MaxVer |-> 0]]
  /\ gone = {}
  /\ age = [m \in Msgs |-> 0]
  /\ seen = [m \in Msgs |-> 1]
  /\ heard = {}
  /\ dialog = [p \in Peers |-> "unknown"]
  /\ archived = {} /\ marked = {}
  /\ ver = [m \in Msgs |-> 0]
  /\ tombs = {} /\ notified = {}
  /\ obsAge = [m \in Msgs |-> 0]
  /\ attempts = [m \in Msgs |-> 0]
  /\ wait = [m \in Msgs |-> 0]
  /\ rows = {}
  /\ covers = [a \in AlertIds |-> {}]
  /\ rowAge = [a \in AlertIds |-> 0]
  /\ told = {} /\ buttons = {} /\ acked = {}
  /\ media = {}
  /\ flush = FlushIdle
  /\ fill = FillIdle
  /\ faults = 0

-----------------------------------------------------------------------------
(* Telegram: messages are sent, edited and deleted.  Dates have a          *)
(* resolution of one second, so an edit may carry the date of the version  *)
(* it replaces.                                                            *)

Send(m) ==
  /\ latest[m] = 0
  /\ \A k \in Msgs : k < m => latest[k] > 0
  /\ latest' = [latest EXCEPT ![m] = 1]
  /\ UNCHANGED <<dbVars, stamp, gone, age, streamVars, chatVars,
                 media, flush, fill, faults>>

Edit(m, later) ==
  /\ m \in Editable \ gone /\ latest[m] \in 1..(MaxVer - 1)
  /\ latest' = [latest EXCEPT ![m] = @ + 1]
  /\ stamp' = [stamp EXCEPT ![m][latest[m] + 1] = stamp[m][latest[m]] + later]
  /\ UNCHANGED <<dbVars, gone, age, streamVars, chatVars, media,
                 flush, fill, faults>>

Delete(m) ==
  /\ latest[m] > 0 /\ m \notin gone
  /\ gone' = gone \cup {m}
  /\ UNCHANGED <<dbVars, latest, stamp, age, streamVars, chatVars,
                 media, flush, fill, faults>>

Older(t) == IF t < MaxAge THEN t + 1 ELSE t

Tick ==
  /\ flush.elapsed < PassTime \/ flush.pc = "idle"
  /\ age' = [m \in Msgs |-> IF latest[m] > 0 THEN Older(age[m]) ELSE 0]
  /\ obsAge' = [m \in Msgs |-> IF m \in tombs THEN Older(obsAge[m]) ELSE 0]
  /\ wait' = [m \in Msgs |-> IF wait[m] > 0 THEN wait[m] - 1 ELSE 0]
  /\ rowAge' = [a \in AlertIds |-> IF a \in rows THEN Older(rowAge[a]) ELSE 0]
  /\ flush' = [flush EXCEPT !.elapsed = IF flush.pc = "idle" THEN 0 ELSE @ + 1]
  /\ UNCHANGED <<latest, stamp, gone, streamVars, dialog, messageVars, tombs,
                 notified, attempts, rows, covers, chatVars, media, fill,
                 faults>>

-----------------------------------------------------------------------------
(* The update handler.                                                     *)

(* UpsertPrivateMessage keeps the row it has unless the version it is      *)
(* given is newer by date; at equal dates an edit wins over the original,  *)
(* and of two edits the one that comes last.                               *)
SupersedesAtEqualDate(m, v) ==         \* mutant: the original may replace its edit
  stamp[m][v] >= stamp[m][ver[m]]
Supersedes(m, v) ==
  \/ stamp[m][v] > stamp[m][ver[m]]
  \/ stamp[m][v] = stamp[m][ver[m]] /\ ~(ver[m] > 1 /\ v = 1)

(* A new row takes deleted_at from the tombstone; an old one keeps its     *)
(* text once it is marked deleted.                                         *)
BornAlive(m) == FALSE                  \* mutant: an insert ignores the tombstone
BornDeleted(m) == m \in tombs
NeverFrozen(m) == FALSE                \* mutant: edits go into deleted rows
Frozen(m) == m \in marked

UpsertPrivateMessage(m, v) ==
  /\ archived' = archived \cup {m}
  /\ marked' = IF m \notin archived /\ BornDeleted(m) THEN marked \cup {m} ELSE marked
  /\ ver' = IF m \notin archived \/ (~Frozen(m) /\ Supersedes(m, v))
              THEN [ver EXCEPT ![m] = v] ELSE ver

(* archivePrivateMessage: private text is stored only for a dialog that is *)
(* known and not a bot.                                                    *)
Archivable(p) == dialog'[p] # "unknown" /\ p \notin Bots

ArchivePrivateMessage(m, v) ==
  IF Archivable(PeerOf[m]) THEN UpsertPrivateMessage(m, v) ELSE UNCHANGED messageVars

UpsertPrivateDialog(p) ==
  dialog' = [dialog EXCEPT ![p] = IF @ = "unknown" THEN "new" ELSE @]

(* A new or edited message arrives, with or without the user it is from.   *)
(* Versions may be skipped (lost) or repeated, not reordered.  A fresh     *)
(* attachment may be queued for download.                                  *)
LiveMessage(m, v, withUser) ==
  /\ m \notin heard
  /\ v \in seen[m]..latest[m]
  /\ seen' = [seen EXCEPT ![m] = v]
  /\ IF withUser THEN UpsertPrivateDialog(PeerOf[m]) ELSE UNCHANGED dialog
  /\ ArchivePrivateMessage(m, v)
  /\ media' \in IF Archivable(PeerOf[m]) /\ m \in Attached THEN {media, media \cup {m}} ELSE {media}
  /\ UNCHANGED <<telegramVars, heard, tombVars, alertVars, chatVars, flush, fill, faults>>

(* One update lists deleted ids, some of them perhaps for the second time. *)
HearDeletion(S) ==
  /\ S # {} /\ S \subseteq gone
  /\ heard' = heard \cup S
  /\ tombs' = tombs \cup S
  /\ marked' = marked \cup (S \cap archived)
  /\ UNCHANGED <<telegramVars, seen, dialog, archived, ver, notified, obsAge, attempts,
                 wait, alertVars, chatVars, media, flush, fill, faults>>

(* A download ends, by success, failure, timeout or purge.                 *)
MediaDone(m) ==
  /\ m \in media
  /\ media' = media \ {m}
  /\ UNCHANGED <<telegramVars, dbVars, streamVars, chatVars, flush, fill, faults>>

(* SyncDialogs learns of a dialog.                                         *)
RememberDialog(p) ==
  /\ UpsertPrivateDialog(p)
  /\ UNCHANGED <<telegramVars, streamVars, messageVars, tombVars, alertVars, chatVars,
                 media, flush, fill, faults>>

-----------------------------------------------------------------------------
(* The maintenance pass.                                                   *)

Pending == tombs \ notified
Expired == {m \in Msgs : age[m] > Retention}

(* The rows the retention window and then the message cap drop.            *)
Outdated == (archived \cap Expired) \ Pending
OverCapOfAll ==                        \* mutant: the cap counts and drops pending ones
  LET kept == archived \ Outdated IN
  {m \in kept : Cardinality({k \in kept : k > m}) >= MaxMessages}
OverCap ==
  LET kept == (archived \ Outdated) \ Pending IN
  {m \in kept : Cardinality({k \in kept : k > m}) >= MaxMessages}

OldAlertsOffByOne == {a \in rows : rowAge[a] >= Retention}  \* mutant
OldAlerts == {a \in rows : rowAge[a] > Retention}

(* The messages of an alert go with its row (ON DELETE CASCADE); foreign   *)
(* keys are enforced per connection.                                       *)
Orphans(ids) == covers                 \* mutant: a connection without foreign_keys
Cascade(ids) == [a \in AlertIds |-> IF a \in ids THEN {} ELSE covers[a]]

PrunePrivateArchive ==
  LET dropped == Outdated \cup OverCap
      oldTombs == {m \in tombs : /\ obsAge[m] > Retention
                                 /\ m \in notified \/ m \notin archived \ dropped}
      outOfRetention == {a \in rows : rowAge[a] > Retention} IN
  /\ archived' = archived \ dropped
  /\ marked' = marked \ dropped
  /\ ver' = [m \in Msgs |-> IF m \in dropped THEN 0 ELSE ver[m]]
  /\ tombs' = tombs \ oldTombs
  /\ notified' = notified \ oldTombs
  /\ obsAge' = [m \in Msgs |-> IF m \in oldTombs THEN 0 ELSE obsAge[m]]
  /\ attempts' = [m \in Msgs |-> IF m \in oldTombs THEN 0 ELSE attempts[m]]
  /\ wait' = [m \in Msgs |-> IF m \in oldTombs THEN 0 ELSE wait[m]]
  /\ rows' = rows \ OldAlerts
  /\ covers' = Cascade(OldAlerts)
  /\ rowAge' = [a \in AlertIds |-> IF a \in OldAlerts THEN 0 ELSE rowAge[a]]
  /\ buttons' = buttons \ outOfRetention
  /\ acked' = acked \ outOfRetention

(* A pass prunes, then goes through the dialogs it finds unseeded.         *)
FillThrough(left) ==
  IF left = {} THEN FillIdle ELSE [FillIdle EXCEPT !.pc = "dialogs", !.peers = left, !.cut = fill.cut]
Unseeded == {p \in Peers \ Bots : dialog[p] = "new"}
FillStart ==
  fill' = IF Unseeded = {} THEN FillIdle
          ELSE [FillIdle EXCEPT !.pc = "dialogs", !.peers = Unseeded, !.cut = Expired]

PassStart ==
  /\ fill.pc = "idle"
  /\ PrunePrivateArchive
  /\ FillStart
  /\ UNCHANGED <<telegramVars, streamVars, dialog, told, media, flush, faults>>

(* The latest page of history as Telegram has it now, without what is      *)
(* older than the pass's cutoff.                                           *)
HistoryPage(p) ==
  LET all == {m \in Msgs : PeerOf[m] = p /\ latest[m] > 0 /\ m \notin gone}
      page == {m \in all : Cardinality({k \in all : k > m}) < PageLimit} IN
  [m \in Msgs |-> IF m \in page \ fill.cut THEN latest[m] ELSE 0]

FillFetch(p) ==
  /\ fill.pc = "dialogs" /\ p \in fill.peers
  /\ fill' = [fill EXCEPT !.pc = "page", !.peers = @ \ {p}, !.peer = p,
                !.page = HistoryPage(p)]
  /\ UNCHANGED <<telegramVars, dbVars, streamVars, chatVars, media, flush, faults>>

(* The next message of the page, newest first, is archived.                *)
NextOfPage(m) ==
  /\ fill.pc = "page" /\ fill.page[m] > 0
  /\ \A k \in Msgs : fill.page[k] > 0 => k <= m

FillArchive(m) ==
  /\ NextOfPage(m)
  /\ UpsertPrivateDialog(fill.peer)
  /\ ArchivePrivateMessage(m, fill.page[m])
  /\ fill' = [fill EXCEPT !.page[m] = 0]
  /\ UNCHANGED <<telegramVars, streamVars, tombVars, alertVars, chatVars, media, flush,
                 faults>>

(* A dialog counts as seeded only if all of its page was archived.         *)
FillDone ==
  /\ fill.pc = "page" /\ fill.page = NoPage
  /\ dialog' = IF fill.failed THEN dialog ELSE [dialog EXCEPT ![fill.peer] = "seeded"]
  /\ fill' = FillThrough(fill.peers)
  /\ UNCHANGED <<telegramVars, streamVars, messageVars, tombVars, alertVars, chatVars,
                 media, flush, faults>>

Fault == faults < MaxFaults /\ faults' = faults + 1

(* The prune, a history request or an archive statement fails.             *)
PassStartPruneFails ==
  /\ fill.pc = "idle" /\ Fault
  /\ FillStart
  /\ UNCHANGED <<telegramVars, streamVars, dbVars, chatVars, media, flush>>

FillFetchFails(p) ==
  /\ fill.pc = "dialogs" /\ p \in fill.peers /\ Fault
  /\ fill' = FillThrough(fill.peers \ {p})
  /\ UNCHANGED <<telegramVars, dbVars, streamVars, chatVars, media, flush>>

FillArchiveFails(m) ==
  /\ NextOfPage(m) /\ Fault
  /\ fill' = [fill EXCEPT !.page[m] = 0, !.failed = TRUE]
  /\ UNCHANGED <<telegramVars, dbVars, streamVars, chatVars, media, flush>>

-----------------------------------------------------------------------------
(* The outbox.  A pass reads the pending deletions once, groups them by    *)
(* dialog and reports dialog after dialog; `now' stays the time of the     *)
(* reading, elapsed is how long ago that is.                               *)

(* ListPendingPrivateMessageDeletions: due deletions of archived messages  *)
(* of dialogs that are not bots, oldest first up to the limit.  R is what  *)
(* the query returns.                                                      *)
DueAgain == {m \in tombs \cap archived :           \* mutant: reported ones are listed
               wait[m] = 0 /\ dialog[PeerOf[m]] # "unknown" /\ PeerOf[m] \notin Bots}
Due == {m \in Pending \cap archived :
          wait[m] = 0 /\ dialog[PeerOf[m]] # "unknown" /\ PeerOf[m] \notin Bots}
Listed(R) ==
  /\ R \subseteq Due
  /\ R # Due => Cardinality(R) = ListLimit
  /\ Cardinality(R) <= ListLimit
  /\ \A m \in R, k \in Due \ R : obsAge[m] >= obsAge[k]

BatchOf(R, p) == {m \in R : PeerOf[m] = p}
StillArriving(R, p) == \E m \in BatchOf(R, p) : obsAge[m] < Quiet
Young(R, p) == \A m \in BatchOf(R, p) : obsAge[m] < MediaWait

(* Dialogs whose last deletion is not Quiet old are left for a later pass; *)
(* young are those that may still wait for an attachment.                  *)
FlushList(R) ==
  /\ flush.pc = "idle" /\ Listed(R)
  /\ LET quiet == {m \in R : ~StillArriving(R, PeerOf[m])} IN
     /\ quiet # {}
     /\ flush' = [FlushIdle EXCEPT !.pc = "next", !.rows = quiet,
                    !.young = {p \in Peers : Young(quiet, p)}]
  /\ UNCHANGED <<telegramVars, dbVars, streamVars, chatVars, media, fill, faults>>

(* The batches come in the order of their oldest deletion.                 *)
NextBatch(p) ==
  /\ flush.pc = "next"
  /\ \E m \in BatchOf(flush.rows, p) : \A k \in flush.rows : obsAge[m] >= obsAge[k]

AfterBatch(p) ==
  LET rest == flush.rows \ BatchOf(flush.rows, p) IN
  IF rest = {} THEN FlushIdle
  ELSE [flush EXCEPT !.pc = "next", !.rows = rest, !.peer = NoPeer, !.alert = NoAlert]

HeldByMedia(p) == p \in flush.young /\ BatchOf(flush.rows, p) \cap media # {}

FlushSkip(p) ==
  /\ NextBatch(p) /\ HeldByMedia(p)
  /\ flush' = AfterBatch(p)
  /\ UNCHANGED <<telegramVars, dbVars, streamVars, chatVars, media, fill, faults>>

FreeAlerts == AlertIds \ (rows \cup buttons)

(* CreatePrivateDeletionAlert.  Ids are never reused (AUTOINCREMENT): an   *)
(* id is taken again only after its row and its button are gone.           *)
FlushAlert(p, a) ==
  /\ NextBatch(p) /\ ~HeldByMedia(p)
  /\ a \in FreeAlerts /\ \A b \in FreeAlerts : a <= b
  /\ rows' = rows \cup {a}
  /\ covers' = [covers EXCEPT ![a] = BatchOf(flush.rows, p)]
  /\ rowAge' = [rowAge EXCEPT ![a] = flush.elapsed]
  /\ flush' = [flush EXCEPT !.pc = "send", !.peer = p, !.alert = a]
  /\ UNCHANGED <<telegramVars, streamVars, dialog, messageVars, tombVars, chatVars, media,
                 fill, faults>>

Batch == BatchOf(flush.rows, flush.peer)

(* Telegram delivers the alert: several messages become a summary with a   *)
(* button that carries the alert id, a single one is shown at once.        *)
Deliver ==
  /\ told' = told \cup Batch
  /\ buttons' = IF Cardinality(Batch) > 1 THEN buttons \cup {flush.alert} ELSE buttons

FlushSend ==
  /\ flush.pc = "send"
  /\ Deliver
  /\ acked' = acked \cup (buttons' \ buttons)
  /\ flush' = [flush EXCEPT !.pc = "mark"]
  /\ UNCHANGED <<telegramVars, dbVars, streamVars, media, fill, faults>>

(* The alert is delivered, and the answer to the bot is lost.              *)
FlushSendAnswerLost ==
  /\ flush.pc = "send" /\ Fault
  /\ Deliver
  /\ flush' = [flush EXCEPT !.pc = "drop"]
  /\ UNCHANGED <<telegramVars, dbVars, streamVars, acked, media, fill>>

(* The owner is not known yet, or Telegram refuses the alert.              *)
AfterIgnoredError == "mark"            \* mutant: the error of a send is dropped
AfterSendError == "drop"

FlushSendFails ==
  /\ flush.pc = "send"
  /\ flush' = [flush EXCEPT !.pc = AfterSendError]
  /\ UNCHANGED <<telegramVars, dbVars, streamVars, chatVars, media, fill, faults>>

MarkPrivateDeletionNotified ==
  /\ flush.pc = "mark"
  /\ notified' = notified \cup (Batch \cap tombs)
  /\ attempts' = [m \in Msgs |-> IF m \in Batch \cap tombs /\ attempts[m] < MaxAttempts
                                   THEN attempts[m] + 1 ELSE attempts[m]]
  /\ wait' = [m \in Msgs |-> IF m \in Batch THEN 0 ELSE wait[m]]
  /\ flush' = AfterBatch(flush.peer)
  /\ UNCHANGED <<telegramVars, streamVars, dialog, messageVars, tombs, obsAge, alertVars,
                 chatVars, media, fill, faults>>

DeletePrivateDeletionAlert ==
  /\ flush.pc = "drop"
  /\ rows' = rows \ {flush.alert}
  /\ covers' = Cascade({flush.alert})
  /\ rowAge' = [rowAge EXCEPT ![flush.alert] = 0]
  /\ flush' = [flush EXCEPT !.pc = "fail"]
  /\ UNCHANGED <<telegramVars, streamVars, dialog, messageVars, tombVars, chatVars, media,
                 fill, faults>>

(* The next attempt of the whole batch waits for the backoff of the most   *)
(* tried message in it, from the time of the pass's reading; the pass ends.*)
RetryAtOnce(tried) == 0                \* mutant: a failed batch does not wait
RetryWait(tried) ==
  LET n == IF tried < MaxAttempts THEN tried + 1 ELSE MaxAttempts IN
  IF Backoff[n] > flush.elapsed THEN Backoff[n] - flush.elapsed ELSE 0

MarkPrivateDeletionFailed ==
  /\ flush.pc = "fail"
  /\ attempts' = [m \in Msgs |-> IF m \in Batch \cap tombs /\ attempts[m] < MaxAttempts
                                   THEN attempts[m] + 1 ELSE attempts[m]]
  /\ \E most \in Batch :
       /\ \A m \in Batch : attempts[m] <= attempts[most]
       /\ wait' = [m \in Msgs |-> IF m \in Batch \cap tombs
                                    THEN RetryWait(attempts[most]) ELSE wait[m]]
  /\ flush' = FlushIdle
  /\ UNCHANGED <<telegramVars, streamVars, dialog, messageVars, tombs, notified, obsAge,
                 alertVars, chatVars, media, fill, faults>>

(* A statement of the pass fails: the pass ends there, except that a row   *)
(* that could not be deleted is left behind.                               *)
FlushStatementFails ==
  /\ flush.pc \in {"next", "mark", "drop", "fail"} /\ Fault
  /\ flush' = IF flush.pc = "drop" THEN [flush EXCEPT !.pc = "fail"] ELSE FlushIdle
  /\ UNCHANGED <<telegramVars, dbVars, streamVars, chatVars, media, fill>>

-----------------------------------------------------------------------------
(* The connection is lost, or the process dies, and the client starts      *)
(* again: both loops end where they are, and with the process what is kept *)
(* in memory goes.  The time in between is that in which nothing is heard. *)
Restart ==
  /\ Fault
  /\ flush' = FlushIdle /\ fill' = FillIdle
  /\ media' \in {media, {}}
  /\ UNCHANGED <<telegramVars, streamVars, dbVars, chatVars>>

-----------------------------------------------------------------------------
Telegram == \E m \in Msgs : Send(m) \/ Edit(m, 0) \/ Edit(m, 1) \/ Delete(m)
Environment == Telegram \/ Tick
Handler ==
  \/ \E m \in Msgs, v \in 1..MaxVer, u \in BOOLEAN : LiveMessage(m, v, u)
  \/ \E S \in SUBSET Msgs : HearDeletion(S)
  \/ \E m \in Msgs : MediaDone(m)
Maintenance ==
  \/ \E p \in Peers : RememberDialog(p) \/ FillFetch(p) \/ FillFetchFails(p)
  \/ PassStart \/ PassStartPruneFails
  \/ \E m \in Msgs : FillArchive(m) \/ FillArchiveFails(m)
  \/ FillDone
Outbox ==
  \/ \E R \in SUBSET Msgs : FlushList(R)
  \/ \E p \in Peers : FlushSkip(p) \/ \E a \in AlertIds : FlushAlert(p, a)
  \/ FlushSend \/ FlushSendAnswerLost \/ FlushSendFails
  \/ MarkPrivateDeletionNotified \/ DeletePrivateDeletionAlert
  \/ MarkPrivateDeletionFailed \/ FlushStatementFails

Next == Environment \/ Handler \/ Maintenance \/ Outbox \/ Restart

Spec == Init /\ [][Next]_vars

(* The outbox looks at the table every two seconds, far more often than    *)
(* the shortest wait it sets: no time goes by between two passes while a   *)
(* dialog has something to be sent.                                        *)
ReadyToSend(p) ==
  LET due == BatchOf(Due, p) IN
  /\ due # {} /\ ~StillArriving(due, p)
  /\ Young(due, p) => due \cap media = {}
TickInTime == Tick /\ (flush.pc = "idle" => \A p \in Peers : ~ReadyToSend(p))
PromptNext == Telegram \/ TickInTime \/ Handler \/ Maintenance \/ Outbox \/ Restart

(* The loops keep running: the outbox has a ticker and each of its calls   *)
(* returns; and the clock advances.  Of infinitely many alerts offered     *)
(* for one dialog Telegram accepts some, unless the dialog is one of       *)
(* Refused; it never accepts any if the owner does not send /start, which  *)
(* is excluded.  Nothing is assumed of anything else.                      *)
Fairness ==
  /\ WF_vars(TickInTime)
  /\ WF_vars(\E R \in SUBSET Msgs : FlushList(R))
  /\ WF_vars(\E p \in Peers : FlushSkip(p) \/ \E a \in AlertIds : FlushAlert(p, a))
  /\ WF_vars(FlushSend \/ FlushSendFails)
  /\ \A p \in Peers \ Refused : SF_vars(flush.peer = p /\ FlushSend)
  /\ WF_vars(MarkPrivateDeletionNotified)
  /\ WF_vars(DeletePrivateDeletionAlert)
  /\ WF_vars(MarkPrivateDeletionFailed)
FairSpec == Init /\ [][PromptNext]_vars /\ Fairness

-----------------------------------------------------------------------------
(* Properties.                                                             *)

(* A row is marked deleted exactly when its deletion is recorded, in       *)
(* whatever order the snapshot (live or from a history page fetched before *)
(* the deletion) and the deletion were stored, and after every prune       *)
(* (private_messages.go:235, "makes startup/backfill ordering safe").      *)
MarksMatchTombs == marked = archived \cap tombs

(* Every message of the alert being sent is a recorded deletion that is    *)
(* due, still archived and not yet reported, although updates, prunes and  *)
(* the clock went on since the outbox read it: no alert repeats a deletion *)
(* that was marked, and none names a message that is no longer there.      *)
InFlightIsPending ==
  \A m \in flush.rows : m \in Pending /\ m \in archived /\ wait[m] = 0

(* A deletion is written down as reported only after an alert that named   *)
(* the message reached the owner, whatever failed in between.              *)
ReportedWasTold == notified \subseteq told

(* The button of a summary whose delivery was acknowledged finds its       *)
(* alert, with the ids of a summary that was really shown to the owner,    *)
(* until retention ends (handleDeletionShowCallback looks the alert up by  *)
(* id; texts pruned since are left out of what it shows).                  *)
AckedButtonOpens ==
  \A a \in acked : /\ a \in rows /\ covers[a] \subseteq told
                   /\ Cardinality(covers[a]) > 1

(* No prune, edit or replayed snapshot removes an archived message whose   *)
(* deletion is still to be reported, or changes its archived text.         *)
PendingKept ==
  [][\A m \in archived \cap Pending : m \in archived' /\ ver'[m] = ver[m]]_vars

(* The text of a row is not replaced by a version with an older date, nor  *)
(* an edited one by the original of the same second, from whichever of the *)
(* update stream and a stale history page it comes.                        *)
NoOlderRevision ==
  [][\A m \in archived \cap archived' :
       ver'[m] # ver[m] =>
         /\ stamp[m][ver'[m]] >= stamp[m][ver[m]]
         /\ ver'[m] > 1]_vars

(* The deletion of an archived message is eventually reported, also when   *)
(* the alerts of another dialog fail again and again, each time ending the *)
(* pass, and when an attachment never finishes.                            *)
EventuallyReported ==
  \A m \in {k \in Msgs : PeerOf[k] \notin Refused} :
    (m \in archived \cap Pending) ~> (m \in notified)

-----------------------------------------------------------------------------
(* The archive keeps the promise made for each message.                    *)

MessageStatus(m) ==
  IF m \notin archived THEN "absent"
  ELSE IF m \notin tombs THEN "live"
  ELSE IF m \notin notified THEN "pending" ELSE "reported"

Promise == INSTANCE DeletionPromise
  WITH Versions <- 1..MaxVer, status <- [m \in Msgs |-> MessageStatus(m)],
       text <- ver, told <- told

KeepsPromise == Promise!Spec
==============================================================================
