------------------------ MODULE DeletionArchiveProofs ------------------------
(* Proofs about DeletionArchive, for every value of its constants.         *)
EXTENDS DeletionArchive, TLAPS

-----------------------------------------------------------------------------
(* Types.                                                                  *)

LEMMA OlderType == \A t \in 0..MaxAge : Older(t) \in 0..MaxAge /\ Older(t) >= t
BY TimesAssumption DEF Older

LEMMA IdleType == FlushIdle \in FlushStates /\ FillIdle \in FillStates
BY LimitsAssumption, TimesAssumption DEF FlushIdle, FillIdle, FlushStates, FillStates, NoPage

LEMMA TypeInit == Init => TypeOK
<1> SUFFICES ASSUME Init PROVE TypeOK
  OBVIOUS
<1>1. flush = FlushIdle /\ fill = FillIdle /\ flush.pc = "idle"
  BY DEF Init, FlushIdle
<1> QED
  BY <1>1, IdleType, LimitsAssumption, TimesAssumption DEF Init, TypeOK

(* What the actions are made of keeps its type.                            *)
LEMMA UpsertType ==
  ASSUME TypeOK, NEW m \in Msgs, NEW v \in 1..MaxVer, ArchivePrivateMessage(m, v)
  PROVE  archived' \subseteq Msgs /\ marked' \subseteq Msgs /\ ver' \in [Msgs -> 0..MaxVer]
<1>1. CASE UpsertPrivateMessage(m, v)
  <2>1. archived' = archived \cup {m} /\ (marked' = marked \/ marked' = marked \cup {m})
    BY <1>1, Zenon DEF UpsertPrivateMessage
  <2>2. ver' = ver \/ ver' = [ver EXCEPT ![m] = v]
    BY <1>1 DEF UpsertPrivateMessage
  <2>3. archived \subseteq Msgs /\ marked \subseteq Msgs
    BY DEF TypeOK
  <2>4. archived' \subseteq Msgs /\ marked' \subseteq Msgs
    BY <2>1, <2>3
  <2>5. ver \in [Msgs -> 0..MaxVer] /\ v \in 0..MaxVer
    BY LimitsAssumption DEF TypeOK
  <2>6. ver' \in [Msgs -> 0..MaxVer]
    BY <2>2, <2>5
  <2> QED
    BY <2>4, <2>6
<1>2. CASE UNCHANGED messageVars
  BY <1>2 DEF TypeOK, messageVars
<1> QED
  BY <1>1, <1>2 DEF ArchivePrivateMessage

LEMMA DialogType ==
  ASSUME TypeOK, NEW p \in Peers, UpsertPrivateDialog(p)
  PROVE  dialog' \in [Peers -> {"unknown", "new", "seeded"}]
BY DEF TypeOK, UpsertPrivateDialog

LEMMA PruneType ==
  ASSUME TypeOK, PrunePrivateArchive
  PROVE  /\ archived' \subseteq Msgs /\ marked' \subseteq Msgs
         /\ ver' \in [Msgs -> 0..MaxVer]
         /\ tombs' \subseteq Msgs /\ notified' \subseteq Msgs
         /\ obsAge' \in [Msgs -> 0..MaxAge]
         /\ attempts' \in [Msgs -> 0..MaxAttempts]
         /\ wait' \in [Msgs -> 0..MaxAge]
         /\ rows' \subseteq AlertIds
         /\ covers' \in [AlertIds -> SUBSET Msgs]
         /\ \A a \in AlertIds : covers'[a] # {} <=> a \in rows'
         /\ rowAge' \in [AlertIds -> 0..MaxAge]
         /\ buttons' \subseteq AlertIds /\ acked' \subseteq AlertIds
<1> DEFINE dropped == Outdated \cup OverCap
           oldTombs == {m \in tombs : /\ obsAge[m] > Retention
                                      /\ m \in notified \/ m \notin archived \ dropped}
<1>1. /\ archived' = archived \ dropped /\ marked' = marked \ dropped
      /\ tombs' = tombs \ oldTombs /\ notified' = notified \ oldTombs
      /\ rows' = rows \ OldAlerts
      /\ buttons' \subseteq buttons /\ acked' \subseteq acked
  BY DEF PrunePrivateArchive
<1>2. ver' = [m \in Msgs |-> IF m \in dropped THEN 0 ELSE ver[m]]
  BY DEF PrunePrivateArchive
<1>3. /\ obsAge' = [m \in Msgs |-> IF m \in oldTombs THEN 0 ELSE obsAge[m]]
      /\ attempts' = [m \in Msgs |-> IF m \in oldTombs THEN 0 ELSE attempts[m]]
      /\ wait' = [m \in Msgs |-> IF m \in oldTombs THEN 0 ELSE wait[m]]
  BY DEF PrunePrivateArchive
<1>4. /\ covers' = [a \in AlertIds |-> IF a \in OldAlerts THEN {} ELSE covers[a]]
      /\ rowAge' = [a \in AlertIds |-> IF a \in OldAlerts THEN 0 ELSE rowAge[a]]
  BY DEF PrunePrivateArchive, Cascade
<1> HIDE DEF dropped, oldTombs
<1>5. ver' \in [Msgs -> 0..MaxVer]
  BY <1>2, LimitsAssumption DEF TypeOK
<1>6. /\ obsAge' \in [Msgs -> 0..MaxAge] /\ attempts' \in [Msgs -> 0..MaxAttempts]
      /\ wait' \in [Msgs -> 0..MaxAge]
  BY <1>3, LimitsAssumption, TimesAssumption DEF TypeOK
<1>7. covers' \in [AlertIds -> SUBSET Msgs] /\ rowAge' \in [AlertIds -> 0..MaxAge]
  BY <1>4, TimesAssumption DEF TypeOK
<1>8. \A a \in AlertIds : covers'[a] # {} <=> a \in rows'
  BY <1>1, <1>4 DEF TypeOK
<1> QED
  BY <1>1, <1>5, <1>6, <1>7, <1>8 DEF TypeOK

LEMMA FlushType ==
  ASSUME flush \in FlushStates, NEW p
  PROVE  AfterBatch(p) \in FlushStates /\ AfterBatch(p).pc \in {"idle", "next"}
<1> DEFINE rest == flush.rows \ BatchOf(flush.rows, p)
           next == [flush EXCEPT !.pc = "next", !.rows = rest, !.peer = NoPeer,
                                 !.alert = NoAlert]
<1>1. rest \subseteq Msgs
  BY DEF FlushStates
<1>2. next \in FlushStates /\ next.pc = "next"
  BY <1>1 DEF FlushStates
<1>3. FlushIdle.pc = "idle"
  BY DEF FlushIdle
<1> QED
  BY <1>2, <1>3, IdleType DEF AfterBatch

LEMMA FillType ==
  ASSUME fill \in FillStates, NEW left \in SUBSET Peers
  PROVE  FillThrough(left) \in FillStates
<1>1. [FillIdle EXCEPT !.pc = "dialogs", !.peers = left, !.cut = fill.cut] \in FillStates
  BY IdleType DEF FillStates
<1> QED
  BY <1>1, IdleType DEF FillThrough

LEMMA FillStartType ==
  ASSUME FillStart
  PROVE  fill' \in FillStates
<1>1. Unseeded \in SUBSET Peers /\ Expired \in SUBSET Msgs
  BY DEF Unseeded, Expired
<1>2. [FillIdle EXCEPT !.pc = "dialogs", !.peers = Unseeded, !.cut = Expired] \in FillStates
  BY <1>1, IdleType DEF FillStates
<1> QED
  BY <1>2, IdleType DEF FillStart

LEMMA PageType ==
  ASSUME TypeOK, NEW p \in Peers
  PROVE  HistoryPage(p) \in [Msgs -> 0..MaxVer]
BY LimitsAssumption DEF TypeOK, HistoryPage

LEMMA PageLessType ==
  ASSUME fill \in FillStates, NEW m \in Msgs
  PROVE  [fill EXCEPT !.page[m] = 0] \in FillStates
<1>1. fill.page \in [Msgs -> 0..MaxVer] /\ 0 \in 0..MaxVer
  BY LimitsAssumption DEF FillStates
<1>2. [fill.page EXCEPT ![m] = 0] \in [Msgs -> 0..MaxVer]
  BY <1>1
<1>3. [fill EXCEPT !.page = [fill.page EXCEPT ![m] = 0]] \in FillStates
  BY <1>2 DEF FillStates
<1>4. [fill EXCEPT !.page[m] = 0] = [fill EXCEPT !.page = [fill.page EXCEPT ![m] = 0]]
  BY DEF FillStates
<1> QED
  BY <1>3, <1>4

LEMMA FaultType ==
  ASSUME TypeOK, Fault
  PROVE  faults' \in 0..MaxFaults
BY LimitsAssumption DEF TypeOK, Fault

LEMMA RetryType ==
  ASSUME TypeOK, NEW m \in Msgs
  PROVE  RetryWait(attempts[m]) \in 0..MaxAge
<1>1. flush.elapsed \in Nat /\ attempts[m] \in 0..MaxAttempts
  BY DEF TypeOK, FlushStates
<1> DEFINE n == IF attempts[m] < MaxAttempts THEN attempts[m] + 1 ELSE MaxAttempts
<1>2. n \in 1..MaxAttempts
  BY <1>1, LimitsAssumption
<1>3. Backoff[n] \in 0..MaxAge
  BY <1>2, TimesAssumption
<1> HIDE DEF n
<1>4. (IF Backoff[n] > flush.elapsed THEN Backoff[n] - flush.elapsed ELSE 0) \in 0..MaxAge
  BY <1>1, <1>3, TimesAssumption
<1> QED
  BY <1>4 DEF RetryWait, n

(* Every step keeps the types.                                             *)
LEMMA TypeStep == TypeOK /\ [Next]_vars => TypeOK'
<1> SUFFICES ASSUME TypeOK, [Next]_vars PROVE TypeOK'
  OBVIOUS
<1> USE DEF dbVars, telegramVars, streamVars, messageVars, tombVars, alertVars, chatVars
<1>1. ASSUME NEW m \in Msgs, Send(m) PROVE TypeOK'
  <2>1. latest' \in [Msgs -> 0..MaxVer]
    BY <1>1, LimitsAssumption DEF Send, TypeOK
  <2> QED
    BY <1>1, <2>1 DEF Send, TypeOK
<1>2. ASSUME NEW m \in Msgs, NEW later \in {0, 1}, Edit(m, later) PROVE TypeOK'
  <2>1. /\ latest \in [Msgs -> 0..MaxVer] /\ stamp \in [Msgs -> [1..MaxVer -> Nat]]
        /\ MaxVer \in Nat
    BY LimitsAssumption DEF TypeOK
  <2>2. latest[m] \in 1..MaxVer /\ latest[m] + 1 \in 1..MaxVer
    BY <1>2, <2>1 DEF Edit
  <2>3. latest' \in [Msgs -> 0..MaxVer]
    BY <1>2, <2>1, <2>2 DEF Edit
  <2> DEFINE date == stamp[m][latest[m]] + later
  <2>4. date \in Nat
    BY <2>1, <2>2
  <2>5. stamp' = [stamp EXCEPT ![m] = [@ EXCEPT ![latest[m] + 1] = date]]
    BY <1>2, Zenon DEF Edit
  <2> HIDE DEF date
  <2>6. [stamp[m] EXCEPT ![latest[m] + 1] = date] \in [1..MaxVer -> Nat]
    BY <2>1, <2>2, <2>4
  <2>7. stamp' \in [Msgs -> [1..MaxVer -> Nat]]
    BY <2>1, <2>5, <2>6
  <2> QED
    BY <1>2, <2>3, <2>7 DEF Edit, TypeOK
<1>3. ASSUME NEW m \in Msgs, Delete(m) PROVE TypeOK'
  BY <1>3 DEF Delete, TypeOK
<1>4. ASSUME Tick PROVE TypeOK'
  <2>1. age' \in [Msgs -> 0..MaxAge] /\ obsAge' \in [Msgs -> 0..MaxAge]
        /\ rowAge' \in [AlertIds -> 0..MaxAge]
    BY <1>4, OlderType, TimesAssumption DEF Tick, TypeOK
  <2>2. wait' \in [Msgs -> 0..MaxAge]
    BY <1>4, TimesAssumption DEF Tick, TypeOK
  <2>3. flush.elapsed \in 0..PassTime
    BY DEF TypeOK, FlushStates
  <2>4. (IF flush.pc = "idle" THEN 0 ELSE flush.elapsed + 1) \in 0..PassTime
    BY <1>4, <2>3, TimesAssumption DEF Tick
  <2>5. flush' \in FlushStates
    BY <1>4, <2>4 DEF Tick, TypeOK, FlushStates
  <2> QED
    BY <1>4, <2>1, <2>2, <2>5 DEF Tick, TypeOK
<1>5. ASSUME NEW m \in Msgs, NEW v \in 1..MaxVer, NEW u \in BOOLEAN, LiveMessage(m, v, u)
      PROVE  TypeOK'
  <2>1. archived' \subseteq Msgs /\ marked' \subseteq Msgs /\ ver' \in [Msgs -> 0..MaxVer]
    BY <1>5, UpsertType DEF LiveMessage
  <2>2. PeerOf[m] \in Peers
    BY PeersAssumption
  <2>3. dialog' \in [Peers -> {"unknown", "new", "seeded"}]
    <3>1. CASE u
      BY <1>5, <3>1, <2>2, DialogType DEF LiveMessage
    <3>2. CASE ~u
      BY <1>5, <3>2 DEF LiveMessage, TypeOK
    <3> QED
      BY <3>1, <3>2
  <2>4. seen' \in [Msgs -> 1..MaxVer]
    BY <1>5 DEF LiveMessage, TypeOK
  <2>5. media' \subseteq Msgs
    BY <1>5 DEF LiveMessage, TypeOK
  <2> QED
    BY <1>5, <2>1, <2>3, <2>4, <2>5 DEF LiveMessage, TypeOK
<1>6. ASSUME NEW S \in SUBSET Msgs, HearDeletion(S) PROVE TypeOK'
  BY <1>6 DEF HearDeletion, TypeOK
<1>7. ASSUME NEW m \in Msgs, MediaDone(m) PROVE TypeOK'
  BY <1>7 DEF MediaDone, TypeOK
<1>8. ASSUME NEW p \in Peers, RememberDialog(p) PROVE TypeOK'
  BY <1>8, DialogType DEF RememberDialog, TypeOK
<1>9. ASSUME PassStart PROVE TypeOK'
  BY <1>9, PruneType, FillStartType DEF PassStart, TypeOK
<1>10. ASSUME PassStartPruneFails PROVE TypeOK'
  BY <1>10, FillStartType, FaultType DEF PassStartPruneFails, TypeOK
<1>11. ASSUME NEW p \in Peers, FillFetch(p) PROVE TypeOK'
  <2>1. HistoryPage(p) \in [Msgs -> 0..MaxVer]
    BY PageType
  <2>2. fill' \in FillStates
    BY <1>11, <2>1 DEF FillFetch, TypeOK, FillStates
  <2> QED
    BY <1>11, <2>2 DEF FillFetch, TypeOK
<1>12. ASSUME NEW p \in Peers, FillFetchFails(p) PROVE TypeOK'
  <2>1. fill.peers \ {p} \in SUBSET Peers
    BY DEF TypeOK, FillStates
  <2>2. fill' \in FillStates
    BY <1>12, <2>1, FillType DEF FillFetchFails, TypeOK
  <2> QED
    BY <1>12, <2>2, FaultType DEF FillFetchFails, TypeOK
<1>13. ASSUME NEW m \in Msgs, FillArchive(m) PROVE TypeOK'
  <2>1. fill.page[m] \in 1..MaxVer
    BY <1>13, LimitsAssumption DEF FillArchive, NextOfPage, TypeOK, FillStates
  <2>2. archived' \subseteq Msgs /\ marked' \subseteq Msgs /\ ver' \in [Msgs -> 0..MaxVer]
    BY <1>13, <2>1, UpsertType DEF FillArchive
  <2>3. dialog' \in [Peers -> {"unknown", "new", "seeded"}]
    BY <1>13 DEF FillArchive, UpsertPrivateDialog, TypeOK
  <2>4. fill' \in FillStates
    BY <1>13, PageLessType DEF FillArchive, TypeOK
  <2> QED
    BY <1>13, <2>2, <2>3, <2>4 DEF FillArchive, TypeOK
<1>14. ASSUME NEW m \in Msgs, FillArchiveFails(m) PROVE TypeOK'
  <2>1. [fill EXCEPT !.page[m] = 0] \in FillStates
    BY PageLessType DEF TypeOK
  <2>2. fill' = [[fill EXCEPT !.page[m] = 0] EXCEPT !.failed = TRUE]
    BY <1>14, Zenon DEF FillArchiveFails
  <2>3. fill' \in FillStates
    BY <2>1, <2>2 DEF FillStates
  <2> QED
    BY <1>14, <2>3, FaultType DEF FillArchiveFails, TypeOK
<1>15. ASSUME FillDone PROVE TypeOK'
  <2>1. fill.peers \in SUBSET Peers /\ fill \in FillStates
    BY DEF TypeOK, FillStates
  <2>2. fill' \in FillStates
    BY <1>15, <2>1, FillType DEF FillDone
  <2>3. dialog' \in [Peers -> {"unknown", "new", "seeded"}]
    BY <1>15 DEF FillDone, TypeOK
  <2> QED
    BY <1>15, <2>2, <2>3 DEF FillDone, TypeOK
<1>16. ASSUME NEW R \in SUBSET Msgs, FlushList(R) PROVE TypeOK'
  <2> DEFINE quiet == {m \in R : ~StillArriving(R, PeerOf[m])}
             young == {p \in Peers : Young(quiet, p)}
  <2>1. quiet \in SUBSET Msgs /\ young \in SUBSET Peers
    OBVIOUS
  <2>2. flush' = [FlushIdle EXCEPT !.pc = "next", !.rows = quiet, !.young = young]
    BY <1>16 DEF FlushList
  <2> HIDE DEF quiet, young
  <2>3. flush' \in FlushStates /\ flush'.pc = "next"
    BY <2>1, <2>2, IdleType DEF FlushStates
  <2> QED
    BY <1>16, <2>3 DEF FlushList, TypeOK
<1>17. ASSUME NEW p \in Peers, FlushSkip(p) PROVE TypeOK'
  <2>1. flush' \in FlushStates /\ flush'.pc \in {"idle", "next"}
    BY <1>17, FlushType DEF FlushSkip, TypeOK
  <2> QED
    BY <1>17, <2>1 DEF FlushSkip, TypeOK
<1>18. ASSUME NEW p \in Peers, NEW a \in AlertIds, FlushAlert(p, a) PROVE TypeOK'
  <2>1. flush' \in FlushStates
    BY <1>18 DEF FlushAlert, TypeOK, FlushStates
  <2>2. flush.elapsed \in 0..MaxAge
    BY TimesAssumption DEF TypeOK, FlushStates
  <2>3. BatchOf(flush.rows, p) \in SUBSET Msgs
    BY DEF TypeOK, FlushStates, BatchOf
  <2>4. covers' \in [AlertIds -> SUBSET Msgs] /\ rowAge' \in [AlertIds -> 0..MaxAge]
    BY <1>18, <2>2, <2>3 DEF FlushAlert, TypeOK
  <2>5. BatchOf(flush.rows, p) # {}
    BY <1>18 DEF FlushAlert, NextBatch
  <2>6. \A b \in AlertIds : covers'[b] # {} <=> b \in rows'
    BY <1>18, <2>5 DEF FlushAlert, TypeOK
  <2>7. rows' \subseteq AlertIds /\ flush'.alert \in AlertIds
    BY <1>18, <2>1 DEF FlushAlert, TypeOK, FlushStates
  <2>8. /\ UNCHANGED <<latest, stamp, gone, age, seen, heard, dialog, archived, ver, marked>>
        /\ UNCHANGED <<tombs, notified, obsAge, attempts, wait, told, buttons, acked>>
        /\ UNCHANGED <<media, fill, faults>>
    BY <1>18 DEF FlushAlert
  <2> QED
    BY <2>1, <2>4, <2>6, <2>7, <2>8 DEF TypeOK
<1>19. ASSUME FlushSend \/ FlushSendAnswerLost \/ FlushSendFails PROVE TypeOK'
  <2>1. flush.alert \in AlertIds /\ Batch \subseteq Msgs /\ flush \in FlushStates
    BY <1>19 DEF FlushSend, FlushSendAnswerLost, FlushSendFails, TypeOK, FlushStates, Batch,
                 BatchOf
  <2>2. PICK pc \in {"mark", "drop"} : flush' = [flush EXCEPT !.pc = pc]
    BY <1>19 DEF FlushSend, FlushSendAnswerLost, FlushSendFails, AfterSendError
  <2>3. flush' \in FlushStates /\ flush'.alert \in AlertIds
    BY <2>1, <2>2 DEF FlushStates
  <2>4. told' \subseteq Msgs /\ buttons' \subseteq AlertIds /\ acked' \subseteq AlertIds
    BY <1>19, <2>1 DEF FlushSend, FlushSendAnswerLost, FlushSendFails, Deliver, TypeOK
  <2>5. faults' \in 0..MaxFaults
    BY <1>19, FaultType DEF FlushSend, FlushSendAnswerLost, FlushSendFails, TypeOK
  <2> QED
    BY <1>19, <2>3, <2>4, <2>5
       DEF FlushSend, FlushSendAnswerLost, FlushSendFails, TypeOK
<1>20. ASSUME MarkPrivateDeletionNotified PROVE TypeOK'
  <2>1. flush' \in FlushStates /\ flush'.pc \in {"idle", "next"}
    BY <1>20, FlushType DEF TypeOK, MarkPrivateDeletionNotified
  <2>2. attempts' \in [Msgs -> 0..MaxAttempts]
    BY <1>20, LimitsAssumption DEF MarkPrivateDeletionNotified, TypeOK
  <2>3. wait' \in [Msgs -> 0..MaxAge]
    BY <1>20, TimesAssumption DEF MarkPrivateDeletionNotified, TypeOK
  <2> QED
    BY <1>20, <2>1, <2>2, <2>3 DEF MarkPrivateDeletionNotified, TypeOK
<1>21. ASSUME DeletePrivateDeletionAlert PROVE TypeOK'
  <2>1. flush' \in FlushStates /\ flush'.alert \in AlertIds
    BY <1>21 DEF DeletePrivateDeletionAlert, TypeOK, FlushStates
  <2>2. covers' \in [AlertIds -> SUBSET Msgs] /\ rowAge' \in [AlertIds -> 0..MaxAge]
    BY <1>21, TimesAssumption DEF DeletePrivateDeletionAlert, Cascade, TypeOK
  <2>3. \A b \in AlertIds : covers'[b] # {} <=> b \in rows'
    BY <1>21 DEF DeletePrivateDeletionAlert, Cascade, TypeOK
  <2> QED
    BY <1>21, <2>1, <2>2, <2>3 DEF DeletePrivateDeletionAlert, TypeOK
<1>22. ASSUME MarkPrivateDeletionFailed PROVE TypeOK'
  <2>1. attempts' \in [Msgs -> 0..MaxAttempts]
    BY <1>22, LimitsAssumption DEF MarkPrivateDeletionFailed, TypeOK
  <2>2. wait' \in [Msgs -> 0..MaxAge]
    <3>1. PICK most \in Batch : wait' = [m \in Msgs |-> IF m \in Batch \cap tombs
                                       THEN RetryWait(attempts[most]) ELSE wait[m]]
      BY <1>22 DEF MarkPrivateDeletionFailed
    <3>2. RetryWait(attempts[most]) \in 0..MaxAge
      BY RetryType DEF TypeOK, FlushStates, Batch, BatchOf
    <3> QED
      BY <3>1, <3>2 DEF TypeOK
  <2>3. flush' \in FlushStates /\ flush'.pc = "idle"
    BY <1>22, IdleType DEF MarkPrivateDeletionFailed, FlushIdle
  <2> QED
    BY <1>22, <2>1, <2>2, <2>3 DEF MarkPrivateDeletionFailed, TypeOK
<1>23. ASSUME FlushStatementFails PROVE TypeOK'
  <2>1. flush' = FlushIdle \/ (flush.pc = "drop" /\ flush' = [flush EXCEPT !.pc = "fail"])
    BY <1>23 DEF FlushStatementFails
  <2>2. flush' \in FlushStates
    BY <2>1, IdleType DEF TypeOK, FlushStates
  <2>3. flush'.pc \in {"send", "mark", "drop", "fail"} => flush'.alert \in AlertIds
    <3>1. FlushIdle.pc = "idle"
      BY DEF FlushIdle
    <3>2. flush.pc = "drop" => flush.alert \in AlertIds /\ flush \in FlushStates
      BY DEF TypeOK
    <3> QED
      BY <2>1, <3>1, <3>2 DEF FlushStates
  <2> QED
    BY <1>23, <2>2, <2>3, FaultType DEF FlushStatementFails, TypeOK
<1>24. ASSUME Restart PROVE TypeOK'
  <2>1. flush' = FlushIdle /\ fill' = FillIdle /\ flush'.pc = "idle"
    BY <1>24 DEF Restart, FlushIdle
  <2> QED
    BY <1>24, <2>1, IdleType, FaultType DEF Restart, TypeOK
<1>25. ASSUME UNCHANGED vars PROVE TypeOK'
  BY <1>25 DEF vars, TypeOK
<1> QED
  BY <1>1, <1>2, <1>3, <1>4, <1>5, <1>6, <1>7, <1>8, <1>9, <1>10, <1>11, <1>12, <1>13,
     <1>14, <1>15, <1>16, <1>17, <1>18, <1>19, <1>20, <1>21, <1>22, <1>23, <1>24, <1>25
     DEF Next, Environment, Telegram, Handler, Maintenance, Outbox

(* Every variable keeps its type, for every number of dialogs, messages    *)
(* and faults and every setting of the periods and limits.                 *)
THEOREM TypeCorrect == Spec => []TypeOK
BY TypeInit, TypeStep, PTL DEF Spec

-----------------------------------------------------------------------------
(* The inductive invariant.  The safety invariants of the archive are not  *)
(* inductive one by one: that a prune never takes the tombstone of a row   *)
(* it keeps needs the ages of the two, that a deletion is reported only    *)
(* after it was told needs what the outbox holds between two steps, and    *)
(* that a message is archived before it is reported needs that no page     *)
(* fetched before a prune is still being archived after it.                *)
AgesOK ==
  /\ \A m \in Msgs : obsAge[m] <= age[m]
  /\ \A m \in Msgs \ tombs : obsAge[m] = 0
  /\ tombs \subseteq heard /\ heard \subseteq gone
  /\ \A m \in gone : latest[m] > 0
ReportedOK == notified \subseteq tombs \cap told
OutboxOK ==
  /\ InFlightIsPending
  /\ flush.pc = "mark" => Batch \subseteq told
PageOK ==
  /\ fill.pc # "page" => fill.page = NoPage
  /\ \A m \in notified \ archived : fill.page[m] = 0
IInv == TypeOK /\ AgesOK /\ MarksMatchTombs /\ ReportedOK /\ OutboxOK /\ PageOK

LEMMA InvInit == Init => IInv
<1> SUFFICES ASSUME Init PROVE IInv
  OBVIOUS
<1>1. TypeOK
  BY TypeInit
<1>2. flush = FlushIdle /\ flush.rows = {} /\ flush.pc = "idle" /\ fill = FillIdle
      /\ fill.page = NoPage
  BY DEF Init, FlushIdle, FillIdle
<1> QED
  BY <1>1, <1>2 DEF Init, IInv, AgesOK, MarksMatchTombs, ReportedOK, OutboxOK, PageOK,
                    InFlightIsPending

(* What the steps of each process leave alone.                             *)
LEMMA TelegramFrame ==
  ASSUME NEW m \in Msgs, Send(m) \/ Edit(m, 0) \/ Edit(m, 1) \/ Delete(m)
  PROVE  UNCHANGED <<streamVars, dbVars, chatVars, media, flush, fill>>
BY DEF Send, Edit, Delete

LEMMA OutboxFrame ==
  ASSUME Outbox
  PROVE  UNCHANGED <<telegramVars, streamVars, dialog, messageVars, tombs, obsAge, media, fill>>
BY DEF Outbox, FlushList, FlushSkip, FlushAlert, FlushSend, FlushSendAnswerLost,
       FlushSendFails, MarkPrivateDeletionNotified, DeletePrivateDeletionAlert,
       MarkPrivateDeletionFailed, FlushStatementFails, dbVars, tombVars

LEMMA MaintenanceFrame ==
  ASSUME Maintenance
  PROVE  /\ UNCHANGED <<telegramVars, streamVars, told, media, flush>>
         /\ PassStart \/ UNCHANGED <<tombVars, alertVars, chatVars>>
BY DEF Maintenance, RememberDialog, FillFetch, FillFetchFails, PassStart,
       PassStartPruneFails, FillArchive, FillArchiveFails, FillDone, dbVars, chatVars

(* What a prune drops: no message that is still to be reported, and no     *)
(* tombstone of a message that stays.                                      *)
LEMMA PruneKeeps ==
  ASSUME IInv, PrunePrivateArchive
  PROVE  /\ \E D \in SUBSET (archived \ Pending) :
              /\ archived' = archived \ D /\ marked' = marked \ D
              /\ ver' = [m \in Msgs |-> IF m \in D THEN 0 ELSE ver[m]]
         /\ \E O \in SUBSET tombs :
              /\ O \cap archived' = {}
              /\ tombs' = tombs \ O /\ notified' = notified \ O
              /\ obsAge' = [m \in Msgs |-> IF m \in O THEN 0 ELSE obsAge[m]]
              /\ wait' = [m \in Msgs |-> IF m \in O THEN 0 ELSE wait[m]]
<1> DEFINE D == Outdated \cup OverCap
           O == {m \in tombs : /\ obsAge[m] > Retention
                               /\ m \in notified \/ m \notin archived \ D}
<1>1. D \in SUBSET (archived \ Pending)
  BY DEF Outdated, OverCap
<1>2. /\ archived' = archived \ D /\ marked' = marked \ D
      /\ ver' = [m \in Msgs |-> IF m \in D THEN 0 ELSE ver[m]]
  BY DEF PrunePrivateArchive
<1>3. /\ tombs' = tombs \ O /\ notified' = notified \ O
      /\ obsAge' = [m \in Msgs |-> IF m \in O THEN 0 ELSE obsAge[m]]
      /\ wait' = [m \in Msgs |-> IF m \in O THEN 0 ELSE wait[m]]
  BY DEF PrunePrivateArchive
<1>4. ASSUME NEW m \in O, m \in archived \ D PROVE FALSE
  <2>1. m \in Msgs /\ m \in notified /\ obsAge[m] > Retention
    BY <1>4 DEF IInv, TypeOK
  <2>2. obsAge[m] \in Nat /\ age[m] \in Nat /\ obsAge[m] <= age[m] /\ Retention \in Nat
    BY <2>1, TimesAssumption DEF IInv, TypeOK, AgesOK
  <2>3. m \in Expired
    BY <2>1, <2>2 DEF Expired
  <2>4. m \in Outdated
    BY <2>1, <2>3, <1>4 DEF Outdated, Pending
  <2> QED
    BY <2>4, <1>4
<1> QED
  BY <1>1, <1>2, <1>3, <1>4, Zenon

LEMMA AgesStep == IInv /\ [Next]_vars => AgesOK'
<1> SUFFICES ASSUME IInv, [Next]_vars PROVE AgesOK'
  OBVIOUS
<1> USE DEF AgesOK, telegramVars, streamVars, messageVars, tombVars
<1>1. /\ \A m \in Msgs : obsAge[m] <= age[m] /\ obsAge[m] \in 0..MaxAge /\ age[m] \in 0..MaxAge
      /\ \A m \in Msgs \ tombs : obsAge[m] = 0
      /\ tombs \subseteq heard /\ heard \subseteq gone /\ gone \subseteq Msgs
      /\ \A m \in gone : latest[m] > 0
      /\ latest \in [Msgs -> 0..MaxVer] /\ MaxVer \in Nat
      /\ MaxAge \in Nat
  BY LimitsAssumption, TimesAssumption DEF IInv, TypeOK
<1>2. ASSUME NEW m \in Msgs, Send(m) \/ Edit(m, 0) \/ Edit(m, 1) \/ Delete(m) PROVE AgesOK'
  <2>1. UNCHANGED <<obsAge, age, tombs, heard>>
    BY <1>2 DEF Send, Edit, Delete, dbVars
  <2>2. \A k \in Msgs : latest[k] > 0 => latest'[k] > 0
    BY <1>1, <1>2 DEF Send, Edit, Delete
  <2>3. gone' \subseteq gone \cup {m} /\ gone \subseteq gone' /\ (gone' # gone => latest[m] > 0)
    BY <1>2 DEF Send, Edit, Delete
  <2> QED
    BY <1>1, <2>1, <2>2, <2>3
<1>3. ASSUME Tick PROVE AgesOK'
  <2>1. UNCHANGED <<tombs, heard, gone, latest>>
    BY <1>3 DEF Tick
  <2>2. \A m \in Msgs : /\ age'[m] = IF latest[m] > 0 THEN Older(age[m]) ELSE 0
                        /\ obsAge'[m] = IF m \in tombs THEN Older(obsAge[m]) ELSE 0
    BY <1>3 DEF Tick
  <2>3. \A s, t \in 0..MaxAge : s <= t => Older(s) <= Older(t)
    BY <1>1 DEF Older
  <2>4. \A m \in Msgs : obsAge'[m] <= age'[m]
    <3> SUFFICES ASSUME NEW m \in Msgs PROVE obsAge'[m] <= age'[m]
      OBVIOUS
    <3>1. CASE m \in tombs
      BY <3>1, <1>1, <2>2, <2>3
    <3>2. CASE m \notin tombs
      BY <3>2, <1>1, <2>2, OlderType
    <3> QED
      BY <3>1, <3>2
  <2> QED
    BY <1>1, <2>1, <2>2, <2>4
<1>4. ASSUME Handler PROVE AgesOK'
  <2>1. UNCHANGED <<obsAge, age, gone, latest>>
    BY <1>4 DEF Handler, LiveMessage, HearDeletion, MediaDone, dbVars
  <2>2. \E S \in SUBSET gone : tombs' = tombs \cup S /\ heard' = heard \cup S
    <3>1. CASE \E S \in SUBSET Msgs : HearDeletion(S)
      BY <3>1 DEF HearDeletion
    <3>2. CASE UNCHANGED <<tombs, heard>>
      <4> WITNESS {} \in SUBSET gone
      <4> QED
        BY <3>2
    <3>3. CASE ~\E S \in SUBSET Msgs : HearDeletion(S)
      BY <1>4, <3>2, <3>3 DEF Handler, LiveMessage, MediaDone, dbVars
    <3> QED
      BY <3>1, <3>3
  <2> QED
    BY <1>1, <2>1, <2>2
<1>5. ASSUME Maintenance PROVE AgesOK'
  <2>1. CASE PassStart
    <3>1. PICK O \in SUBSET tombs :
            /\ tombs' = tombs \ O
            /\ obsAge' = [m \in Msgs |-> IF m \in O THEN 0 ELSE obsAge[m]]
      BY <2>1, PruneKeeps DEF PassStart
    <3> QED
      BY <1>1, <1>5, <3>1, MaintenanceFrame
  <2>2. CASE ~PassStart
    BY <1>1, <1>5, <2>2, MaintenanceFrame
  <2> QED
    BY <2>1, <2>2
<1>6. ASSUME Outbox PROVE AgesOK'
  BY <1>1, <1>6, OutboxFrame
<1>7. ASSUME Restart \/ UNCHANGED vars PROVE AgesOK'
  BY <1>1, <1>7 DEF Restart, vars, dbVars
<1> QED
  BY <1>2, <1>3, <1>4, <1>5, <1>6, <1>7 DEF Next, Environment, Telegram

LEMMA MarksStep == IInv /\ [Next]_vars => MarksMatchTombs'
<1> SUFFICES ASSUME IInv, [Next]_vars PROVE MarksMatchTombs'
  OBVIOUS
<1> USE DEF MarksMatchTombs, messageVars, tombVars, dbVars
<1>1. marked = archived \cap tombs
  BY DEF IInv
<1>2. ASSUME NEW m, NEW v, ArchivePrivateMessage(m, v), tombs' = tombs PROVE MarksMatchTombs'
  <2>1. CASE UpsertPrivateMessage(m, v)
    <3>1. archived' = archived \cup {m}
      BY <2>1 DEF UpsertPrivateMessage
    <3>2. marked' = IF m \notin archived /\ m \in tombs THEN marked \cup {m} ELSE marked
      BY <2>1 DEF UpsertPrivateMessage, BornDeleted
    <3> QED
      BY <1>1, <1>2, <3>1, <3>2
  <2>2. CASE UNCHANGED messageVars
    BY <1>1, <1>2, <2>2
  <2> QED
    BY <1>2, <2>1, <2>2 DEF ArchivePrivateMessage
<1>3. CASE Environment
  BY <1>1, <1>3 DEF Environment, Telegram, Send, Edit, Delete, Tick
<1>4. CASE Handler
  <2>1. ASSUME NEW S \in SUBSET Msgs, HearDeletion(S) PROVE MarksMatchTombs'
    BY <1>1, <2>1 DEF HearDeletion
  <2>2. ASSUME NEW m \in Msgs, NEW v \in 1..MaxVer, NEW u \in BOOLEAN, LiveMessage(m, v, u)
        PROVE  MarksMatchTombs'
    BY <2>2, <1>2 DEF LiveMessage
  <2>3. ASSUME NEW m \in Msgs, MediaDone(m) PROVE MarksMatchTombs'
    BY <1>1, <2>3 DEF MediaDone
  <2> QED
    BY <1>4, <2>1, <2>2, <2>3 DEF Handler
<1>5. CASE Maintenance
  <2>1. CASE PassStart
    <3>1. /\ \E D \in SUBSET (archived \ Pending) :
               archived' = archived \ D /\ marked' = marked \ D
          /\ \E O \in SUBSET tombs : O \cap archived' = {} /\ tombs' = tombs \ O
      BY <2>1, PruneKeeps DEF PassStart
    <3> QED
      BY <1>1, <3>1
  <2>2. ASSUME NEW m \in Msgs, FillArchive(m) PROVE MarksMatchTombs'
    BY <2>2, <1>2 DEF FillArchive
  <2>3. CASE UNCHANGED <<messageVars, tombs>>
    BY <1>1, <2>3
  <2> QED
    BY <1>5, <2>1, <2>2, <2>3 DEF Maintenance, RememberDialog, FillFetch, FillFetchFails,
       PassStartPruneFails, FillArchiveFails, FillDone
<1>6. CASE Outbox
  BY <1>1, <1>6, OutboxFrame
<1>7. CASE Restart \/ UNCHANGED vars
  BY <1>1, <1>7 DEF Restart, vars
<1> QED
  BY <1>3, <1>4, <1>5, <1>6, <1>7 DEF Next

LEMMA ReportedStep == IInv /\ [Next]_vars => ReportedOK'
<1> SUFFICES ASSUME IInv, [Next]_vars PROVE ReportedOK'
  OBVIOUS
<1> USE DEF ReportedOK, tombVars, chatVars, dbVars
<1>1. notified \subseteq tombs /\ notified \subseteq told
  BY DEF IInv
<1>2. CASE Environment
  BY <1>1, <1>2 DEF Environment, Telegram, Send, Edit, Delete, Tick
<1>3. CASE Handler
  BY <1>1, <1>3 DEF Handler, LiveMessage, HearDeletion, MediaDone
<1>4. CASE Maintenance
  <2>1. CASE PassStart
    <3>1. \E O \in SUBSET tombs : tombs' = tombs \ O /\ notified' = notified \ O
      BY <2>1, PruneKeeps DEF PassStart
    <3> QED
      BY <1>1, <1>4, <3>1, MaintenanceFrame
  <2>2. CASE ~PassStart
    BY <1>1, <1>4, <2>2, MaintenanceFrame
  <2> QED
    BY <2>1, <2>2
<1>5. CASE Outbox
  <2>1. CASE MarkPrivateDeletionNotified
    <3>1. Batch \subseteq told
      BY <2>1 DEF MarkPrivateDeletionNotified, IInv, OutboxOK
    <3> QED
      BY <1>1, <2>1, <3>1 DEF MarkPrivateDeletionNotified
  <2>2. CASE notified' = notified /\ told \subseteq told'
    BY <1>1, <1>5, <2>2, OutboxFrame
  <2> QED
    BY <1>5, <2>1, <2>2 DEF Outbox, FlushList, FlushSkip, FlushAlert, FlushSend,
       FlushSendAnswerLost, FlushSendFails, Deliver, DeletePrivateDeletionAlert,
       MarkPrivateDeletionFailed, FlushStatementFails
<1>6. CASE Restart \/ UNCHANGED vars
  BY <1>1, <1>6 DEF Restart, vars
<1> QED
  BY <1>2, <1>3, <1>4, <1>5, <1>6 DEF Next

(* A step that leaves the outbox's own state alone keeps what it holds     *)
(* pending, if it keeps those messages archived, unreported and due.       *)
LEMMA OutboxHeld ==
  ASSUME IInv, flush'.rows = flush.rows, flush'.pc = flush.pc, flush'.peer = flush.peer,
         told \subseteq told',
         \A m \in flush.rows : m \in Pending' /\ m \in archived' /\ wait'[m] = 0
  PROVE  OutboxOK'
<1>1. Batch' = Batch
  BY DEF Batch, BatchOf
<1> QED
  BY <1>1 DEF IInv, OutboxOK, InFlightIsPending

LEMMA IdleOutbox == ASSUME flush' = FlushIdle PROVE OutboxOK'
BY DEF FlushIdle, OutboxOK, InFlightIsPending

LEMMA LeftOutbox ==
  ASSUME IInv, NEW p, flush' = AfterBatch(p),
         \A m \in flush.rows \ BatchOf(flush.rows, p) :
            m \in Pending' /\ m \in archived' /\ wait'[m] = 0
  PROVE  OutboxOK'
<1> DEFINE rest == flush.rows \ BatchOf(flush.rows, p)
<1>1. CASE rest = {}
  BY <1>1, IdleOutbox DEF AfterBatch
<1>2. CASE rest # {}
  <2>1. flush' = [flush EXCEPT !.pc = "next", !.rows = rest, !.peer = NoPeer, !.alert = NoAlert]
    BY <1>2 DEF AfterBatch
  <2>2. flush \in FlushStates
    BY DEF IInv, TypeOK
  <2> HIDE DEF rest
  <2>3. flush'.rows = rest /\ flush'.pc = "next"
    BY <2>1, <2>2 DEF FlushStates
  <2> QED
    BY <2>3 DEF OutboxOK, InFlightIsPending, rest
<1> QED
  BY <1>1, <1>2

LEMMA OutboxStep == IInv /\ [Next]_vars => OutboxOK'
<1> SUFFICES ASSUME IInv, [Next]_vars PROVE OutboxOK'
  OBVIOUS
<1> USE DEF messageVars, tombVars, dbVars, chatVars
<1>1. /\ \A m \in flush.rows : m \in tombs /\ m \notin notified /\ m \in archived /\ wait[m] = 0
      /\ flush.rows \subseteq Msgs /\ flush \in FlushStates
      /\ wait \in [Msgs -> 0..MaxAge]
  BY DEF IInv, OutboxOK, InFlightIsPending, Pending, TypeOK, FlushStates
<1>2. ASSUME UNCHANGED <<flush, told, archived, tombs, notified, wait>> PROVE OutboxOK'
  BY <1>1, <1>2, OutboxHeld DEF Pending
<1>3. CASE Environment
  <2>1. CASE Tick
    <3>1. flush' = [flush EXCEPT !.elapsed = IF flush.pc = "idle" THEN 0 ELSE @ + 1]
          /\ UNCHANGED <<told, archived, tombs, notified>>
      BY <2>1 DEF Tick
    <3>2. \A m \in flush.rows : wait'[m] = 0
      BY <1>1, <2>1 DEF Tick
    <3>3. flush'.rows = flush.rows /\ flush'.pc = flush.pc /\ flush'.peer = flush.peer
      BY <3>1, <1>1 DEF FlushStates
    <3> QED
      BY <1>1, <3>1, <3>2, <3>3, OutboxHeld DEF Pending
  <2>2. CASE \E m \in Msgs : Send(m) \/ Edit(m, 0) \/ Edit(m, 1) \/ Delete(m)
    BY <2>2, <1>2, TelegramFrame
  <2> QED
    BY <1>3, <2>1, <2>2 DEF Environment, Telegram
<1>4. CASE Handler
  <2>1. UNCHANGED <<flush, told, notified, wait>> /\ tombs \subseteq tombs'
    BY <1>4 DEF Handler, LiveMessage, HearDeletion, MediaDone
  <2>2. archived \subseteq archived'
    BY <1>4 DEF Handler, LiveMessage, HearDeletion, MediaDone, ArchivePrivateMessage,
                UpsertPrivateMessage
  <2> QED
    BY <1>1, <2>1, <2>2, OutboxHeld DEF Pending
<1>5. CASE Maintenance
  <2>1. CASE PassStart
    <3>1. /\ \E D \in SUBSET (archived \ Pending) : archived' = archived \ D
          /\ \E O \in SUBSET tombs : /\ O \cap archived' = {}
                                     /\ tombs' = tombs \ O /\ notified' = notified \ O
                                     /\ wait' = [m \in Msgs |-> IF m \in O THEN 0 ELSE wait[m]]
      BY <2>1, PruneKeeps DEF PassStart
    <3>2. \A m \in flush.rows : m \in archived'
      BY <1>1, <3>1 DEF Pending
    <3>3. \A m \in flush.rows : m \in Pending' /\ wait'[m] = 0
      BY <1>1, <3>1, <3>2 DEF Pending
    <3>4. UNCHANGED <<flush, told>>
      BY <1>5, MaintenanceFrame
    <3> QED
      BY <3>2, <3>3, <3>4, OutboxHeld
  <2>2. CASE ~PassStart
    <3>1. UNCHANGED <<flush, told, tombs, notified, wait>>
      BY <1>5, <2>2, MaintenanceFrame
    <3>2. archived \subseteq archived'
      BY <1>5, <2>2 DEF Maintenance, RememberDialog, FillFetch, FillFetchFails,
         PassStartPruneFails, FillArchive, FillArchiveFails, FillDone,
         ArchivePrivateMessage, UpsertPrivateMessage
    <3> QED
      BY <1>1, <3>1, <3>2, OutboxHeld DEF Pending
  <2> QED
    BY <2>1, <2>2
<1>6. CASE Outbox
  <2> USE <1>1
  <2>1. UNCHANGED <<archived, tombs>>
    BY <1>6, OutboxFrame
  <2>2. ASSUME NEW R \in SUBSET Msgs, FlushList(R) PROVE OutboxOK'
    <3> DEFINE quiet == {m \in R : ~StillArriving(R, PeerOf[m])}
    <3>1. flush' = [FlushIdle EXCEPT !.pc = "next", !.rows = quiet,
                      !.young = {p \in Peers : Young(quiet, p)}]
      BY <2>2 DEF FlushList
    <3>2. flush'.rows = quiet /\ flush'.pc = "next"
      BY <3>1 DEF FlushIdle
    <3>3. \A m \in quiet : m \in Pending /\ m \in archived /\ wait[m] = 0
      BY <2>2 DEF FlushList, Listed, Due
    <3>4. UNCHANGED <<notified, wait>>
      BY <2>2 DEF FlushList
    <3> QED
      BY <2>1, <3>2, <3>3, <3>4 DEF OutboxOK, InFlightIsPending, Pending
  <2>3. ASSUME NEW p \in Peers, FlushSkip(p) PROVE OutboxOK'
    BY <2>1, <2>3, LeftOutbox DEF FlushSkip, Pending
  <2>4. ASSUME NEW p \in Peers, NEW a \in AlertIds, FlushAlert(p, a) PROVE OutboxOK'
    <3>1. flush'.rows = flush.rows /\ flush'.pc = "send" /\ UNCHANGED <<notified, wait>>
      BY <2>4 DEF FlushAlert, FlushStates
    <3> QED
      BY <2>1, <3>1 DEF OutboxOK, InFlightIsPending, Pending
  <2>5. CASE FlushSend
    <3>1. flush'.rows = flush.rows /\ flush'.peer = flush.peer /\ UNCHANGED <<notified, wait>>
      BY <2>5 DEF FlushSend, FlushStates
    <3>2. Batch' = Batch /\ told' = told \cup Batch
      BY <2>5, <3>1 DEF FlushSend, Deliver, Batch, BatchOf
    <3> QED
      BY <2>1, <3>1, <3>2 DEF OutboxOK, InFlightIsPending, Pending
  <2>6. CASE FlushSendAnswerLost \/ FlushSendFails \/ DeletePrivateDeletionAlert
    <3>1. flush'.rows = flush.rows /\ flush'.pc # "mark" /\ UNCHANGED <<notified, wait>>
      BY <2>6 DEF FlushSendAnswerLost, FlushSendFails, DeletePrivateDeletionAlert,
                  AfterSendError, FlushStates
    <3> QED
      BY <2>1, <3>1 DEF OutboxOK, InFlightIsPending, Pending
  <2>7. CASE MarkPrivateDeletionNotified
    <3>1. flush' = AfterBatch(flush.peer) /\ notified' = notified \cup (Batch \cap tombs)
          /\ wait' = [m \in Msgs |-> IF m \in Batch THEN 0 ELSE wait[m]]
      BY <2>7 DEF MarkPrivateDeletionNotified
    <3>2. \A m \in flush.rows \ BatchOf(flush.rows, flush.peer) :
             m \in Pending' /\ m \in archived' /\ wait'[m] = 0
      BY <2>1, <3>1 DEF Pending, Batch
    <3> QED
      BY <3>1, <3>2, LeftOutbox
  <2>8. CASE MarkPrivateDeletionFailed
    BY <2>8, IdleOutbox DEF MarkPrivateDeletionFailed
  <2>9. CASE FlushStatementFails
    <3>1. UNCHANGED <<notified, wait>>
      BY <2>9 DEF FlushStatementFails
    <3>2. CASE flush' = FlushIdle
      BY <3>2, IdleOutbox
    <3>3. CASE flush' = [flush EXCEPT !.pc = "fail"]
      <4>1. flush'.rows = flush.rows /\ flush'.pc = "fail"
        BY <3>3 DEF FlushStates
      <4> QED
        BY <2>1, <3>1, <4>1 DEF OutboxOK, InFlightIsPending, Pending
    <3> QED
      BY <2>9, <3>2, <3>3 DEF FlushStatementFails
  <2> QED
    BY <1>6, <2>2, <2>3, <2>4, <2>5, <2>6, <2>7, <2>8, <2>9 DEF Outbox
<1>7. CASE Restart
  BY <1>7, IdleOutbox DEF Restart
<1>8. CASE UNCHANGED vars
  BY <1>8, <1>2 DEF vars
<1> QED
  BY <1>3, <1>4, <1>5, <1>6, <1>7, <1>8 DEF Next

LEMMA IdlePage == FillIdle.page = NoPage /\ FillIdle.pc = "idle"
BY DEF FillIdle

LEMMA EmptyPage == ASSUME fill'.page = NoPage, notified' \subseteq Msgs PROVE PageOK'
BY DEF PageOK, NoPage

LEMMA ThroughPage == \A left : FillThrough(left).page = NoPage
BY DEF FillThrough, FillIdle

LEMMA PageStep == IInv /\ [Next]_vars => PageOK'
<1> SUFFICES ASSUME IInv, [Next]_vars PROVE PageOK'
  OBVIOUS
<1> USE DEF messageVars, tombVars, dbVars
<1>1. /\ notified \subseteq gone /\ notified \subseteq Msgs
      /\ \A m \in notified \ archived : fill.page[m] = 0
      /\ fill.pc # "page" => fill.page = NoPage
      /\ fill \in FillStates /\ flush.rows \subseteq archived
  BY DEF IInv, AgesOK, ReportedOK, PageOK, TypeOK, OutboxOK, InFlightIsPending
<1>2. notified' \subseteq Msgs
  BY TypeStep DEF IInv, TypeOK
<1>3. ASSUME UNCHANGED <<fill, notified>>, archived \subseteq archived' PROVE PageOK'
  BY <1>1, <1>3 DEF PageOK
<1>4. CASE Environment
  <2>1. UNCHANGED <<fill, notified, archived>>
    BY <1>4 DEF Environment, Telegram, Send, Edit, Delete, Tick
  <2> QED
    BY <2>1, <1>3
<1>5. CASE Handler
  <2>1. UNCHANGED <<fill, notified>>
    BY <1>5 DEF Handler, LiveMessage, HearDeletion, MediaDone
  <2>2. archived \subseteq archived'
    BY <1>5 DEF Handler, LiveMessage, HearDeletion, MediaDone, ArchivePrivateMessage,
                UpsertPrivateMessage
  <2> QED
    BY <2>1, <2>2, <1>3
<1>6. CASE Maintenance
  <2>1. CASE PassStart \/ PassStartPruneFails
    <3>1. fill'.page = NoPage
      BY <2>1, IdlePage DEF PassStart, PassStartPruneFails, FillStart, FillIdle
    <3> QED
      BY <3>1, <1>2, EmptyPage
  <2>2. ASSUME NEW p \in Peers, FillFetch(p) PROVE PageOK'
    <3>1. fill' = [fill EXCEPT !.pc = "page", !.peers = @ \ {p}, !.peer = p,
                     !.page = HistoryPage(p)]
          /\ UNCHANGED <<notified, archived>>
      BY <2>2 DEF FillFetch
    <3>2. fill'.page = HistoryPage(p) /\ fill'.pc = "page"
      BY <3>1, <1>1 DEF FillStates
    <3>3. \A m \in notified : HistoryPage(p)[m] = 0
      BY <1>1 DEF HistoryPage
    <3> QED
      BY <3>1, <3>2, <3>3 DEF PageOK
  <2>3. ASSUME NEW p \in Peers, FillFetchFails(p) PROVE PageOK'
    <3>1. fill'.page = NoPage
      BY <2>3, ThroughPage DEF FillFetchFails
    <3> QED
      BY <3>1, <1>2, EmptyPage
  <2>4. ASSUME NEW m \in Msgs, FillArchive(m) \/ FillArchiveFails(m) PROVE PageOK'
    <3>1. fill.pc = "page" /\ notified' = notified /\ archived \subseteq archived'
      BY <2>4 DEF FillArchive, FillArchiveFails, NextOfPage, ArchivePrivateMessage,
                  UpsertPrivateMessage
    <3>2. fill'.page = [fill.page EXCEPT ![m] = 0] /\ fill'.pc = fill.pc
      BY <2>4, <1>1 DEF FillArchive, FillArchiveFails, FillStates
    <3>3. fill.page \in [Msgs -> 0..MaxVer]
      BY <1>1 DEF FillStates
    <3> QED
      BY <1>1, <3>1, <3>2, <3>3 DEF PageOK
  <2>5. CASE FillDone
    <3>1. fill'.page = NoPage
      BY <2>5, ThroughPage DEF FillDone
    <3> QED
      BY <3>1, <1>2, EmptyPage
  <2>6. ASSUME NEW p \in Peers, RememberDialog(p) PROVE PageOK'
    BY <2>6, <1>3 DEF RememberDialog
  <2> QED
    BY <1>6, <2>1, <2>2, <2>3, <2>4, <2>5, <2>6 DEF Maintenance
<1>7. CASE Outbox
  <2>1. UNCHANGED <<fill, archived>>
    BY <1>7, OutboxFrame
  <2>2. notified' \subseteq notified \cup archived
    BY <1>7, <1>1 DEF Outbox, FlushList, FlushSkip, FlushAlert, FlushSend,
       FlushSendAnswerLost, FlushSendFails, DeletePrivateDeletionAlert,
       MarkPrivateDeletionNotified, MarkPrivateDeletionFailed, FlushStatementFails, Batch,
       BatchOf
  <2> QED
    BY <1>1, <2>1, <2>2 DEF PageOK
<1>8. CASE Restart
  BY <1>8, <1>2, IdlePage, EmptyPage DEF Restart
<1>9. CASE UNCHANGED vars
  BY <1>9, <1>3 DEF vars
<1> QED
  BY <1>4, <1>5, <1>6, <1>7, <1>8, <1>9 DEF Next

(* The conjunction is inductive: it holds of every reachable state.        *)
THEOREM Invariance == Spec => []IInv
<1>1. IInv /\ [Next]_vars => IInv'
  BY TypeStep, AgesStep, MarksStep, ReportedStep, OutboxStep, PageStep DEF IInv
<1> QED
  BY <1>1, InvInit, PTL DEF Spec

(* A row is marked deleted exactly when its deletion is recorded, in       *)
(* whatever order the two were stored and whatever a prune dropped.        *)
THEOREM MarksMatchTombsCorrect == Spec => []MarksMatchTombs
<1>1. IInv => MarksMatchTombs
  BY DEF IInv
<1> QED
  BY <1>1, Invariance, PTL

(* An alert in the making names only deletions that are still to be        *)
(* reported, of messages still archived, although the outbox read them     *)
(* several steps of the other actors ago.                                  *)
THEOREM InFlightIsPendingCorrect == Spec => []InFlightIsPending
<1>1. IInv => InFlightIsPending
  BY DEF IInv, OutboxOK
<1> QED
  BY <1>1, Invariance, PTL

(* A deletion is written down as reported only after an alert naming the   *)
(* message reached the owner, for every number of faults.                  *)
THEOREM ReportedWasToldCorrect == Spec => []ReportedWasTold
<1>1. IInv => ReportedWasTold
  BY DEF IInv, ReportedOK, ReportedWasTold
<1> QED
  BY <1>1, Invariance, PTL

-----------------------------------------------------------------------------
(* What an archive step does to the text of one message.                   *)
LEMMA ArchiveEffect ==
  ASSUME IInv, NEW m \in Msgs, NEW v \in 1..MaxVer, ArchivePrivateMessage(m, v)
  PROVE  \/ UNCHANGED messageVars
         \/ /\ m \notin archived /\ archived' = archived \cup {m}
            /\ ver' = [ver EXCEPT ![m] = v]
            /\ Archivable(PeerOf[m])
         \/ /\ m \in archived \ tombs /\ archived' = archived /\ marked' = marked
            /\ ver' = [ver EXCEPT ![m] = v] /\ Supersedes(m, v)
<1>1. CASE UNCHANGED messageVars
  BY <1>1
<1>2. CASE UpsertPrivateMessage(m, v) /\ Archivable(PeerOf[m]) /\ m \notin archived
  BY <1>2, Zenon DEF UpsertPrivateMessage
<1>3. CASE UpsertPrivateMessage(m, v) /\ m \in archived
  <2>1. m \in marked <=> m \in tombs
    BY <1>3 DEF IInv, MarksMatchTombs
  <2>2. archived' = archived /\ marked' = marked
    BY <1>3 DEF UpsertPrivateMessage
  <2>3. ver' = ver \/ (m \notin tombs /\ ver' = [ver EXCEPT ![m] = v] /\ Supersedes(m, v))
    BY <1>3, <2>1 DEF UpsertPrivateMessage, Frozen
  <2> QED
    BY <1>3, <2>2, <2>3 DEF messageVars
<1> QED
  BY <1>1, <1>2, <1>3 DEF ArchivePrivateMessage

(* The steps that change the rows of private_messages.                     *)
LEMMA RowSteps ==
  ASSUME IInv, [Next]_vars
  PROVE  \/ UNCHANGED <<archived, ver>>
         \/ \E m \in Msgs, v \in 1..MaxVer :
              /\ ArchivePrivateMessage(m, v) /\ UNCHANGED <<stamp, latest>>
              /\ v <= latest[m] \/ v = fill.page[m]
              /\ fill' = fill \/ fill'.page = [fill.page EXCEPT ![m] = 0]
         \/ PassStart
<1> DEFINE Claim == \/ UNCHANGED <<archived, ver>>
                    \/ \E m \in Msgs, v \in 1..MaxVer :
                         /\ ArchivePrivateMessage(m, v) /\ UNCHANGED <<stamp, latest>>
                         /\ v <= latest[m] \/ v = fill.page[m]
                         /\ fill' = fill \/ fill'.page = [fill.page EXCEPT ![m] = 0]
                    \/ PassStart
<1> USE DEF messageVars, tombVars, dbVars, telegramVars
<1>1. CASE Environment
  BY <1>1 DEF Environment, Telegram, Send, Edit, Delete, Tick
<1>2. CASE Handler
  <2>1. ASSUME NEW m \in Msgs, NEW v \in 1..MaxVer, NEW u \in BOOLEAN, LiveMessage(m, v, u)
        PROVE  ArchivePrivateMessage(m, v) /\ UNCHANGED <<stamp, latest, fill>> /\ v <= latest[m]
    <3>1. seen[m] \in Nat /\ latest[m] \in Nat
      BY DEF IInv, TypeOK
    <3> QED
      BY <2>1, <3>1 DEF LiveMessage
  <2> QED
    BY <1>2, <2>1 DEF Handler, HearDeletion, MediaDone
<1>3. CASE Maintenance
  <2>1. ASSUME NEW m \in Msgs, FillArchive(m) PROVE Claim
    <3>1. fill.page[m] \in 1..MaxVer
      BY <2>1, LimitsAssumption DEF FillArchive, NextOfPage, IInv, TypeOK, FillStates
    <3>2. ArchivePrivateMessage(m, fill.page[m]) /\ UNCHANGED <<stamp, latest>>
      BY <2>1 DEF FillArchive
    <3>3. fill'.page = [fill.page EXCEPT ![m] = 0]
      BY <2>1 DEF FillArchive, IInv, TypeOK, FillStates
    <3> QED
      BY <3>1, <3>2, <3>3
  <2> QED
    BY <1>3, <2>1 DEF Maintenance, RememberDialog, FillFetch, FillFetchFails, PassStart,
       PassStartPruneFails, FillArchiveFails, FillDone
<1>4. CASE Outbox
  BY <1>4, OutboxFrame
<1>5. CASE Restart \/ UNCHANGED vars
  BY <1>5 DEF Restart, vars
<1> QED
  BY <1>1, <1>2, <1>3, <1>4, <1>5 DEF Next

(* No step removes an archived message whose deletion is still to be       *)
(* reported, or changes its archived text.                                 *)
THEOREM PendingKeptCorrect == Spec => PendingKept
<1> DEFINE Kept == \A m \in archived \cap Pending : m \in archived' /\ ver'[m] = ver[m]
<1>1. IInv /\ [Next]_vars => Kept
  <2> SUFFICES ASSUME IInv, [Next]_vars, NEW k \in archived \cap Pending
               PROVE  k \in archived' /\ ver'[k] = ver[k]
    OBVIOUS
  <2>1. k \in Msgs /\ ver \in [Msgs -> 0..MaxVer]
    BY DEF IInv, TypeOK
  <2>2. ASSUME NEW m \in Msgs, NEW v \in 1..MaxVer, ArchivePrivateMessage(m, v)
        PROVE  k \in archived' /\ ver'[k] = ver[k]
    BY <2>1, <2>2, ArchiveEffect DEF Pending, messageVars
  <2>3. CASE PassStart
    BY <2>1, <2>3, PruneKeeps DEF PassStart
  <2> QED
    BY <2>2, <2>3, RowSteps
<1>2. IInv /\ [Next]_vars => [Kept]_vars
  BY <1>1
<1> QED
  BY <1>2, Invariance, PTL DEF Spec, PendingKept

(* Versions are dated in their order, and no version is archived or on a   *)
(* fetched page that Telegram does not have.                               *)
DatesOK == \A m \in Msgs : \A i, j \in 1..latest[m] : i <= j => stamp[m][i] <= stamp[m][j]
VersionsOK ==
  /\ \A m \in Msgs : ver[m] <= latest[m] /\ fill.page[m] <= latest[m]
  /\ \A m \in archived : ver[m] >= 1

LEMMA DatesStep == IInv /\ DatesOK /\ [Next]_vars => DatesOK'
<1> SUFFICES ASSUME IInv, DatesOK, [Next]_vars PROVE DatesOK'
  OBVIOUS
<1>1. /\ latest \in [Msgs -> 0..MaxVer] /\ stamp \in [Msgs -> [1..MaxVer -> Nat]]
      /\ MaxVer \in Nat
  BY LimitsAssumption DEF IInv, TypeOK
<1>2. ASSUME NEW m \in Msgs, Send(m) PROVE DatesOK'
  <2>1. latest' = [latest EXCEPT ![m] = 1] /\ stamp' = stamp
    BY <1>2 DEF Send
  <2>2. stamp[m] \in [1..MaxVer -> Nat] /\ 1 \in 1..MaxVer
    <3>1. MaxVer \in Nat \ {0}
      BY LimitsAssumption
    <3> QED
      BY <1>1, <3>1
  <2>3. stamp[m][1] <= stamp[m][1]
    <3>1. stamp[m][1] \in Nat
      BY <2>2
    <3> QED
      BY <3>1
  <2>4. \A i, j \in 1..1 : i = 1 /\ j = 1
    OBVIOUS
  <2>5. latest'[m] = 1 /\ \A k \in Msgs \ {m} : latest'[k] = latest[k]
    BY <1>1, <2>1
  <2>6. \A i, j \in 1..1 : i <= j => stamp'[m][i] <= stamp'[m][j]
    BY <2>1, <2>3, <2>4
  <2> QED
    BY <2>1, <2>5, <2>6 DEF DatesOK
<1>3. ASSUME NEW m \in Msgs, NEW later \in {0, 1}, Edit(m, later) PROVE DatesOK'
  <2> DEFINE n == latest[m]
             date == stamp[m][n] + later
  <2>1. n \in 1..MaxVer /\ n + 1 \in 1..MaxVer /\ latest' = [latest EXCEPT ![m] = n + 1]
    BY <1>1, <1>3 DEF Edit
  <2>2. stamp' = [stamp EXCEPT ![m] = [@ EXCEPT ![n + 1] = date]]
    BY <1>3, Zenon DEF Edit
  <2>3. stamp[m][n] \in Nat /\ date \in Nat /\ date >= stamp[m][n]
    BY <1>1, <2>1
  <2>4. \A i \in 1..n : stamp[m][i] <= stamp[m][n]
    <3>1. n \in 1..n
      BY <2>1
    <3> QED
      BY <3>1 DEF DatesOK
  <2> HIDE DEF date, n
  <2>5. \A i \in 1..n : stamp'[m][i] = stamp[m][i]
    BY <1>1, <2>1, <2>2
  <2>6. stamp'[m][n + 1] = date
    BY <1>1, <2>1, <2>2
  <2>7. \A i \in 1..n : stamp[m][i] \in Nat
    BY <1>1, <2>1
  <2>8. \A i, j \in 1..n : i <= j => stamp[m][i] <= stamp[m][j]
    BY <2>1 DEF DatesOK, n
  <2>9. \A i, j \in 1..(n + 1) : i <= j => stamp'[m][i] <= stamp'[m][j]
    <3> SUFFICES ASSUME NEW i \in 1..(n + 1), NEW j \in 1..(n + 1), i <= j
                 PROVE  stamp'[m][i] <= stamp'[m][j]
      OBVIOUS
    <3>1. CASE j \in 1..n
      BY <3>1, <2>1, <2>5, <2>8
    <3>2. CASE j = n + 1 /\ i \in 1..n
      BY <3>2, <2>3, <2>4, <2>5, <2>6, <2>7, <2>1
    <3>3. CASE j = n + 1 /\ i = n + 1
      BY <3>3, <2>3, <2>6
    <3> QED
      BY <2>1, <3>1, <3>2, <3>3
  <2>10. \A k \in Msgs \ {m} : stamp'[k] = stamp[k] /\ latest'[k] = latest[k]
    BY <1>1, <2>1, <2>2
  <2>11. latest'[m] = n + 1
    BY <1>1, <2>1
  <2> QED
    BY <2>9, <2>10, <2>11 DEF DatesOK
<1>4. CASE UNCHANGED <<latest, stamp>>
  BY <1>4 DEF DatesOK
<1>5. CASE Environment
  BY <1>2, <1>3, <1>4, <1>5 DEF Environment, Telegram, Delete, Tick
<1>6. CASE Handler
  BY <1>4, <1>6 DEF Handler, LiveMessage, HearDeletion, MediaDone, telegramVars
<1>7. CASE Maintenance \/ Outbox
  BY <1>4, <1>7, MaintenanceFrame, OutboxFrame DEF telegramVars
<1>8. CASE Restart \/ UNCHANGED vars
  BY <1>4, <1>8 DEF Restart, vars, telegramVars
<1> QED
  BY <1>5, <1>6, <1>7, <1>8 DEF Next

LEMMA VersionsStep == IInv /\ VersionsOK /\ [Next]_vars => VersionsOK'
<1> SUFFICES ASSUME IInv, VersionsOK, [Next]_vars PROVE VersionsOK'
  OBVIOUS
<1> USE DEF messageVars, dbVars, telegramVars
<1>1. /\ latest \in [Msgs -> 0..MaxVer] /\ MaxVer \in Nat /\ fill \in FillStates
      /\ ver \in [Msgs -> 0..MaxVer] /\ archived \subseteq Msgs
      /\ fill.page \in [Msgs -> 0..MaxVer]
  BY LimitsAssumption DEF IInv, TypeOK, FillStates
<1>2. /\ \A m \in Msgs : ver[m] <= latest[m] /\ fill.page[m] <= latest[m]
      /\ \A m \in archived : ver[m] >= 1
  BY DEF VersionsOK
<1>3. \A m \in Msgs : latest'[m] \in Nat /\ latest[m] <= latest'[m]
  <2>1. ASSUME NEW k \in Msgs, Send(k) \/ Edit(k, 0) \/ Edit(k, 1) \/ Delete(k)
        PROVE  \A m \in Msgs : latest'[m] \in Nat /\ latest[m] <= latest'[m]
    BY <1>1, <2>1 DEF Send, Edit, Delete
  <2>2. CASE latest' = latest
    BY <1>1, <2>2
  <2>3. CASE Environment
    BY <2>1, <2>2, <2>3 DEF Environment, Telegram, Tick
  <2>4. CASE Handler
    BY <2>2, <2>4 DEF Handler, LiveMessage, HearDeletion, MediaDone
  <2>5. CASE Maintenance \/ Outbox
    BY <2>2, <2>5, MaintenanceFrame, OutboxFrame
  <2>6. CASE Restart \/ UNCHANGED vars
    BY <2>2, <2>6 DEF Restart, vars
  <2> QED
    BY <2>3, <2>4, <2>5, <2>6 DEF Next
<1>4. \A m \in Msgs : fill'.page[m] <= latest'[m]
  <2>1. CASE fill' = fill
    BY <1>1, <1>2, <1>3, <2>1
  <2>2. CASE fill'.page = NoPage
    BY <1>1, <1>3, <2>2 DEF NoPage
  <2>3. ASSUME NEW p \in Peers, FillFetch(p) PROVE fill'.page = HistoryPage(p) /\ latest' = latest
    BY <1>1, <2>3 DEF FillFetch, FillStates
  <2>4. \A p \in Peers, m \in Msgs : HistoryPage(p)[m] \in {0, latest[m]}
    BY DEF HistoryPage
  <2>5. ASSUME NEW p \in Peers, FillFetch(p)
        PROVE  \A m \in Msgs : fill'.page[m] <= latest'[m]
    BY <1>1, <2>3, <2>4, <2>5
  <2>6. ASSUME NEW k \in Msgs, FillArchive(k) \/ FillArchiveFails(k)
        PROVE  \A m \in Msgs : fill'.page[m] <= latest'[m]
    <3>1. fill'.page = [fill.page EXCEPT ![k] = 0]
      BY <1>1, <2>6 DEF FillArchive, FillArchiveFails, FillStates
    <3> QED
      BY <1>1, <1>2, <1>3, <3>1
  <2>7. CASE PassStart \/ PassStartPruneFails \/ FillDone \/ \E p \in Peers : FillFetchFails(p)
    <3>1. CASE PassStart \/ PassStartPruneFails
      <4>1. [FillIdle EXCEPT !.pc = "dialogs", !.peers = Unseeded, !.cut = Expired].page = NoPage
            /\ FillIdle.page = NoPage
        BY DEF FillIdle
      <4>2. FillStart
        BY <3>1 DEF PassStart, PassStartPruneFails
      <4> QED
        BY <2>2, <4>1, <4>2 DEF FillStart
    <3>2. CASE FillDone \/ \E p \in Peers : FillFetchFails(p)
      BY <2>2, <3>2, ThroughPage DEF FillDone, FillFetchFails
    <3> QED
      BY <2>7, <3>1, <3>2
  <2>8. CASE \E p \in Peers : RememberDialog(p)
    BY <2>1, <2>8 DEF RememberDialog
  <2>9. CASE Maintenance
    BY <2>5, <2>6, <2>7, <2>8, <2>9 DEF Maintenance
  <2>10. CASE Restart
    BY <2>2, <2>10, IdlePage DEF Restart
  <2> QED
    BY <2>1, <2>9, <2>10, OutboxFrame
       DEF Next, Environment, Telegram, Send, Edit, Delete, Tick, Handler, LiveMessage, HearDeletion,
           MediaDone, vars
<1>5. /\ \A m \in Msgs : ver'[m] <= latest'[m]
      /\ \A m \in archived' : ver'[m] >= 1
  <2>1. CASE UNCHANGED <<archived, ver>>
    BY <1>1, <1>2, <1>3, <2>1
  <2>2. ASSUME NEW m \in Msgs, NEW v \in 1..MaxVer, ArchivePrivateMessage(m, v),
               UNCHANGED <<stamp, latest>>, v <= latest[m] \/ v = fill.page[m]
        PROVE  /\ \A k \in Msgs : ver'[k] <= latest'[k]
               /\ \A k \in archived' : ver'[k] >= 1
    <3>1. v <= latest[m]
      BY <1>1, <1>2, <2>2
    <3>2. CASE UNCHANGED <<archived, ver>>
      BY <2>1, <3>2
    <3>3. CASE archived' \subseteq archived \cup {m} /\ ver' = [ver EXCEPT ![m] = v]
      BY <1>1, <1>2, <2>2, <3>1, <3>3
    <3> QED
      BY <2>2, <3>2, <3>3, ArchiveEffect
  <2>3. CASE PassStart
    <3>1. latest' = latest
      BY <2>3 DEF PassStart
    <3>2. PICK D \in SUBSET (archived \ Pending) :
            archived' = archived \ D /\ ver' = [m \in Msgs |-> IF m \in D THEN 0 ELSE ver[m]]
      BY <2>3, PruneKeeps DEF PassStart
    <3> QED
      BY <1>1, <1>2, <3>1, <3>2
  <2> QED
    BY <2>1, <2>2, <2>3, RowSteps
<1> QED
  BY <1>4, <1>5 DEF VersionsOK

LEMMA VersionsInvariance == Spec => [](IInv /\ DatesOK /\ VersionsOK)
<1>1. Init => DatesOK /\ VersionsOK
  BY LimitsAssumption DEF Init, DatesOK, VersionsOK, FillIdle, NoPage
<1> QED
  BY <1>1, DatesStep, VersionsStep, Invariance, PTL DEF Spec

(* The text of a row is never replaced by an older version of the message. *)
THEOREM NoOlderRevisionCorrect == Spec => NoOlderRevision
<1> DEFINE Newer == \A m \in archived \cap archived' :
                      ver'[m] # ver[m] =>
                        /\ stamp[m][ver'[m]] >= stamp[m][ver[m]]
                        /\ ver'[m] > 1
<1>1. IInv /\ DatesOK /\ VersionsOK /\ [Next]_vars => Newer
  <2> SUFFICES ASSUME IInv, DatesOK, VersionsOK, [Next]_vars,
                      NEW k \in archived \cap archived', ver'[k] # ver[k]
               PROVE  stamp[k][ver'[k]] >= stamp[k][ver[k]] /\ ver'[k] > 1
    OBVIOUS
  <2>1. /\ k \in Msgs /\ ver \in [Msgs -> 0..MaxVer] /\ latest \in [Msgs -> 0..MaxVer]
        /\ stamp \in [Msgs -> [1..MaxVer -> Nat]] /\ MaxVer \in Nat
    BY LimitsAssumption DEF IInv, TypeOK
  <2>2. ver[k] \in 1..latest[k] /\ ver[k] \in 1..MaxVer
    BY <2>1 DEF VersionsOK
  <2>3. ASSUME NEW m \in Msgs, NEW v \in 1..MaxVer, ArchivePrivateMessage(m, v)
        PROVE  ver'[k] \in 1..MaxVer /\ Supersedes(k, ver'[k])
    BY <2>1, <2>3, ArchiveEffect DEF messageVars
  <2>4. ASSUME PassStart PROVE FALSE
    <3>1. PICK D \in SUBSET (archived \ Pending) :
            archived' = archived \ D /\ ver' = [m \in Msgs |-> IF m \in D THEN 0 ELSE ver[m]]
      BY <2>4, PruneKeeps DEF PassStart
    <3> QED
      BY <2>1, <3>1
  <2>5. ver'[k] \in 1..MaxVer /\ Supersedes(k, ver'[k])
    BY <2>3, <2>4, RowSteps
  <2>6. stamp[k][1] \in Nat /\ stamp[k][ver[k]] \in Nat /\ stamp[k][ver'[k]] \in Nat
    BY <2>1, <2>2, <2>5
  <2>7. stamp[k][1] <= stamp[k][ver[k]]
    <3>1. 1 \in 1..latest[k] /\ 1 <= ver[k]
      BY <2>1, <2>2
    <3> QED
      BY <2>1, <2>2, <3>1 DEF DatesOK
  <2>8. stamp[k][ver'[k]] >= stamp[k][ver[k]]
    BY <2>5, <2>6 DEF Supersedes
  <2>9. ver'[k] # 1
    BY <2>2, <2>5, <2>6, <2>7 DEF Supersedes
  <2> QED
    BY <2>5, <2>8, <2>9
<1>2. IInv /\ DatesOK /\ VersionsOK /\ [Next]_vars => [Newer]_vars
  BY <1>1
<1> QED
  BY <1>2, VersionsInvariance, PTL DEF Spec, NoOlderRevision

-----------------------------------------------------------------------------
(* The button of an acknowledged summary.  The alert being sent keeps its  *)
(* row, which is younger than the pass and so than the retention, and is   *)
(* dropped only if the bot was not told of its delivery.                   *)
AlertsOK ==
  /\ acked \subseteq buttons
  /\ AckedButtonOpens
  /\ flush.pc = "send" =>
       /\ flush.alert \in rows \ buttons
       /\ covers[flush.alert] = Batch
       /\ rowAge[flush.alert] <= flush.elapsed
  /\ flush.pc = "drop" => flush.alert \notin acked

LEMMA AlertsTick == IInv /\ AlertsOK /\ Tick => AlertsOK'
<1> SUFFICES ASSUME IInv, AlertsOK, Tick PROVE AlertsOK'
  OBVIOUS
<1>1. UNCHANGED <<acked, buttons, rows, covers, told>>
  BY DEF Tick, chatVars
<1>2. flush' = [flush EXCEPT !.elapsed = IF flush.pc = "idle" THEN 0 ELSE @ + 1]
      /\ flush \in FlushStates
  BY DEF Tick, IInv, TypeOK
<1>3. /\ flush'.pc = flush.pc /\ flush'.alert = flush.alert /\ flush'.rows = flush.rows
      /\ flush'.peer = flush.peer
      /\ flush.pc = "send" => flush'.elapsed = flush.elapsed + 1
  BY <1>2 DEF FlushStates
<1>4. Batch' = Batch
  BY <1>3 DEF Batch, BatchOf
<1>5. ASSUME flush.pc = "send" PROVE rowAge'[flush.alert] <= flush'.elapsed
  <2>1. flush.alert \in rows /\ rowAge[flush.alert] <= flush.elapsed /\ flush.alert \in AlertIds
    BY <1>5 DEF AlertsOK, IInv, TypeOK
  <2>2. rowAge'[flush.alert] = Older(rowAge[flush.alert])
    BY <2>1 DEF Tick
  <2>3. rowAge[flush.alert] \in Nat /\ flush.elapsed \in Nat /\ MaxAge \in Nat
    BY <2>1, <1>2, TimesAssumption DEF IInv, TypeOK, FlushStates
  <2> QED
    BY <1>3, <1>5, <2>1, <2>2, <2>3 DEF Older
<1> QED
  BY <1>1, <1>3, <1>4, <1>5 DEF AlertsOK, AckedButtonOpens

LEMMA AlertsPrune == IInv /\ AlertsOK /\ PassStart => AlertsOK'
<1> SUFFICES ASSUME IInv, AlertsOK, PassStart PROVE AlertsOK'
  OBVIOUS
<1>1. /\ rows' = rows \ OldAlerts
      /\ covers' = [a \in AlertIds |-> IF a \in OldAlerts THEN {} ELSE covers[a]]
      /\ rowAge' = [a \in AlertIds |-> IF a \in OldAlerts THEN 0 ELSE rowAge[a]]
      /\ buttons' = buttons \ OldAlerts /\ acked' = acked \ OldAlerts
      /\ UNCHANGED <<told, flush>>
  BY DEF PassStart, PrunePrivateArchive, Cascade, OldAlerts
<1>2. rows \subseteq AlertIds /\ acked \subseteq AlertIds
  BY DEF IInv, TypeOK
<1>3. Batch' = Batch
  BY <1>1 DEF Batch
<1>4. ASSUME flush.pc = "send" PROVE flush.alert \notin OldAlerts
  <2>1. flush.alert \in AlertIds /\ rowAge[flush.alert] <= flush.elapsed
    BY <1>2, <1>4 DEF AlertsOK
  <2>2. rowAge[flush.alert] \in Nat /\ flush.elapsed \in Nat /\ flush.elapsed <= PassTime
    BY <2>1, TimesAssumption DEF IInv, TypeOK, FlushStates
  <2>3. rowAge[flush.alert] <= Retention
    BY <2>1, <2>2, TimesAssumption
  <2> QED
    BY <2>2, <2>3, TimesAssumption DEF OldAlerts
<1>5. AckedButtonOpens'
  BY <1>1, <1>2 DEF AlertsOK, AckedButtonOpens
<1>6. ASSUME flush.pc = "send"
      PROVE  /\ flush.alert \in rows' \ buttons'
             /\ covers'[flush.alert] = Batch
             /\ rowAge'[flush.alert] <= flush.elapsed
  BY <1>1, <1>2, <1>4, <1>6 DEF AlertsOK
<1> QED
  BY <1>1, <1>3, <1>5, <1>6 DEF AlertsOK

LEMMA AlertsOutbox == IInv /\ AlertsOK /\ Outbox => AlertsOK'
<1> SUFFICES ASSUME IInv, AlertsOK, Outbox PROVE AlertsOK'
  OBVIOUS
<1> USE DEF alertVars, chatVars, tombVars, dbVars
<1>1. /\ flush \in FlushStates /\ rows \subseteq AlertIds /\ buttons \subseteq AlertIds
      /\ acked \subseteq AlertIds /\ covers \in [AlertIds -> SUBSET Msgs]
      /\ rowAge \in [AlertIds -> 0..MaxAge]
  BY DEF IInv, TypeOK
<1>2. /\ acked \subseteq buttons
      /\ \A a \in acked : a \in rows /\ covers[a] \subseteq told /\ Cardinality(covers[a]) > 1
  BY DEF AlertsOK, AckedButtonOpens
<1>3. ASSUME UNCHANGED <<alertVars, chatVars>>, flush'.pc \in {"idle", "next", "mark", "fail"}
      PROVE  AlertsOK'
  BY <1>2, <1>3 DEF AlertsOK, AckedButtonOpens
<1>4. \A p : AfterBatch(p).pc \in {"idle", "next"}
  BY <1>1, FlushType
<1>5. FlushIdle.pc = "idle"
  BY DEF FlushIdle
<1>6. ASSUME NEW R \in SUBSET Msgs, FlushList(R) PROVE AlertsOK'
  <2>1. flush'.pc = "next"
    BY <1>6 DEF FlushList, FlushIdle
  <2> QED
    BY <1>3, <1>6, <2>1 DEF FlushList
<1>7. ASSUME NEW p \in Peers, FlushSkip(p) PROVE AlertsOK'
  BY <1>3, <1>4, <1>7 DEF FlushSkip
<1>8. ASSUME NEW p \in Peers, NEW a \in AlertIds, FlushAlert(p, a) PROVE AlertsOK'
  <2>1. /\ flush' = [flush EXCEPT !.pc = "send", !.peer = p, !.alert = a]
        /\ rows' = rows \cup {a} /\ UNCHANGED chatVars
        /\ covers' = [covers EXCEPT ![a] = BatchOf(flush.rows, p)]
        /\ rowAge' = [rowAge EXCEPT ![a] = flush.elapsed]
        /\ a \notin rows \cup buttons
    BY <1>8 DEF FlushAlert, FreeAlerts
  <2>2. /\ flush'.pc = "send" /\ flush'.peer = p /\ flush'.alert = a
        /\ flush'.rows = flush.rows /\ flush'.elapsed = flush.elapsed
        /\ flush.elapsed \in Nat
    BY <1>1, <2>1, TimesAssumption DEF FlushStates
  <2>3. Batch' = BatchOf(flush.rows, p)
    BY <2>2 DEF Batch
  <2>4. covers'[a] = BatchOf(flush.rows, p) /\ rowAge'[a] = flush.elapsed
        /\ \A b \in acked : covers'[b] = covers[b]
    BY <1>1, <1>2, <2>1
  <2>5. AckedButtonOpens'
    BY <1>2, <2>1, <2>4 DEF AckedButtonOpens
  <2> QED
    BY <1>2, <2>1, <2>2, <2>3, <2>4, <2>5 DEF AlertsOK
<1>9. CASE FlushSend \/ FlushSendAnswerLost
  <2>1. /\ flush.alert \in rows \ buttons /\ covers[flush.alert] = Batch
        /\ told' = told \cup Batch
        /\ buttons' = IF Cardinality(Batch) > 1 THEN buttons \cup {flush.alert} ELSE buttons
        /\ UNCHANGED alertVars
    BY <1>9 DEF FlushSend, FlushSendAnswerLost, Deliver, AlertsOK
  <2>2. CASE FlushSend
    <3>1. acked' = acked \cup (buttons' \ buttons) /\ flush'.pc = "mark"
      BY <1>1, <2>2 DEF FlushSend, FlushStates
    <3>2. \A a \in acked' : a \in acked \/ (a = flush.alert /\ Cardinality(Batch) > 1)
      BY <2>1, <3>1
    <3> QED
      BY <1>2, <2>1, <3>1, <3>2 DEF AlertsOK, AckedButtonOpens
  <2>3. CASE FlushSendAnswerLost
    <3>1. acked' = acked /\ flush'.pc = "drop" /\ flush'.alert = flush.alert
      BY <1>1, <2>3 DEF FlushSendAnswerLost, FlushStates
    <3> QED
      BY <1>2, <2>1, <3>1 DEF AlertsOK, AckedButtonOpens
  <2> QED
    BY <1>9, <2>2, <2>3
<1>10. CASE FlushSendFails
  <2>1. flush'.pc = "drop" /\ flush'.alert = flush.alert /\ UNCHANGED <<alertVars, chatVars>>
    BY <1>1, <1>10 DEF FlushSendFails, AfterSendError, FlushStates
  <2>2. flush.alert \notin acked
    BY <1>2, <1>10 DEF FlushSendFails, AlertsOK
  <2> QED
    BY <1>2, <2>1, <2>2 DEF AlertsOK, AckedButtonOpens
<1>11. CASE MarkPrivateDeletionNotified
  BY <1>3, <1>4, <1>11 DEF MarkPrivateDeletionNotified
<1>12. CASE DeletePrivateDeletionAlert
  <2>1. /\ flush'.pc = "fail" /\ rows' = rows \ {flush.alert} /\ UNCHANGED chatVars
        /\ covers' = Cascade({flush.alert})
    BY <1>1, <1>12 DEF DeletePrivateDeletionAlert, FlushStates
  <2>2. flush.alert \notin acked
    BY <1>12 DEF DeletePrivateDeletionAlert, AlertsOK
  <2>3. \A a \in acked : covers'[a] = covers[a]
    BY <1>1, <2>1, <2>2 DEF Cascade
  <2> QED
    BY <1>2, <2>1, <2>2, <2>3 DEF AlertsOK, AckedButtonOpens
<1>13. CASE MarkPrivateDeletionFailed
  BY <1>3, <1>5, <1>13 DEF MarkPrivateDeletionFailed
<1>14. CASE FlushStatementFails
  <2>1. flush'.pc \in {"idle", "fail"}
    BY <1>1, <1>5, <1>14 DEF FlushStatementFails, FlushStates
  <2> QED
    BY <1>3, <1>14, <2>1 DEF FlushStatementFails
<1> QED
  BY <1>6, <1>7, <1>8, <1>9, <1>10, <1>11, <1>12, <1>13, <1>14 DEF Outbox

(* The button of a summary whose delivery was acknowledged opens the       *)
(* summary's messages until retention ends.                                *)
THEOREM AckedButtonOpensCorrect == Spec => []AckedButtonOpens
<1>1. Init => AlertsOK
  BY DEF Init, FlushIdle, AlertsOK, AckedButtonOpens
<1>2. IInv /\ AlertsOK /\ [Next]_vars => AlertsOK'
  <2> SUFFICES ASSUME IInv, AlertsOK, [Next]_vars PROVE AlertsOK'
    OBVIOUS
  <2>1. CASE UNCHANGED <<alertVars, chatVars, flush>>
    <3>1. Batch' = Batch
      BY <2>1 DEF Batch
    <3> QED
      BY <2>1, <3>1 DEF AlertsOK, AckedButtonOpens, alertVars, chatVars
  <2>2. CASE Restart
    BY <2>2 DEF Restart, FlushIdle, AlertsOK, AckedButtonOpens, dbVars, alertVars, chatVars
  <2>3. CASE Environment
    BY <2>1, <2>3, AlertsTick, TelegramFrame DEF Environment, Telegram, dbVars
  <2>4. CASE Handler
    BY <2>1, <2>4 DEF Handler, LiveMessage, HearDeletion, MediaDone, dbVars
  <2>5. CASE Maintenance
    BY <2>1, <2>5, AlertsPrune, MaintenanceFrame
  <2>6. CASE UNCHANGED vars
    BY <2>1, <2>6 DEF vars
  <2> QED
    BY <2>2, <2>3, <2>4, <2>5, <2>6, AlertsOutbox DEF Next
<1>3. AlertsOK => AckedButtonOpens
  BY DEF AlertsOK
<1> QED
  BY <1>1, <1>2, <1>3, Invariance, PTL DEF Spec

-----------------------------------------------------------------------------
(* The archive implements DeletionPromise: every step of the archive, its  *)
(* prune, its outbox and their failures is a step of the promise made for  *)
(* each message, or leaves it as it is.                                    *)

Statuses == [m \in Msgs |-> MessageStatus(m)]

LEMMA StatusCases ==
  ASSUME IInv, NEW m \in Msgs
  PROVE  /\ m \notin archived <=> Statuses[m] = "absent"
         /\ m \in archived \ tombs <=> Statuses[m] = "live"
         /\ m \in archived \cap Pending <=> Statuses[m] = "pending"
         /\ m \in archived \cap notified <=> Statuses[m] = "reported"
BY DEF Statuses, MessageStatus, Pending, IInv, ReportedOK

(* A stutter of the promise.                                               *)
LEMMA SameStatuses ==
  ASSUME UNCHANGED <<archived, tombs, notified, ver, told>>
  PROVE  UNCHANGED <<Statuses, ver, told>>
BY DEF Statuses, MessageStatus

LEMMA PromiseInit == Init => Promise!Init
<1> SUFFICES ASSUME Init PROVE Promise!Init
  OBVIOUS
<1>1. \A m \in Msgs : MessageStatus(m) = "absent"
  BY DEF Init, MessageStatus
<1> QED
  BY <1>1 DEF Init, Promise!Init

(* A snapshot of a message arrives, live or from a page.                   *)
LEMMA ArchiveImplements ==
  ASSUME IInv, NEW m \in Msgs, NEW v \in 1..MaxVer, ArchivePrivateMessage(m, v),
         UNCHANGED <<tombs, notified, told>>, m \notin notified \ archived
  PROVE  [Promise!Next]_(Promise!vars)
<1>1. CASE UNCHANGED messageVars
  BY <1>1, SameStatuses DEF messageVars, Statuses, Promise!vars
<1>2. CASE /\ m \notin archived /\ archived' = archived \cup {m}
           /\ ver' = [ver EXCEPT ![m] = v]
  <2>1. m \notin notified
    BY <1>2
  <2>2. Statuses[m] = "absent"
    BY <1>2, StatusCases
  <2> DEFINE s == IF m \in tombs THEN "pending" ELSE "live"
  <2>3. \A k \in Msgs : MessageStatus(k)' = IF k = m THEN s ELSE MessageStatus(k)
    BY <1>2, <2>1 DEF MessageStatus
  <2>4. Statuses' = [Statuses EXCEPT ![m] = s]
    BY <2>3 DEF Statuses
  <2>5. Promise!Archive(m, v)
    BY <1>2, <2>2, <2>4 DEF Promise!Archive, Statuses
  <2> QED
    BY <2>5 DEF Promise!Next
<1>3. CASE /\ m \in archived \ tombs /\ archived' = archived
           /\ ver' = [ver EXCEPT ![m] = v]
  <2>1. Statuses[m] = "live"
    BY <1>3, StatusCases
  <2>2. Statuses' = Statuses
    BY <1>3 DEF Statuses, MessageStatus
  <2>3. Promise!Revise(m, v)
    BY <1>3, <2>1, <2>2 DEF Promise!Revise, Statuses
  <2> QED
    BY <2>3 DEF Promise!Next
<1> QED
  BY <1>1, <1>2, <1>3, ArchiveEffect

LEMMA DeleteImplements ==
  ASSUME IInv, NEW S \in SUBSET Msgs, HearDeletion(S)
  PROVE  [Promise!Next]_(Promise!vars)
<1> DEFINE new == (S \cap archived) \ tombs
<1>1. /\ tombs' = tombs \cup S /\ archived' = archived /\ notified' = notified
      /\ ver' = ver /\ told' = told
  BY DEF HearDeletion, chatVars
<1>2. \A m \in new : Statuses[m] = "live"
  BY StatusCases
<1>3. notified \subseteq tombs
  BY DEF IInv, ReportedOK
<1>4. \A m \in Msgs : MessageStatus(m)' = IF m \in new THEN "pending" ELSE MessageStatus(m)
  BY <1>1, <1>3 DEF MessageStatus
<1>5. Statuses' = [m \in Msgs |-> IF m \in new THEN "pending" ELSE Statuses[m]]
  BY <1>4 DEF Statuses
<1>6. Promise!Delete(new)
  BY <1>1, <1>2, <1>5 DEF Promise!Delete, Statuses
<1>7. new \in SUBSET Msgs
  OBVIOUS
<1> QED
  BY <1>6, <1>7 DEF Promise!Next

LEMMA PruneImplements ==
  ASSUME IInv, PassStart
  PROVE  [Promise!Next]_(Promise!vars)
<1>1. PICK D \in SUBSET (archived \ Pending) :
        /\ archived' = archived \ D
        /\ ver' = [m \in Msgs |-> IF m \in D THEN 0 ELSE ver[m]]
  BY PruneKeeps DEF PassStart
<1>2. PICK O \in SUBSET tombs :
        O \cap archived' = {} /\ tombs' = tombs \ O /\ notified' = notified \ O
  BY PruneKeeps DEF PassStart
<1>3. D \in SUBSET Msgs /\ told' = told
  BY <1>1 DEF IInv, TypeOK, PassStart
<1>4. \A m \in D : Statuses[m] \in {"live", "reported"}
  BY <1>1, <1>3, StatusCases DEF Pending
<1>5. \A m \in Msgs : MessageStatus(m)' = IF m \in D THEN "absent" ELSE MessageStatus(m)
  BY <1>1, <1>2 DEF MessageStatus
<1>6. Statuses' = [m \in Msgs |-> IF m \in D THEN "absent" ELSE Statuses[m]]
  BY <1>5 DEF Statuses
<1>7. Promise!Forget(D)
  BY <1>1, <1>3, <1>4, <1>6 DEF Promise!Forget, Statuses
<1> QED
  BY <1>3, <1>7 DEF Promise!Next

LEMMA BatchPending == IInv => /\ Batch \in SUBSET Msgs
                              /\ \A m \in Batch : Statuses[m] = "pending"
BY StatusCases DEF IInv, OutboxOK, InFlightIsPending, Batch, BatchOf, TypeOK, FlushStates

LEMMA TellImplements ==
  ASSUME IInv, FlushSend \/ FlushSendAnswerLost
  PROVE  [Promise!Next]_(Promise!vars)
<1>1. told' = told \cup Batch /\ UNCHANGED <<archived, tombs, notified, ver>>
  BY DEF FlushSend, FlushSendAnswerLost, Deliver, dbVars, messageVars, tombVars
<1>2. Statuses' = Statuses
  BY <1>1 DEF Statuses, MessageStatus
<1>3. Promise!Tell(Batch)
  BY <1>1, <1>2, BatchPending DEF Promise!Tell, Statuses
<1> QED
  BY <1>3, BatchPending DEF Promise!Next

LEMMA ReportImplements ==
  ASSUME IInv, MarkPrivateDeletionNotified
  PROVE  [Promise!Next]_(Promise!vars)
<1>1. Batch \subseteq told /\ Batch \subseteq archived \cap Pending
  BY DEF MarkPrivateDeletionNotified, IInv, OutboxOK, InFlightIsPending, Batch, BatchOf
<1>2. notified' = notified \cup Batch /\ UNCHANGED <<archived, tombs, ver, told>>
  BY <1>1 DEF MarkPrivateDeletionNotified, messageVars, chatVars, Pending
<1>3. \A m \in Msgs : MessageStatus(m)' = IF m \in Batch THEN "reported" ELSE MessageStatus(m)
  BY <1>1, <1>2 DEF MessageStatus, Pending
<1>4. Statuses' = [m \in Msgs |-> IF m \in Batch THEN "reported" ELSE Statuses[m]]
  BY <1>3 DEF Statuses
<1>5. Promise!Report(Batch)
  BY <1>1, <1>2, <1>4, BatchPending DEF Promise!Report, Statuses
<1> QED
  BY <1>5, BatchPending DEF Promise!Next

LEMMA StepImplements == IInv /\ [Next]_vars => [Promise!Next]_(Promise!vars)
<1> SUFFICES ASSUME IInv, [Next]_vars PROVE [Promise!Next]_(Promise!vars)
  OBVIOUS
<1> USE DEF messageVars, tombVars, chatVars, dbVars
<1>1. ASSUME UNCHANGED <<archived, tombs, notified, ver, told>>
      PROVE  [Promise!Next]_(Promise!vars)
  BY <1>1, SameStatuses DEF Statuses, Promise!vars
<1>2. CASE Environment
  BY <1>1, <1>2 DEF Environment, Telegram, Send, Edit, Delete, Tick
<1>3. CASE Handler
  <2>1. ASSUME NEW m \in Msgs, NEW v \in 1..MaxVer, NEW u \in BOOLEAN, LiveMessage(m, v, u)
        PROVE  [Promise!Next]_(Promise!vars)
    <3>1. m \notin notified
      BY <2>1 DEF LiveMessage, IInv, AgesOK, ReportedOK
    <3> QED
      BY <2>1, <3>1, ArchiveImplements DEF LiveMessage
  <2>2. ASSUME NEW m \in Msgs, MediaDone(m) PROVE [Promise!Next]_(Promise!vars)
    BY <1>1, <2>2 DEF MediaDone
  <2> QED
    BY <1>3, <2>1, <2>2, DeleteImplements DEF Handler
<1>4. CASE Maintenance
  <2>1. ASSUME NEW m \in Msgs, FillArchive(m) PROVE [Promise!Next]_(Promise!vars)
    <3>1. fill.page[m] \in 1..MaxVer /\ fill.page[m] > 0
      BY <2>1, LimitsAssumption DEF FillArchive, NextOfPage, IInv, TypeOK, FillStates
    <3>2. m \notin notified \ archived
      BY <3>1 DEF IInv, PageOK
    <3> QED
      BY <2>1, <3>1, <3>2, ArchiveImplements DEF FillArchive
  <2>2. CASE UNCHANGED <<archived, tombs, notified, ver, told>>
    BY <1>1, <2>2
  <2> QED
    BY <1>4, <2>1, <2>2, PruneImplements DEF Maintenance, RememberDialog, FillFetch,
       FillFetchFails, PassStartPruneFails, FillArchiveFails, FillDone
<1>5. CASE Outbox
  <2>1. CASE UNCHANGED <<notified, told>>
    BY <1>1, <1>5, <2>1, OutboxFrame
  <2> QED
    BY <1>5, <2>1, TellImplements, ReportImplements DEF Outbox, FlushList, FlushSkip,
       FlushAlert, FlushSendFails, DeletePrivateDeletionAlert, MarkPrivateDeletionFailed,
       FlushStatementFails
<1>6. CASE Restart \/ UNCHANGED vars
  BY <1>1, <1>6 DEF Restart, vars
<1> QED
  BY <1>2, <1>3, <1>4, <1>5, <1>6 DEF Next

(* The archive keeps the promise made for each message: what was archived  *)
(* and then deleted stays, with its text, until the owner was told, and is *)
(* reported at most once.                                                  *)
THEOREM KeepsPromiseCorrect == Spec => KeepsPromise
<1>1. IInv /\ [Next]_vars => [Promise!Next]_(Promise!vars)
  BY StepImplements
<1> QED
  BY <1>1, PromiseInit, Invariance, PTL DEF Spec, KeepsPromise, Promise!Spec
==============================================================================
