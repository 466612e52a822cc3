--------------------------- MODULE DeletionPromise ---------------------------
(***************************************************************************)
(* What the deletion archive promises the owner of an account about one    *)
(* direct message, without saying how: a message that was archived and     *)
(* then deleted stays archived, with the text it had, until the owner has  *)
(* been told; it is reported only after the owner was told, and nothing is *)
(* told about a message a second time once it is reported.                 *)
(***************************************************************************)
EXTENDS Naturals

CONSTANTS Msgs,      \* message ids of the owner's direct chats
          Versions   \* the versions (original, edits) a text can have

VARIABLES status,    \* what the archive knows of a message
          text,      \* the archived version, 0 when there is none
          told       \* messages some delivered alert named

vars == <<status, text, told>>

Status == {"absent", "live", "pending", "reported"}

Init ==
  /\ status = [m \in Msgs |-> "absent"]
  /\ text = [m \in Msgs |-> 0]
  /\ told = {}

(* A snapshot of m is stored; its deletion may already be known.           *)
Archive(m, v) ==
  /\ status[m] = "absent"
  /\ \E s \in {"live", "pending"} : status' = [status EXCEPT ![m] = s]
  /\ text' = [text EXCEPT ![m] = v]
  /\ UNCHANGED told

(* An edit replaces the text of a message that still exists.               *)
Revise(m, v) ==
  /\ status[m] = "live"
  /\ text' = [text EXCEPT ![m] = v]
  /\ UNCHANGED <<status, told>>

(* One update says that the messages of S are gone.                        *)
Delete(S) ==
  /\ \A m \in S : status[m] = "live"
  /\ status' = [m \in Msgs |-> IF m \in S THEN "pending" ELSE status[m]]
  /\ UNCHANGED <<text, told>>

(* An alert naming the messages of S reaches the owner.                    *)
Tell(S) ==
  /\ \A m \in S : status[m] = "pending"
  /\ told' = told \cup S
  /\ UNCHANGED <<status, text>>

(* The alert of S is written down as delivered.                            *)
Report(S) ==
  /\ \A m \in S : status[m] = "pending" /\ m \in told
  /\ status' = [m \in Msgs |-> IF m \in S THEN "reported" ELSE status[m]]
  /\ UNCHANGED <<text, told>>

(* Retention drops messages, never one whose alert is still owed.          *)
Forget(S) ==
  /\ \A m \in S : status[m] \in {"live", "reported"}
  /\ status' = [m \in Msgs |-> IF m \in S THEN "absent" ELSE status[m]]
  /\ text' = [m \in Msgs |-> IF m \in S THEN 0 ELSE text[m]]
  /\ UNCHANGED told

Next ==
  \/ \E m \in Msgs, v \in Versions : Archive(m, v) \/ Revise(m, v)
  \/ \E S \in SUBSET Msgs : Delete(S) \/ Tell(S) \/ Report(S) \/ Forget(S)

Spec == Init /\ [][Next]_vars
==============================================================================
