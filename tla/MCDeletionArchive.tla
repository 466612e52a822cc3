-------------------------- MODULE MCDeletionArchive --------------------------
(* Small instances of DeletionArchive for TLC.                             *)
EXTENDS DeletionArchive

MCPeerOf == [m \in Msgs |-> IF m \in {1, 2} THEN 1 ELSE 2]
MCBackoff == <<1>>
MCBackoff2 == <<1, 2>>
==============================================================================
