----------------------------- MODULE MCMediaJobs -----------------------------
(* Small instances of MediaJobs for TLC.                                   *)
EXTENDS MediaJobs

OneAccount == [j \in Jobs |-> "a"]
EqualReserves == [j \in Jobs |-> 1]
LastTwice == [j \in Jobs |-> IF j = 3 THEN 2 ELSE 1]
==============================================================================
