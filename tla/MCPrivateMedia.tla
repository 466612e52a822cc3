---------------------------- MODULE MCPrivateMedia ----------------------------
(* Instances of PrivateMedia for TLC. *)
EXTENDS PrivateMedia, TLC

MCSize == [m \in Msgs |-> m]
MCAttachments == [m \in Msgs |-> IF m = 1 THEN 2 ELSE 1]
MCSym == Permutations(Workers)
===============================================================================
