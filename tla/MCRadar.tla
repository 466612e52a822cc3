------------------------------- MODULE MCRadar -------------------------------
(* Instances of Radar for TLC: what the messages and the rules say. *)
EXTENDS Radar

MCPeerOf == [m \in Msgs |-> "c"]
MCText == [m \in Msgs |-> [v \in Versions |->
  [words |-> IF v = 0 THEN <<"wheal">> ELSE <<"lamp", "800", "lm">>,
   tagged |-> FALSE]]]
MCNear == {<<"wheal", "wheel">>}
MCNumberOf == [w \in {"800"} |-> 800]
MCNumeral == [p \in Phrases \cap {"2"} |-> 2]
NoTerms == {}
NoFamilies == <<>>

(* A lamp of some brightness, in this chat. *)
Bright(min) == {{[words |-> <<>>, min |-> min, units |-> {<<"lm">>}]}}
MCBodies == {[Empty EXCEPT !.all = {Word("lamp")}, !.groups = Bright(700), !.sources = {"c"}]}
===============================================================================
