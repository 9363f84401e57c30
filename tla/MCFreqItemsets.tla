--------------------------- MODULE MCFreqItemsets ---------------------------
(* Instantiates FreqItemsets for TLC.  a1 and a2 are argument variants of   *)
(* one check (same canonical key), as are x1 and x2.                        *)
EXTENDS FreqItemsets

MCPreds == <<"d", "a1", "a2", "b", "c", "e", "x1", "x2">>
MCCanon == [p \in ToSet(MCPreds) |->
              IF p \in {"a1", "a2"} THEN "A" ELSE IF p \in {"x1", "x2"} THEN "X" ELSE p]

(* Every input of four entry points over three predicates and of five    *)
(* entry points over two ...                                              *)
SmallDBs == [1..4 -> SUBSET {"a1", "a2", "b"}] \cup [1..5 -> SUBSET {"a1", "b"}]
(* ... and inputs of five entry points for the cases that need more:      *)
(* a target whose rules nest (the redundancy filter drops one), and       *)
(* two rules whose consequents are variants of one check, and a rule     *)
(* whose consequent has five checks for one antecedent check.             *)
NestedDB == <<{"a1", "d"}, {"a1", "b", "c"}, {"a1", "b", "c"}, {"b", "d"}, {"b", "d"}>>
VariantDB == <<{"a1", "b"}, {"a1", "x1"}, {"a1", "x1"}, {"b", "x2"}, {"b", "x2"}>>
BroadDB == <<{"d"}, {"d", "a1", "b", "c", "e", "x1"}, {"d", "a1", "b", "c", "e", "x1"}>>
MCDBs == SmallDBs \cup {NestedDB, VariantDB, BroadDB}

MCMinConf == [n |-> 17, d |-> 20]
=============================================================================
