------------------------- MODULE MCDiffOutlierResults -------------------------
EXTENDS DiffOutlierResults

Ants == {<<"x">>, <<"x", "x">>, <<"y">>}    \* a duplicate item: the same set
Conss == {<<>>, <<"x">>, <<"y">>, <<"x", "y">>}
RuleSet == [ant : Ants, cons : Conss]
Lists(n) == UNION {[1..k -> RuleSet] : k \in 1..n}

MCVendors == [ep : {"e"}, rules : Lists(2)]
(* the baseline directory with or without rules for the entry point *)
MCBaselines == {[k \in {} |-> <<>>]} \cup [{"e"} -> {<<>>} \cup Lists(2)]
=============================================================================
