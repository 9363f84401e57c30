---------------------- MODULE MCControlPredicateParser ----------------------
EXTENDS ControlPredicateParser

(* ord() of the characters the names are written with *)
MCRank == [c \in {"a", "b", ",", "e", "f"} |->
             CASE c = "," -> 44 [] c = "a" -> 97 [] c = "b" -> 98
               [] c = "e" -> 101 [] OTHER -> 102]

A == <<"a">>
B == <<"b">>
AB == <<"a", "b">>     \* A is a proper prefix: sorted() puts it first
AC == <<"a", ",">>     \* a comma inside backticks is part of the name
E == <<"e">>
F == <<"f">>

Singles == {[s |-> x] : x \in {A, B, AC}}
Pairs == {[p |-> <<x, y>>] : x, y \in {A, B, AB}}
Items == Singles \cup Pairs
Preds(n) == UNION {[1..k -> Items] : k \in 0..n}
LinesOf(ep, n) == {[ep |-> ep, preds |-> ps] : ps \in Preds(n)}

(* A line with only its entry point, after a line of the same entry point *)
(* that already has predicates.                                           *)
LosesPredicates(l) ==
  \E j, k \in DOMAIN l :
    /\ j < k /\ l[j] # Blank /\ l[k] # Blank /\ l[j].ep = l[k].ep
    /\ l[j].preds # <<>> /\ l[k].preds = <<>>

AllLogs == {<<x>> : x \in LinesOf(E, 2)}
           \cup {<<x, Blank, y>> : x \in LinesOf(E, 1), y \in LinesOf(F, 1) \cup LinesOf(E, 1)}

(* the logs the dumper writes: one line per entry point, or repeated lines *)
(* that each list predicates                                              *)
MCLogs == {l \in AllLogs : ~LosesPredicates(l)}

(* repeated entry points with an entry-only line after a full one *)
DupLogs == {l \in AllLogs : LosesPredicates(l)}
=============================================================================
