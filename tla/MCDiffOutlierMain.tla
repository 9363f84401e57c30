-------------------------- MODULE MCDiffOutlierMain --------------------------
EXTENDS DiffOutlierMain

MCD == INSTANCE MCDiffOutlierResults WITH Vendors <- {}, Baselines <- {}

MCRoot1 == <<"b">>
MCRoot2 == <<"v">>

File(d, n, x, e, rs) == [dir |-> d, name |-> n, xml |-> x, ep |-> e, rules |-> rs]

(* One directory each side, every rule list of up to two rules: the      *)
(* comparisons of ediff, as in MCDiffOutlierResults.                      *)
Contents ==
  {[vendor |-> {File(<<>>, "0", TRUE, "e", vr)}, base |-> bs] :
     vr \in MCD!Lists(2),
     bs \in {{}} \cup {{File(<<>>, "0", TRUE, "e", br)} : br \in {<<>>} \cup MCD!Lists(2)}}

(* Nested directories: the vendor tree has x, x/y and z (z without an     *)
(* .xml file); the baseline tree any of x, x/y, z, a second file in x/y   *)
(* and a file of another entry point in x, with rules that match the      *)
(* vendor's (RA) or not (RB).                                              *)
X == <<<<"x">>>>
XY == <<<<"x">>, <<"y">>>>
Z == <<<<"z">>>>
RA == <<[ant |-> <<"x">>, cons |-> <<"x">>]>>
RB == <<[ant |-> <<"x">>, cons |-> <<"y">>]>>
VendorTrees ==
  {{File(X, "0", TRUE, "e", RA), File(XY, "0", TRUE, "e", RA), File(Z, "1", FALSE, "e", <<>>)},
   {File(X, "0", TRUE, "e", RA), File(XY, "0", TRUE, "e", RA), File(X, "1", FALSE, "e", <<>>)}}
BaseSlots ==
  [x : {{}, {RA}, {RB}}, xy : {{}, {RA}, {RB}}, z : {{}, {RA}},
   xy2 : {{}, {RB}}, xf : {{}, {RA}}]
BaseTree(s) ==
  {File(X, "0", TRUE, "e", rs) : rs \in s.x} \cup {File(XY, "0", TRUE, "e", rs) : rs \in s.xy}
  \cup {File(Z, "0", TRUE, "e", rs) : rs \in s.z} \cup {File(XY, "1", TRUE, "e", rs) : rs \in s.xy2}
  \cup {File(X, "1", TRUE, "f", rs) : rs \in s.xf}
Structure == {[vendor |-> v, base |-> BaseTree(s)] : v \in VendorTrees, s \in BaseSlots}

MCTrees == Contents \cup Structure
=============================================================================
