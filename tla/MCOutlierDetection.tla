------------------------- MODULE MCOutlierDetection -------------------------
(***************************************************************************)
(* ROOT_DIR "a" with subdirectories b, ab and a/b, each holding x.csv, and *)
(* a non-csv file y in b: "a/ab" and "a/b" both give rel_root "b", and     *)
(* "a/a/b" gives "/b", which os.path.join treats as absolute.              *)
(***************************************************************************)
EXTENDS OutlierDetection

MCRoot == <<"a">>
MCOutputDirectory == <<"o">>
B == <<<<"b">>>>
AB == <<<<"a", "b">>>>
A_B == <<<<"a">>, <<"b">>>>
MCFiles == {[dir |-> d, stem |-> "x", csv |-> TRUE] : d \in {<<>>, B, AB, A_B}}
           \cup {[dir |-> B, stem |-> "y", csv |-> FALSE]}
MCLabels == {"0"}
=============================================================================
