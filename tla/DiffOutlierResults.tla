-------------------------- MODULE DiffOutlierResults --------------------------
(***************************************************************************)
(* ediff of src/outlierdetection/DiffOutlierResults.py: every rule of a   *)
(* vendor entry point's XML is compared with the baseline (AOSP) rules of  *)
(* the same entry point; a baseline rule with the same antecedent set      *)
(* either matches the consequent set exactly (no diff at all for the      *)
(* vendor rule) or contributes a diff (vplus, vminus, vsame) tagged with   *)
(* its ordinal; the diffs are attached to the rule as XML elements and    *)
(* the file is rewritten.  A rule is what loadXml/fetchItems read: item    *)
(* lists, duplicates kept.                                                 *)
(***************************************************************************)
EXTENDS Integers, FiniteSets, SequencesExt

CONSTANTS
  None,
  Vendors,    \* vendor files: [ep, rules: list of [ant, cons]]
  Baselines   \* loadAllXmlFiles of the baseline: ep -> list of [ant, cons]

VARIABLES
  vfile, aosp,
  r,          \* the vendor rule being compared, from 1
  a,          \* the baseline rule being scanned, from 1
  diffs,      \* None or the list of <<vplus, vminus, vsame, aidcounter>>
  annot,      \* vendor rule -> the diffs attached to it
  pc          \* "rule", "scan", "attach", "written", "crashed"

vars == <<vfile, aosp, r, a, diffs, annot, pc>>

Rules == vfile.rules
Base == aosp[vfile.ep]

(* getDiff: the three list comprehensions *)
getDiff(v, b) == <<SelectSeq(v, LAMBDA i : i \notin ToSet(b)),
                   SelectSeq(b, LAMBDA i : i \notin ToSet(v)),
                   SelectSeq(v, LAMBDA i : i \in ToSet(b))>>

Init ==
  /\ vfile \in Vendors /\ aosp \in Baselines
  /\ r = 1 /\ a = 1 /\ diffs = None
  /\ annot = [k \in {} |-> <<>>]
  /\ pc = "rule"

(* the head of the loop over the vendor rules: an entry point without     *)
(* baseline rules is skipped                                               *)
StartRule ==
  /\ pc = "rule" /\ r <= Len(Rules)
  /\ diffs' = None
  /\ IF vfile.ep \notin DOMAIN aosp
     THEN r' = r + 1 /\ UNCHANGED <<a, pc>>
     ELSE a' = 1 /\ pc' = "scan" /\ UNCHANGED r
  /\ UNCHANGED <<vfile, aosp, annot>>

(* an exact match that leaves the earlier diffs in place *)
ScanNoReset ==
  /\ pc = "scan" /\ a <= Len(Base)
  /\ LET v == Rules[r]
         b == Base[a]
     IN IF ToSet(v.ant) # ToSet(b.ant) THEN a' = a + 1 /\ UNCHANGED <<diffs, pc>>
        ELSE IF ToSet(b.cons) = ToSet(v.cons) THEN pc' = "attach" /\ UNCHANGED <<a, diffs>>
        ELSE /\ diffs' = (IF diffs = None THEN <<>> ELSE diffs)
                           \o <<getDiff(v.cons, b.cons) \o <<a - 1>>>>
             /\ a' = a + 1 /\ UNCHANGED pc
  /\ UNCHANGED <<vfile, aosp, r, annot>>
(* one baseline rule of the inner loop, lines 90-106 *)
Scan ==
  /\ pc = "scan" /\ a <= Len(Base)
  /\ LET v == Rules[r]
         b == Base[a]
         d == getDiff(v.cons, b.cons)
     IN IF ToSet(v.ant) # ToSet(b.ant) THEN a' = a + 1 /\ UNCHANGED <<diffs, pc>>
        ELSE IF ToSet(b.cons) = ToSet(v.cons) THEN diffs' = None /\ pc' = "attach" /\ UNCHANGED a
        ELSE /\ diffs' = IF d[1] # <<>> \/ d[2] # <<>> \/ d[3] # <<>>
                         THEN (IF diffs = None THEN <<>> ELSE diffs) \o <<d \o <<a - 1>>>>
                         ELSE diffs
             /\ a' = a + 1 /\ UNCHANGED pc
  /\ UNCHANGED <<vfile, aosp, r, annot>>

ScanEnd ==
  /\ pc = "scan" /\ a > Len(Base)
  /\ pc' = "attach"
  /\ UNCHANGED <<vfile, aosp, r, a, diffs, annot>>

(* lines 108-129: the aosp_diff element; its rule_diff gets the attribute  *)
(* {"rule_id": aidcounter}, an int, and lxml accepts only strings: the     *)
(* first diff raises TypeError                                             *)
Attach ==
  /\ pc = "attach"
  /\ IF diffs = None
     THEN r' = r + 1 /\ pc' = "rule" /\ UNCHANGED annot
     ELSE pc' = "crashed" /\ UNCHANGED <<r, annot>>
  /\ UNCHANGED <<vfile, aosp, a, diffs>>

(* line 132: the vendor file is rewritten with the annotations *)
Write ==
  /\ pc = "rule" /\ r > Len(Rules)
  /\ pc' = "written"
  /\ UNCHANGED <<vfile, aosp, r, a, diffs, annot>>

Next == StartRule \/ Scan \/ ScanEnd \/ Attach \/ Write
Spec == Init /\ [][Next]_vars
(* ediff is one sequential loop per vendor file *)
FairSpec == Spec /\ WF_vars(Next)

-----------------------------------------------------------------------------
(* Spec 4.6: the baseline rules whose antecedent set equals the vendor     *)
(* rule's; none of them with an equal consequent set, each gives a diff    *)
(* of the consequents (only-vendor, only-baseline, common) tagged with its *)
(* ordinal.                                                                 *)
Matching(v) == {k \in DOMAIN Base : ToSet(Base[k].ant) = ToSet(v.ant)}
SpecDiffs(v) ==
  IF \/ vfile.ep \notin DOMAIN aosp
     \/ Matching(v) = {}
     \/ \E k \in Matching(v) : ToSet(Base[k].cons) = ToSet(v.cons)
  THEN {}
  ELSE {[plus |-> ToSet(v.cons) \ ToSet(Base[k].cons),
         minus |-> ToSet(Base[k].cons) \ ToSet(v.cons),
         same |-> ToSet(v.cons) \cap ToSet(Base[k].cons), id |-> k - 1] : k \in Matching(v)}
AsSet(ds) == IF ds = None THEN {}
             ELSE {[plus |-> ToSet(d[1]), minus |-> ToSet(d[2]), same |-> ToSet(d[3]), id |-> d[4]]
                     : d \in ToSet(ds)}

(* When the scan of a vendor rule ends -- by the exact-match break or by   *)
(* running out of baseline rules -- diffs holds exactly the spec's diffs:  *)
(* an exact match anywhere among the matching baseline rules discards the *)
(* diffs found before it, and every other matching rule contributes one.  *)
DiffsAsSpecified == pc = "attach" => AsSet(diffs) = SpecDiffs(Rules[r])

(* ediff always finishes by rewriting the vendor file with its diffs. *)
AnnotatedFileWritten == <>(pc = "written")
=============================================================================
