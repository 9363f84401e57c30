-------------------------- MODULE FeatureVecCreator --------------------------
(***************************************************************************)
(* createFV of src/outlierdetection/FeatureVecCreator.py: the distinct    *)
(* predicate values get a present code cpred-i and an absent code         *)
(* N_cpred-i, each entry point a label funct_i, and the CSV holds one row  *)
(* of codes per entry point.  The row is read back the way                 *)
(* FreqItemsets.runForAll reads it: loadData keeps the codes not starting  *)
(* with N_, and the inverted pickled maps turn codes into value strings    *)
(* and labels into entry points.                                           *)
(*                                                                         *)
(* Predicates are the parser's: [s |-> str] or a sorted pair              *)
(* [p |-> <<x, y>>], strings being sequences of characters (the backtick  *)
(* is the token BQ).  A code cpred-i is [neg |-> FALSE, id |-> i], and     *)
(* N_cpred-i is [neg |-> TRUE, id |-> i]; a label funct_i is [funct |-> i]. *)
(* No code or label holds a comma, so the CSV's ','.join and loadData's    *)
(* split(',') are inverse: a row is the sequence of its fields.            *)
(***************************************************************************)
EXTENDS Integers, FiniteSets, SequencesExt, Functions

CONSTANTS
  None,
  Inputs    \* the parser outputs: entry point -> list of predicates

VARIABLES
  entryPoints,
  pc,             \* "values", "idmap", "labels", "rows", "done"
  fvValues,       \* list(fvValues): the distinct values, in set order
  fvidmap,        \* value string (or N_ + it) -> code
  labidmap,       \* entry point -> label
  epOrder,        \* the iteration order of the entryPoints dict
  featureVector, labels,
  csv             \* the rows written by dumpCSV

vars == <<entryPoints, pc, fvValues, fvidmap, labidmap, epOrder, featureVector, labels, csv>>

BQ == "bq"
(* getFvValString: "`v`" for a value, "`x`,`y`" for a pair *)
getFvValString(v) == IF "s" \in DOMAIN v THEN <<BQ>> \o v.s \o <<BQ>>
                     ELSE <<BQ>> \o v.p[1] \o <<BQ, ",", BQ>> \o v.p[2] \o <<BQ>>
NKey(val) == <<"N", "_">> \o val

(* the loop's filter: a pair (a, a) is skipped *)
SelfPair(q) == "p" \in DOMAIN q /\ q.p[1] = q.p[2]
(* getSimplifiedVal: IGNORE_ARGS is False, so the raw value is the key *)
getSimplifiedVal(cp) == cp

-----------------------------------------------------------------------------
Init ==
  /\ entryPoints \in Inputs
  /\ pc = "values"
  /\ fvValues = <<>> /\ epOrder = <<>>
  /\ fvidmap = [k \in {} |-> None] /\ labidmap = [k \in {} |-> None]
  /\ featureVector = <<>> /\ labels = <<>> /\ csv = <<>>

(* getFeatVecValues: a set of the non-self values, listed in set order *)
GetFeatVecValues ==
  /\ pc = "values"
  /\ LET vals == {getSimplifiedVal(cp) :
                    cp \in {q \in UNION {ToSet(entryPoints[e]) : e \in DOMAIN entryPoints} :
                              ~SelfPair(q)}}
     IN \E order \in SetToSeqs(vals) : fvValues' = order
  /\ pc' = "idmap"
  /\ UNCHANGED <<entryPoints, fvidmap, labidmap, epOrder, featureVector, labels, csv>>

(* idmap[key] = code, a later key overwriting an equal earlier one *)
SetCode(f, k, c) == [x \in DOMAIN f \cup {k} |-> IF x = k THEN c ELSE f[x]]

(* createIdMap with the absent code equal to the present one *)
CreateIdMapNoNeg ==
  FoldLeft(LAMBDA m, idfv :
             SetCode(SetCode(m, getFvValString(fvValues[idfv]), [neg |-> FALSE, id |-> idfv - 1]),
                     NKey(getFvValString(fvValues[idfv])), [neg |-> FALSE, id |-> idfv - 1]),
           [k \in {} |-> None], [j \in 1..Len(fvValues) |-> j])
(* createIdMap: value idfv (from 0) gets cpred-idfv and N_cpred-idfv *)
CreateIdMap ==
  FoldLeft(LAMBDA m, idfv :
             SetCode(SetCode(m, getFvValString(fvValues[idfv]), [neg |-> FALSE, id |-> idfv - 1]),
                     NKey(getFvValString(fvValues[idfv])), [neg |-> TRUE, id |-> idfv - 1]),
           [k \in {} |-> None], [j \in 1..Len(fvValues) |-> j])

IdMapStep ==
  /\ pc = "idmap"
  /\ fvidmap' = CreateIdMap
  /\ pc' = "labels"
  /\ UNCHANGED <<entryPoints, fvValues, labidmap, epOrder, featureVector, labels, csv>>

(* createLabIdMap: funct_0, funct_1, ... in the dict's order, which the   *)
(* row loop of createFeatureVector sees again                            *)
CreateLabIdMap ==
  /\ pc = "labels"
  /\ \E order \in SetToSeqs(DOMAIN entryPoints) :
       /\ epOrder' = order
       /\ labidmap' = [e \in DOMAIN entryPoints |-> [funct |-> CHOOSE k \in DOMAIN order : order[k] = e] ]
  /\ pc' = "rows"
  /\ UNCHANGED <<entryPoints, fvValues, fvidmap, featureVector, labels, csv>>

(* one iteration of createFeatureVector's loop: the row of one entry     *)
(* point, a present or absent code for every value                       *)
CreateRow ==
  /\ pc = "rows" /\ Len(labels) < Len(epOrder)
  /\ LET ep == epOrder[Len(labels) + 1]
         cpreds == ToSet([k \in DOMAIN entryPoints[ep] |-> getSimplifiedVal(entryPoints[ep][k])])
         val(v) == getFvValString(v)
     IN /\ featureVector' = Append(featureVector,
              [vi \in DOMAIN fvValues |->
                 fvidmap[IF fvValues[vi] \in cpreds THEN val(fvValues[vi]) ELSE NKey(val(fvValues[vi]))]])
        /\ labels' = Append(labels, labidmap[ep])
  /\ UNCHANGED <<entryPoints, pc, fvValues, fvidmap, labidmap, epOrder, csv>>

(* dumpCSV (after the pickle of the same tuple): "lab,code,code,..." *)
DumpCSV ==
  /\ pc = "rows" /\ Len(labels) = Len(epOrder)
  /\ csv' = [k \in DOMAIN labels |-> <<labels[k]>> \o featureVector[k]]
  /\ pc' = "done"
  /\ UNCHANGED <<entryPoints, fvValues, fvidmap, labidmap, epOrder, featureVector, labels>>

Next == GetFeatVecValues \/ IdMapStep \/ CreateLabIdMap \/ CreateRow \/ DumpCSV
Spec == Init /\ [][Next]_vars

-----------------------------------------------------------------------------
(* The reader in FreqItemsets.runForAll: fvinv_map and labinv_map invert   *)
(* the pickled maps; loadData skips the codes starting with N_; a row's    *)
(* entry point is labinv_map[labels[idt]].                                 *)
fvinv_map == [c \in Range(fvidmap) |-> CHOOSE k \in DOMAIN fvidmap : fvidmap[k] = c]
labinv_map == [l \in Range(labidmap) |-> CHOOSE e \in DOMAIN labidmap : labidmap[e] = l]
loadData(rows) == [k \in DOMAIN rows |-> {c \in ToSet(Tail(rows[k])) : ~c.neg}]
Decoded ==
  LET tr == loadData(csv) IN
  [e \in {labinv_map[csv[k][1]] : k \in DOMAIN csv} |->
     LET k == CHOOSE j \in DOMAIN csv : labinv_map[csv[j][1]] = e
     IN {fvinv_map[c] : c \in tr[k]}]

=============================================================================
