---------------------------- MODULE EntrypointDiff ----------------------------
(***************************************************************************)
(* The pipeline on one log, end to end: parseControlPredicates reads the  *)
(* log (ControlPredicateParser), createFV encodes what it returned         *)
(* (FeatureVecCreator, whose entryPoints is the parser's out), and         *)
(* src/outlierdetection/EntrypointDiff.py then loads the pickled maps,    *)
(* finds the feature-vector rows of two entry points, partitions their    *)
(* codes into shared, only-first and only-second predicates, and writes    *)
(* them to XML, each predicate value as its backtick-separated parts.     *)
(***************************************************************************)
EXTENDS Integers, FiniteSets, SequencesExt, Functions

CONSTANTS
  None,
  Rank, Logs, \* the parser's
  Unknown     \* an entry-point name given on the command line that is not in the log

VARIABLES
  log, input, ln, i, inSymbol, firstSymbol, isEntryPoint, sb, sb2, entryPoint, out, phase,
  pc, fvValues, fvidmap, labidmap, epOrder, featureVector, labels, csv,
  ediff      \* None, or what the run wrote (or that it exited)

parserVars == <<log, input, ln, i, inSymbol, firstSymbol, isEntryPoint, sb, sb2, entryPoint, out, phase>>
fvcVars == <<pc, fvValues, fvidmap, labidmap, epOrder, featureVector, labels, csv>>
vars == <<parserVars, fvcVars, ediff>>

P == INSTANCE ControlPredicateParser
(* create(): the parser's result is createFV's input *)
FVC == INSTANCE FeatureVecCreator WITH entryPoints <- out, Inputs <- {[x \in {} |-> <<>>]}
entryPoints == out

(* getIndex: labels.index(labidmap[ep]), from 1 *)
getIndex(ep) == CHOOSE k \in DOMAIN labels : labels[k] = labidmap[ep]

(* the loop over the two rows, lines 106-114; codes are compared whole *)
PartitionSwapped(f1, f2) ==
  FoldLeft(LAMBDA acc, idv :
             IF f1[idv] = f2[idv]
             THEN IF ~f1[idv].neg THEN [acc EXCEPT !.sim = Append(@, f1[idv])] ELSE acc
             ELSE IF f2[idv].neg THEN [acc EXCEPT !.d2 = Append(@, f2[idv])]
                  ELSE [acc EXCEPT !.d1 = Append(@, f1[idv])],
           [sim |-> <<>>, d1 |-> <<>>, d2 |-> <<>>], [j \in DOMAIN f1 |-> j])
Partition(f1, f2) ==
  FoldLeft(LAMBDA acc, idv :
             IF f1[idv] = f2[idv]
             THEN IF ~f1[idv].neg THEN [acc EXCEPT !.sim = Append(@, f1[idv])] ELSE acc
             ELSE IF f1[idv].neg THEN [acc EXCEPT !.d2 = Append(@, f2[idv])]
                  ELSE [acc EXCEPT !.d1 = Append(@, f1[idv])],
           [sim |-> <<>>, d1 |-> <<>>, d2 |-> <<>>], [j \in DOMAIN f1 |-> j])

(* str.split('`') *)
RECURSIVE Split(_, _)
Split(s, d) == IF \A k \in DOMAIN s : s[k] # d THEN <<s>>
               ELSE LET k == Min({j \in DOMAIN s : s[j] = d})
                    IN <<SubSeq(s, 1, k - 1)>> \o Split(SubSeq(s, k + 1, Len(s)), d)
(* dumpControlPredXml: the parts of the value string other than "," and "" *)
ArgVals(val) == SelectSeq(Split(val, FVC!BQ), LAMBDA v : v # <<",">> /\ Len(v) >= 1)
(* writeXml: each list of codes as the arguments of its values *)
XmlOf(codes) == [k \in DOMAIN codes |-> ArgVals(FVC!fvinv_map[codes[k]])]

Init == P!Init /\ FVC!Init /\ ediff = None

(* parseControlPredicates, one character at a time *)
ParseStep == P!Next /\ UNCHANGED <<fvcVars, ediff>>
(* createFV, once the parser has returned *)
CreateFVStep == phase = "done" /\ FVC!Next /\ UNCHANGED <<parserVars, ediff>>

(* __main__: two entry points from the command line; an unknown one exits *)
(* in getIndex; otherwise the partition is written by writeXml            *)
DiffEntrypoints ==
  /\ pc = "done" /\ ediff = None
  /\ \E ep1, ep2 \in DOMAIN labidmap \cup {Unknown} :
       ediff' = IF ep1 \notin DOMAIN labidmap \/ ep2 \notin DOMAIN labidmap
                THEN [ep1 |-> ep1, ep2 |-> ep2, exit |-> TRUE]
                ELSE LET part == Partition(featureVector[getIndex(ep1)],
                                           featureVector[getIndex(ep2)])
                     IN [ep1 |-> ep1, ep2 |-> ep2, exit |-> FALSE,
                         sim |-> XmlOf(part.sim), d1 |-> XmlOf(part.d1), d2 |-> XmlOf(part.d2)]
  /\ UNCHANGED <<parserVars, fvcVars>>

Next == ParseStep \/ CreateFVStep \/ DiffEntrypoints
Spec == Init /\ [][Next]_vars

-----------------------------------------------------------------------------
(* the predicates of an entry point, as the parts written for them *)
Args(q) == IF "s" \in DOMAIN q THEN <<q.s>> ELSE q.p
ArgsOf(e) == {Args(q) : q \in {r \in ToSet(entryPoints[e]) : ~FVC!SelfPair(r)}}

(* The XML for two known entry points lists, as controlpredsims, exactly   *)
(* the predicates both have, and as each one's controlpreddiffs exactly    *)
(* those only it has, each with its own parts: the code comparison and the *)
(* N_ tests of lines 106-114, over rows written by createFV, and the split *)
(* of the decoded value.  An unknown entry point exits instead.           *)
DiffMatchesPredicates ==
  ediff # None =>
    IF ediff.ep1 = Unknown \/ ediff.ep2 = Unknown THEN ediff.exit
    ELSE /\ ~ediff.exit
         /\ ToSet(ediff.sim) = ArgsOf(ediff.ep1) \cap ArgsOf(ediff.ep2)
         /\ ToSet(ediff.d1) = ArgsOf(ediff.ep1) \ ArgsOf(ediff.ep2)
         /\ ToSet(ediff.d2) = ArgsOf(ediff.ep2) \ ArgsOf(ediff.ep1)

(* After every line of the log, out holds what the lines so far mean      *)
(* (the parser's run, inside the pipeline).                                *)
ParsedAsWritten == P!ParsedAsWritten

(* The refinement mapping: the abstract encoder's input is what the log   *)
(* means; until the CSV is written the encoding is None, then it is what  *)
(* runForAll reads back from the CSV and the pickle.                      *)
LogMeaning(l) == P!Expected(l, Len(l))
Abs == INSTANCE ItemEncoder WITH entryPoints <- LogMeaning(log),
                                 Inputs <- {LogMeaning(l) : l \in Logs},
                                 enc <- IF pc = "done" THEN FVC!Decoded ELSE None,
                                 Key <- FVC!getFvValString

(* The pipeline implements the item encoder of spec 4.2 for what the log  *)
(* says: once parseControlPredicates and createFV have run, reading the    *)
(* CSV back as runForAll does gives every entry point of the log exactly   *)
(* the value strings of its predicates -- no absent value, no self pair -- *)
(* and no later step changes it.                                           *)
EncoderRefinement == Abs!Spec
=============================================================================
