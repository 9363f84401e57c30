---------------------------- MODULE FreqItemsets ----------------------------
(***************************************************************************)
(* The association-rule engine of src/outlierdetection/FreqItemsets.py,    *)
(* as runForAll drives it for one feature-vector file:                     *)
(*   loadData       codes the present predicates of every entry point,     *)
(*   loadAndStrip   replaces every group of >= 2 codes that occur in       *)
(*                  exactly the same transactions by one composite code    *)
(*                  (one step per group, in the arbitrary dict order),     *)
(*   eclat          mines the closed frequent itemsets (a black box,       *)
(*                  given here by its definition),                         *)
(*   getAssocRules  scans the itemsets for one target (one step per        *)
(*                  itemset, in the miner's arbitrary order) and ranks the *)
(*                  candidate rules,                                       *)
(*   checkConsistency decodes the ranked candidates and drops redundant    *)
(*                  ones (one step per candidate),                         *)
(* for every non-empty transaction in order (PARALLELIZE is False).        *)
(*                                                                         *)
(* Raw predicates are opaque values; simplifyPredicate (MethodFilter.py)   *)
(* is the constant map Canon.  Ratios are kept exact as [n, d] records:    *)
(* every ratio the code compares has small integer operands, so the        *)
(* float comparisons agree with the rational ones.                        *)
(***************************************************************************)
EXTENDS Integers, Sequences, FiniteSets, SequencesExt

CONSTANTS
  Preds,            \* fvValues: the feature-vector columns, in CSV order
  Canon,            \* simplifyPredicate: raw predicate -> canonical key
  DBs,              \* inputs: one set of raw predicates per entry point
  MIN_SUPPORT,      \* eclat supp=-MIN_SUPPORT (absolute support count)
  MIN_ITEMSET_SIZE, \* eclat zmin
  MIN_CONF          \* 0.85, as a ratio [n |-> 17, d |-> 20]

ASSUME MIN_SUPPORT \in Nat /\ MIN_ITEMSET_SIZE \in Nat
ASSUME \A d \in DBs : \A i \in DOMAIN d : d[i] \subseteq ToSet(Preds)

VARIABLES
  db,       \* the parsed input (history; the code reads it once)
  idMap,    \* code -> [pred |-> p] or, for a composite, [members |-> S]
  trans,    \* the transactions: one sorted list of codes per entry point
  groups,   \* loadAndStrip: inverseCommonPatterns not yet applied
  mined,    \* the itemsets returned by eclat
  tgt,      \* index of the target transaction under analysis
  pending,  \* getAssocRules: itemsets not yet scanned for this target
  res,      \* getAssocRules: candidate rules found so far
  ranked,   \* checkConsistency: ranked candidates not yet decoded
  rules,    \* checkConsistency: decoded rules accepted so far
  out,      \* target -> the rules written for it
  pc

vars == <<db, idMap, trans, groups, mined, tgt, pending, res, ranked, rules, out, pc>>

-----------------------------------------------------------------------------
(* Ratios and Python's ordering of lists.                                  *)
Ratio(n, d) == [n |-> n, d |-> d]
RatLess(x, y) == x.n * y.d < y.n * x.d
RatEq(x, y) == x.n * y.d = y.n * x.d

RECURSIVE ListLess(_, _)
ListLess(s, t) ==
  IF s = <<>> THEN t # <<>>
  ELSE IF t = <<>> THEN FALSE
  ELSE IF Head(s) # Head(t) THEN Head(s) < Head(t)
  ELSE ListLess(Tail(s), Tail(t))

Sorted(S) == SetToSortSeq(S, <)

-----------------------------------------------------------------------------
(* loadData: a code per present predicate, in order of first appearance    *)
(* (lines in order, each line's columns in fvValues order).               *)
Col(p) == CHOOSE k \in DOMAIN Preds : Preds[k] = p
FirstLine(d, p) == CHOOSE i \in DOMAIN d : p \in d[i] /\ \A j \in 1..(i-1) : p \notin d[j]
Appears(d) == UNION {d[i] : i \in DOMAIN d}
CodeOrder(d) ==
  SetToSortSeq(Appears(d), LAMBDA p, q : \/ FirstLine(d, p) < FirstLine(d, q)
                                         \/ FirstLine(d, p) = FirstLine(d, q) /\ Col(p) < Col(q))
Code(d, p) == CHOOSE k \in DOMAIN CodeOrder(d) : CodeOrder(d)[k] = p
(* mutant: codes counted from 0, as Python's idMap.index does *)
LoadTransFromZero(d) == [i \in DOMAIN d |-> Sorted({Code(d, p) - 1 : p \in d[i]})]
LoadTrans(d) == [i \in DOMAIN d |-> Sorted({Code(d, p) : p \in d[i]})]

(* loadAndStrip: commonPatterns (code -> transactions containing it),      *)
(* inverted, keeping only transaction sets shared by >= 2 codes.           *)
Codes(T) == UNION {ToSet(T[i]) : i \in DOMAIN T}
Cover(T, c) == {i \in DOMAIN T : c \in ToSet(T[i])}
CommonPatterns(T) ==
  {[tr |-> K, items |-> {c \in Codes(T) : Cover(T, c) = K}] : K \in {Cover(T, c) : c \in Codes(T)}}
InverseGroups(T) == {g \in CommonPatterns(T) : Cardinality(g.items) > 1}

(* expandCpreds: codes -> raw predicates, composites through their members *)
ExpandCode(m, c) == IF "members" \in DOMAIN m[c] THEN {m[x].pred : x \in m[c].members}
                                                ELSE {m[c].pred}
expandCpreds(m, cs) == UNION {ExpandCode(m, c) : c \in ToSet(cs)}

(* eclat(target='c'): closed itemsets with support >= MIN_SUPPORT and at   *)
(* least MIN_ITEMSET_SIZE items.                                           *)
Supp(T, S) == Cardinality({i \in DOMAIN T : S \subseteq ToSet(T[i])})
eclat(T) ==
  {S \in SUBSET Codes(T) :
     /\ Cardinality(S) >= MIN_ITEMSET_SIZE
     /\ Supp(T, S) >= MIN_SUPPORT
     /\ \A c \in Codes(T) \ S : Supp(T, S \cup {c}) < Supp(T, S)}

-----------------------------------------------------------------------------
(* getAssocRules and its helpers, over transactions T and target index t.  *)
getIntersection(a, b) == SelectSeq(a, LAMBDA i : Contains(b, i))
setAContainsB(a, b) == ToSet(b) \subseteq ToSet(a)
jaccard(s1, s2) ==
  LET m11 == Cardinality(ToSet(s1) \cap ToSet(s2))
      all == Cardinality(ToSet(s1) \cup ToSet(s2))
  IN IF all = 0 THEN Ratio(0, 1) ELSE Ratio(m11, all)

(* The transactions a scan counts: all but the first one equal to target.  *)
(* mutant: every transaction equal to the target skipped (skipFlag never reset) *)
CountedAllCopies(T, t) == {j \in DOMAIN T : T[j] # T[t]}
Counted(T, t) ==
  LET first == CHOOSE j \in DOMAIN T : T[j] = T[t] /\ \A k \in 1..(j-1) : T[k] # T[t]
  IN DOMAIN T \ {first}
(* mutant: setAContainsB called with its arguments swapped *)
calcSupportFracSwapped(s, T, t) ==
  Ratio(Cardinality({j \in Counted(T, t) : setAContainsB(s, T[j])}), Cardinality(Counted(T, t)))
calcSupportFrac(s, T, t) ==
  Ratio(Cardinality({j \in Counted(T, t) : setAContainsB(T[j], s)}), Cardinality(Counted(T, t)))
calcConfidence(lhs, rhs, T, t) ==
  Ratio(Cardinality({j \in Counted(T, t) : setAContainsB(T[j], lhs \o rhs)}),
        Cardinality({j \in Counted(T, t) : setAContainsB(T[j], lhs)}))

Lhs(T, t, S) == getIntersection(T[t], Sorted(S))
Rhs(T, t, S) == SelectSeq(Sorted(S), LAMBDA i : ~Contains(Lhs(T, t, S), i))
Conf(T, t, S) == calcConfidence(Lhs(T, t, S), Rhs(T, t, S), T, t)
SFrac(T, t, S) == calcSupportFrac(Rhs(T, t, S), T, t)

(* One pass of the itemset loop, in the order of the code's exits. *)
IsSelf(T, t, S) == T[t] = Sorted(S)
ItemsetOutcome(T, t, S) ==
  CASE IsSelf(T, t, S)                                         -> "return"
    [] Len(Rhs(T, t, S)) = 0 \/ jaccard(T[t], Lhs(T, t, S)).n = 0 -> "continue"
    [] Conf(T, t, S).d = 0                                      -> "crash"
    [] RatLess(Conf(T, t, S), MIN_CONF)                         -> "continue"
    [] SFrac(T, t, S).d = 0 \/ SFrac(T, t, S).n = 0              -> "crash"
    [] OTHER                                                    -> "rule"
Candidate(T, t, S) ==
  [jacc |-> jaccard(T[t], Lhs(T, t, S)), conf |-> Conf(T, t, S),
   lhs |-> Lhs(T, t, S), rhs |-> Rhs(T, t, S), sup |-> Supp(T, S)]

(* res.sort(key=(jacc, conf, sup, (lhs, rhs), ...), reverse=True); the     *)
(* (lhs, rhs) pair already differs between any two candidates.             *)
RankedBefore(a, b) ==
  \/ RatLess(b.jacc, a.jacc)
  \/ RatEq(a.jacc, b.jacc) /\ RatLess(b.conf, a.conf)
  \/ RatEq(a.jacc, b.jacc) /\ RatEq(a.conf, b.conf) /\ a.sup > b.sup
  \/ /\ RatEq(a.jacc, b.jacc) /\ RatEq(a.conf, b.conf) /\ a.sup = b.sup
     /\ \/ ListLess(b.lhs, a.lhs)
        \/ b.lhs = a.lhs /\ ListLess(b.rhs, a.rhs)

-----------------------------------------------------------------------------
(* decodeAssocRule: expand, group by canonical key, filter.                *)
decodeAssocRule(m, c, target) ==
  LET lhsE == expandCpreds(m, c.lhs)
      tE   == expandCpreds(m, target)
      rhsE == expandCpreds(m, c.rhs)
      tKeys == {Canon[p] : p \in tE}
  IN [lhsE |-> lhsE, rhsE |-> rhsE, conf |-> c.conf, sup |-> c.sup,
      rhsKeys |-> {Canon[p] : p \in rhsE} \ tKeys,
      altKeys |-> {Canon[p] : p \in rhsE} \cap tKeys,
      missing |-> tE \ lhsE]
(* Redundant: new_rhs <= old_rhs for some already accepted rule. *)
Redundant(r, acc) == \E i \in DOMAIN acc : r.rhsE \subseteq acc[i].rhsE
DecodeOutcome(r, acc) ==
  CASE r.rhsKeys = {} /\ r.altKeys = {}                           -> "none"
    [] Cardinality(r.lhsE) = 0                                     -> "crash"
    [] Cardinality(r.rhsKeys) >= 5 * Cardinality(r.lhsE)           -> "none"
    [] Redundant(r, acc)                                           -> "redundant"
    [] OTHER                                                       -> "accept"

NonEmptyFrom(T, i) == {j \in DOMAIN T : j >= i /\ Len(T[j]) > 0}
-----------------------------------------------------------------------------
(* The actions of runForAll.                                                *)
Init ==
  /\ db \in DBs
  /\ idMap = <<>> /\ trans = <<>> /\ groups = {} /\ mined = {}
  /\ tgt = 0 /\ pending = {} /\ res = {} /\ ranked = <<>> /\ rules = <<>>
  /\ out = [i \in DOMAIN db |-> <<>>]
  /\ pc = "load"

(* loadData reads the feature-vector CSV (every column but the label,      *)
(* dropping the N_ codes) and calls loadAndStrip, which first builds the   *)
(* inverted commonPatterns dictionary.                                     *)
loadData ==
  /\ pc = "load"
  /\ idMap' = [k \in DOMAIN CodeOrder(db) |-> [pred |-> CodeOrder(db)[k]]]
  /\ trans' = LoadTrans(db)
  /\ groups' = InverseGroups(LoadTrans(db))
  /\ pc' = "strip"
  /\ UNCHANGED <<db, mined, tgt, pending, res, ranked, rules, out>>

(* mutant: the index read before the append (off by one) *)
loadAndStripIndexBeforeAppend ==
  /\ pc = "strip"
  /\ \E g \in groups :
       /\ idMap' = Append(idMap, [members |-> g.items])
       /\ trans' = [i \in DOMAIN trans |->
                      IF i \in g.tr THEN Append(SelectSeq(trans[i], LAMBDA c : c \notin g.items), Len(idMap))
                      ELSE trans[i]]
       /\ groups' = groups \ {g}
  /\ UNCHANGED <<db, mined, tgt, pending, res, ranked, rules, out, pc>>
(* mutant: the composite inserted at the front of the list *)
loadAndStripPrepend ==
  /\ pc = "strip"
  /\ \E g \in groups :
       /\ idMap' = Append(idMap, [members |-> g.items])
       /\ trans' = [i \in DOMAIN trans |->
                      IF i \in g.tr THEN <<Len(idMap) + 1>> \o SelectSeq(trans[i], LAMBDA c : c \notin g.items)
                      ELSE trans[i]]
       /\ groups' = groups \ {g}
  /\ UNCHANGED <<db, mined, tgt, pending, res, ranked, rules, out, pc>>

(* One iteration of loadAndStrip's loop over inverseCommonPatterns: the    *)
(* group gets the next idMap index and replaces its members, at the end    *)
(* of the list, in every transaction of its key.                           *)
loadAndStrip ==
  /\ pc = "strip"
  /\ \E g \in groups :
       LET indexval == Len(idMap) + 1 IN
       /\ idMap' = Append(idMap, [members |-> g.items])
       /\ trans' = [i \in DOMAIN trans |->
                      IF i \in g.tr
                      THEN Append(SelectSeq(trans[i], LAMBDA c : c \notin g.items), indexval)
                      ELSE trans[i]]
       /\ groups' = groups \ {g}
  /\ UNCHANGED <<db, mined, tgt, pending, res, ranked, rules, out, pc>>

(* runForAll: mine, then one checkConsistency per non-empty transaction.   *)
Mine ==
  /\ pc = "strip" /\ groups = {}
  /\ mined' = eclat(trans)
  /\ IF NonEmptyFrom(trans, 1) = {}
     THEN pc' = "done" /\ UNCHANGED <<tgt, pending>>
     ELSE /\ tgt' = Min(NonEmptyFrom(trans, 1))
          /\ pending' = eclat(trans)
          /\ pc' = "assoc"
  /\ UNCHANGED <<db, idMap, trans, groups, res, ranked, rules, out>>

(* getAssocRules: one itemset of the loop.  "return" ends the scan with   *)
(* no rules (target == iset).  An itemset whose outcome is "crash" (a     *)
(* ZeroDivisionError, which aborts the run) enables no action: the run     *)
(* stops there, and NoDivisionByZero reports it.                           *)
AssocReturn ==
  /\ pc = "assoc"
  /\ \E S \in pending : ItemsetOutcome(trans, tgt, S) = "return"
  /\ res' = {} /\ pending' = {} /\ pc' = "decode"
  /\ UNCHANGED <<db, idMap, trans, groups, mined, tgt, ranked, rules, out>>

AssocContinue ==
  /\ pc = "assoc"
  /\ \E S \in pending : /\ ItemsetOutcome(trans, tgt, S) = "continue"
                        /\ pending' = pending \ {S}
  /\ UNCHANGED <<db, idMap, trans, groups, mined, tgt, res, ranked, rules, out, pc>>

AssocRule ==
  /\ pc = "assoc"
  /\ \E S \in pending : /\ ItemsetOutcome(trans, tgt, S) = "rule"
                        /\ res' = res \cup {Candidate(trans, tgt, S)}
                        /\ pending' = pending \ {S}
  /\ UNCHANGED <<db, idMap, trans, groups, mined, tgt, ranked, rules, out, pc>>

(* getAssocRules: the loop is over; the candidates are ranked. *)
RankRules ==
  /\ pc = "assoc" /\ pending = {}
  /\ ranked' = SetToSortSeq(res, RankedBefore)
  /\ pc' = "decode"
  /\ UNCHANGED <<db, idMap, trans, groups, mined, tgt, pending, res, rules, out>>

(* checkConsistency: one ranked candidate decoded and filtered. *)
Decoded == decodeAssocRule(idMap, Head(ranked), trans[tgt])

DecodeAccept ==
  /\ pc = "decode" /\ ranked # <<>>
  /\ DecodeOutcome(Decoded, rules) = "accept"
  /\ rules' = Append(rules, Decoded) /\ ranked' = Tail(ranked)
  /\ UNCHANGED <<db, idMap, trans, groups, mined, tgt, pending, res, out, pc>>

DecodeDrop ==
  /\ pc = "decode" /\ ranked # <<>>
  /\ DecodeOutcome(Decoded, rules) \in {"none", "redundant"}
  /\ ranked' = Tail(ranked)
  /\ UNCHANGED <<db, idMap, trans, groups, mined, tgt, pending, res, rules, out, pc>>

(* checkConsistency writes the accepted rules; the run moves to the next   *)
(* non-empty transaction.                                                  *)
FinishTarget ==
  /\ pc = "decode" /\ ranked = <<>>
  /\ out' = [out EXCEPT ![tgt] = rules]
  /\ rules' = <<>> /\ res' = {}
  /\ IF NonEmptyFrom(trans, tgt + 1) = {}
     THEN pc' = "done" /\ UNCHANGED <<tgt, pending>>
     ELSE /\ tgt' = Min(NonEmptyFrom(trans, tgt + 1))
          /\ pending' = mined
          /\ pc' = "assoc"
  /\ UNCHANGED <<db, idMap, trans, groups, mined, ranked>>

Next ==
  \/ loadData
  \/ loadAndStrip
  \/ Mine
  \/ AssocReturn \/ AssocContinue \/ AssocRule
  \/ RankRules
  \/ DecodeAccept \/ DecodeDrop
  \/ FinishTarget

Spec == Init /\ [][Next]_vars

-----------------------------------------------------------------------------
(* Properties.                                                             *)
TypeOK ==
  /\ pc \in {"load", "strip", "assoc", "decode", "done"}
  /\ db \in DBs
  /\ \A c \in DOMAIN idMap :
       idMap[c] \in [pred : ToSet(Preds)] \cup [members : SUBSET (1..(c-1))]
  /\ \A i \in DOMAIN trans : trans[i] \in Seq(DOMAIN idMap)
  /\ mined \subseteq SUBSET DOMAIN idMap
  /\ pending \subseteq mined
  /\ ranked \in Seq(res)
  /\ DOMAIN out = DOMAIN db

(* loadAndStrip is lossless: at every step of its loop, in whatever order *)
(* the dict yields the groups, expanding an entry point's codes through    *)
(* idMap gives back exactly the predicates the entry point has.            *)
StripLossless ==
  pc # "load" => \A i \in DOMAIN db : expandCpreds(idMap, trans[i]) = db[i]

(* The code compares transactions and itemsets as Python lists (the       *)
(* target == iset exit of getAssocRules, the skip of the target's first    *)
(* instance in calcConfidence and calcSupportFrac).  After loadAndStrip    *)
(* has appended composite codes, list equality must still be set           *)
(* equality, or a target goes unrecognised.                                *)
ListEqualityIsSetEquality ==
  pc \in {"assoc", "decode"} =>
    /\ \A i, j \in DOMAIN trans : trans[i] = trans[j] <=> ToSet(trans[i]) = ToSet(trans[j])
    /\ \A i \in DOMAIN trans, S \in mined : trans[i] = Sorted(S) <=> ToSet(trans[i]) = S

(* The confidence of every candidate rule is the share, among the OTHER   *)
(* entry points that have the rule's antecedent predicates, of those that  *)
(* also have its consequent: skipping the first list equal to the target   *)
(* (calcConfidence) over compressed codes is the same as leaving the       *)
(* target entry point itself out of the raw input.                         *)
ConfidenceOverOtherEntryPoints ==
  \A c \in res :
    LET lhsE == expandCpreds(idMap, c.lhs)
        ruleE == lhsE \cup expandCpreds(idMap, c.rhs)
        others == DOMAIN db \ {tgt}
    IN c.conf = Ratio(Cardinality({j \in others : ruleE \subseteq db[j]}),
                      Cardinality({j \in others : lhsE \subseteq db[j]}))

(* No ratio the run computes (calcConfidence, calcSupportFrac, lift,       *)
(* the len(RHS)/len(LHS) filter of decodeAssocRule) divides by zero.       *)
NoDivisionByZero ==
  /\ pc = "assoc" => \A S \in pending : ItemsetOutcome(trans, tgt, S) # "crash"
  /\ pc = "decode" /\ ranked # <<>> => DecodeOutcome(Decoded, rules) # "crash"

(* Spec 4.3 step 1: an itemset equal to the target is skipped; every     *)
(* other itemset that passes the filters yields a candidate.  The code     *)
(* returns [] for the whole target instead.                                *)
AssocRulesMatchSpec ==
  pc = "decode" =>
    {Candidate(trans, tgt, S) : S \in {S \in mined : ItemsetOutcome(trans, tgt, S) = "rule"}}
      \subseteq res

(* Spec 4.5: a rule is accepted only if its true-consequent group keys    *)
(* are not a subset of those of an earlier accepted rule.  The code        *)
(* compares the raw expanded consequents (alternative checks included).   *)
RedundancyOnConsequentKeys ==
  \A i, j \in DOMAIN rules : i < j => ~(rules[j].rhsKeys \subseteq rules[i].rhsKeys)

=============================================================================
