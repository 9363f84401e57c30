---------------------------- MODULE MethodFilter ----------------------------
(***************************************************************************)
(* The predicate canonicalizer of src/outlierdetection/parsers/           *)
(* MethodFilter.py: parseMethod masks the argument list of a method-call  *)
(* predicate, keeping the arguments named by the allow-list, which it     *)
(* extracts with getFirstArgInternal and the chained getNthArg helpers.   *)
(*                                                                         *)
(* A predicate is a sequence of one-character strings.  The leading       *)
(* method signature "<cls: ret name(types)>" is one symbol of Sigs (its   *)
(* '>' is the first one in the predicate, as in every Soot signature);    *)
(* inside the arguments a nested signature is "<", "m", ">", where "m"    *)
(* stands for its body, whose parentheses are balanced.  Positions are     *)
(* Python's, from 0.                                                       *)
(***************************************************************************)
EXTENDS Integers, Sequences, FiniteSets, SequencesExt

CONSTANTS
  None,       \* Python's None
  Crash,      \* a TypeError or IndexError raised by the code
  Kind,       \* signature symbol -> which allow-list branch it is in
  Inputs      \* the predicates to canonicalize

Sigs == DOMAIN Kind
Kinds == {"first", "second", "fourth", "fifth", "fourthfifth", "eighth", "other"}
ASSUME \A s \in Sigs : Kind[s] \in Kinds

VARIABLES name, out
vars == <<name, out>>

Q == "\""
Digits == {"0", "1", "2"}
At(s, i) == s[i + 1]
(* Python's s[a:b] and s[a:] *)
Slice(s, a, b) == IF a >= b \/ a >= Len(s) THEN <<>>
                  ELSE SubSeq(s, a + 1, IF b > Len(s) THEN Len(s) ELSE b)
Drop(s, a) == Slice(s, a, Len(s))
(* str.strip() of the spaces around s *)
StripSp(s) == LET ns == {i \in DOMAIN s : s[i] # " "}
              IN IF ns = {} THEN <<>> ELSE SubSeq(s, Min(ns), Max(ns))
Idx(s) == 0..(Len(s) - 1)

-----------------------------------------------------------------------------
(* getFirstArgInternal: the first quoted string, nested call, ALL or run   *)
(* of digits in s, and the end position the code returns with it.        *)
IsALL(s, i) == Slice(s, i, i + 3) = <<"A", "L", "L">>
Starts(s) == {i \in Idx(s) : At(s, i) \in {Q, "<"} \cup Digits \/ IsALL(s, i)}

QuoteArg(s, p) ==
  LET closes == {j \in (p + 1)..(Len(s) - 1) : At(s, j) = Q}
      e == IF closes = {} THEN 0 ELSE Min(closes)
  IN [tok |-> <<Q>> \o Slice(s, p + 1, e) \o <<Q>>, end |-> e]

(* the ')' closing the '(' at e: the depth counts from that '(' *)
Depth(s, e, i) == LET w == Slice(s, e, i + 1) IN
  Cardinality({k \in DOMAIN w : w[k] = "("}) - Cardinality({k \in DOMAIN w : w[k] = ")"})
ParenEnd(s, e) == LET cl == {i \in (e + 1)..(Len(s) - 1) : Depth(s, e, i) = 0}
                  IN IF cl = {} THEN e ELSE Min(cl) + 1

(* the copy in FeatureVecCreator.getFirstArg stops at the '>' *)
CallArgNoArgs(s, p) ==
  LET gts == {j \in (p + 1)..(Len(s) - 1) : At(s, j) = ">"}
      e1 == IF gts # {} THEN Min(gts) + 1
            ELSE IF p + 1 <= Len(s) - 1 THEN Len(s) - 1 ELSE 0
  IN [tok |-> Slice(s, p, e1), end |-> e1]
CallArg(s, p) ==
  LET gts == {j \in (p + 1)..(Len(s) - 1) : At(s, j) = ">"}
      e1 == IF gts # {} THEN Min(gts) + 1
            ELSE IF p + 1 <= Len(s) - 1 THEN Len(s) - 1 ELSE 0
  IN IF e1 >= Len(s) THEN Crash
     ELSE IF At(s, e1) = "("
          THEN [tok |-> Slice(s, p, ParenEnd(s, e1)), end |-> ParenEnd(s, e1)]
          ELSE [tok |-> Slice(s, p, e1), end |-> e1]

(* the end is only advanced past the second digit: 0 for a single digit *)
NumArg(s, p) ==
  LET run == Max({k \in 1..(Len(s) - p) : \A j \in p..(p + k - 1) : At(s, j) \in Digits})
  IN [tok |-> Slice(s, p, p + run), end |-> IF run >= 2 THEN p + run ELSE 0]

getFirstArgInternal(s) ==
  IF Starts(s) = {} THEN [tok |-> None, end |-> None]
  ELSE LET p == Min(Starts(s)) IN
       CASE At(s, p) = Q   -> QuoteArg(s, p)
         [] At(s, p) = "<" -> CallArg(s, p)
         [] IsALL(s, p)    -> [tok |-> <<"A", "L", "L">>, end |-> p + 3]
         [] OTHER          -> NumArg(s, p)

(* The k-th call of getFourthArg, getFifthArg, getFourthAndFifthArgs and  *)
(* getEigthArg: each call scans argStr from one past the end the previous *)
(* call returned, stripped for the first four calls.                      *)
RECURSIVE NthCall(_, _)
NthCall(s, k) ==
  IF k = 1 THEN getFirstArgInternal(StripSp(s))
  ELSE LET prev == NthCall(s, k - 1) IN
       IF prev = Crash \/ prev.end = None THEN Crash
       ELSE getFirstArgInternal(IF k <= 4 THEN StripSp(Drop(s, prev.end + 1))
                                          ELSE Drop(s, prev.end + 1))
NthArg(s, k) == IF NthCall(s, k) = Crash THEN Crash ELSE NthCall(s, k).tok

getFirstArg(s) == IF getFirstArgInternal(s) = Crash THEN Crash ELSE getFirstArgInternal(s).tok
getSecondArg(s) ==
  LET a1 == getFirstArgInternal(s) IN
  IF a1 = Crash \/ a1.end = None THEN Crash ELSE getFirstArg(Drop(s, a1.end + 1))

-----------------------------------------------------------------------------
(* parseMethod: the argument list is the balanced group right after the   *)
(* signature; it is replaced by "(...)" or by the kept arguments.         *)
Lit(str) == CASE str = "(...)"   -> <<"(", ".", ".", ".", ")">>
              [] str = "(..., "  -> <<"(", ".", ".", ".", ",", " ">>
              [] str = ", ...)"  -> <<",", " ", ".", ".", ".", ")">>
              [] str = " ,...)"  -> <<" ", ",", ".", ".", ".", ")">>
              [] str = ", "      -> <<",", " ">>
              [] str = "("       -> <<"(">>
(* name.index('>') + 1: a signature symbol holds the first '>' *)
StartIndex(nm) == IF nm[1] \in Sigs THEN 1
                  ELSE Min({i \in Idx(nm) : At(nm, i) = ">"}) + 1
KindOf(nm) == IF nm[1] \in Sigs THEN Kind[nm[1]] ELSE "other"
EndIndex(nm) == LET b == StartIndex(nm)
                    cl == {i \in b..(Len(nm) - 1) : Depth(nm, b, i) = 0}
                IN IF cl = {} THEN 0 ELSE Min(cl) + 1
Masked(nm, kept) == Slice(nm, 0, StartIndex(nm)) \o kept \o Drop(nm, EndIndex(nm))
Join(parts) == IF Crash \in ToSet(parts) \/ None \in ToSet(parts) THEN Crash
               ELSE FoldLeft(LAMBDA x, y : x \o y, <<>>, parts)

(* the replacement of the argument list, given the kept argument(s) *)
Format(kind, a, b) ==
  CASE kind = "first"       -> Join(<<Lit("("), a, Lit(", ...)")>>)
    [] kind = "second"      -> Join(<<Lit("(..., "), a, Lit(" ,...)")>>)
    [] kind = "fourthfifth" -> Join(<<Lit("(..., "), a, Lit(", "), b, Lit(", ...)")>>)
    [] kind = "other"       -> Lit("(...)")
    [] OTHER                -> Join(<<Lit("(..., "), a, Lit(", ...)")>>)

parseMethod(nm) ==
  LET argStr == Slice(nm, StartIndex(nm) + 1, EndIndex(nm))
      kind == KindOf(nm)
      kept == CASE kind = "first"       -> Format(kind, getFirstArg(argStr), None)
                [] kind = "second"      -> Format(kind, getSecondArg(argStr), None)
                [] kind = "fourth"      -> Format(kind, NthArg(argStr, 4), None)
                [] kind = "fifth"       -> Format(kind, NthArg(argStr, 5), None)
                [] kind = "fourthfifth" -> Format(kind, NthArg(argStr, 4), NthArg(argStr, 5))
                [] kind = "eighth"      -> Format(kind, NthArg(argStr, 8), None)
                [] OTHER                -> Format(kind, None, None)
  IN IF kept = Crash THEN Crash ELSE Masked(nm, kept)

(* detectMethod: starts with '<' and has '>' and '(' (the signature has    *)
(* both); getSimplifiedValInner leaves anything else unchanged.            *)
detectMethod(nm) ==
  /\ Len(nm) > 0
  /\ \/ nm[1] \in Sigs
     \/ nm[1] = "<" /\ ">" \in ToSet(nm) /\ "(" \in ToSet(nm)
getSimplifiedValInner(nm) == IF detectMethod(nm) THEN parseMethod(nm) ELSE nm

-----------------------------------------------------------------------------
Init == name \in Inputs /\ out = None

(* simplifyPredicate of a single (non-pair) predicate with IGNORE_ARGS *)
Simplify ==
  /\ out = None
  /\ out' = getSimplifiedValInner(name)
  /\ UNCHANGED name

Next == Simplify
Spec == Init /\ [][Next]_vars

-----------------------------------------------------------------------------
(* The reference reading of an argument list (spec 4.1): the arguments     *)
(* are separated by the commas outside quotes and outside nested           *)
(* parentheses; argStr ends with the ')' closing the list.                 *)
Before(s, i, c) == Cardinality({k \in 0..(i - 1) : At(s, k) = c})
TopCommas(s) == {i \in Idx(s) : /\ At(s, i) = ","
                                /\ Before(s, i, "(") = Before(s, i, ")")
                                /\ Before(s, i, Q) % 2 = 0}
RefArg(argStr, k) ==
  LET body == Slice(argStr, 0, Len(argStr) - 1)
      sp == SetToSortSeq(TopCommas(body), <)
  IN IF k > Len(sp) + 1 THEN None
     ELSE StripSp(Slice(body, IF k = 1 THEN 0 ELSE sp[k - 1] + 1,
                              IF k <= Len(sp) THEN sp[k] ELSE Len(body)))
Position == [first |-> 1, second |-> 2, fourth |-> 4, fifth |-> 5,
             fourthfifth |-> 4, eighth |-> 8, other |-> 1]
Expected(nm) ==
  IF ~detectMethod(nm) THEN nm
  ELSE LET argStr == Slice(nm, StartIndex(nm) + 1, EndIndex(nm))
           kind == KindOf(nm)
           a == RefArg(argStr, Position[kind])
           kept == Format(kind, a, RefArg(argStr, 5))
       IN IF kept = Crash THEN Crash ELSE Masked(nm, kept)

(* The end of the argument list when quoted spans are skipped: the first  *)
(* position where the parentheses outside quotes balance.                 *)
OutsideQuotes(s, i) == Before(s, i, Q) % 2 = 0 /\ At(s, i) # Q
QuotedDepth(s, b, i) ==
  Cardinality({k \in b..i : At(s, k) = "(" /\ OutsideQuotes(s, k)})
  - Cardinality({k \in b..i : At(s, k) = ")" /\ OutsideQuotes(s, k)})
RefEndIndex(nm) == LET b == StartIndex(nm)
                       cl == {i \in b..(Len(nm) - 1) : QuotedDepth(nm, b, i) = 0}
                   IN IF cl = {} THEN 0 ELSE Min(cl) + 1

(* parseMethod keeps exactly the allow-listed argument(s) of a predicate,  *)
(* verbatim, and masks the rest: getFirstArg, getSecondArg and the chained *)
(* getNthArg helpers return the argument at that position.                 *)
AllowListedArgsKept == out # None => out = Expected(name)

(* A call outside the allow-list has its whole argument list replaced by   *)
(* "(...)" (spec 4.1: a quote suppresses special characters): the         *)
(* parenthesis scan of parseMethod ends the list at its closing ')'.       *)
ArgListMasked ==
  out # None /\ detectMethod(name) /\ KindOf(name) = "other" =>
    out = Slice(name, 0, StartIndex(name)) \o Lit("(...)") \o Drop(name, RefEndIndex(name))
=============================================================================
