------------------------ MODULE ControlPredicateParser ------------------------
(***************************************************************************)
(* parseControlPredicates of src/outlierdetection/parsers/                 *)
(* ControlPredicateParser.py: one step per character of the log.  A line  *)
(* is "`ep`;`p`;{`x`,`y`};..." -- the entry point, then its predicates,    *)
(* single ones in backticks and pairs in braces.  Strings are sequences   *)
(* of one-character strings; a stored single predicate is [s |-> str] and *)
(* a stored pair (a Python tuple) is [p |-> <<x, y>>].  TLA+ strings     *)
(* cannot hold a backtick, so the backtick character is the token BQ.    *)
(***************************************************************************)
EXTENDS Integers, Sequences, FiniteSets, SequencesExt

CONSTANTS
  None,     \* Python's None
  Rank,     \* character -> its code point, for sorted() on strings
  Logs      \* the logs written: sequences of Blank or [ep, preds] lines

VARIABLES
  log,      \* what the log holds (history: the code reads only its text)
  input, ln, i,                                   \* file, line, character
  inSymbol, firstSymbol, isEntryPoint, sb, sb2, entryPoint,
  out,      \* entry point -> its predicates, in order
  phase     \* "line": between lines; "chars": inside a line; "done"

vars == <<log, input, ln, i, inSymbol, firstSymbol, isEntryPoint, sb, sb2, entryPoint, out, phase>>

(* Python's < on strings *)
RECURSIVE StrLess(_, _)
StrLess(x, y) ==
  IF x = <<>> THEN y # <<>>
  ELSE IF y = <<>> THEN FALSE
  ELSE IF Head(x) # Head(y) THEN Rank[Head(x)] < Rank[Head(y)]
  ELSE StrLess(Tail(x), Tail(y))
(* tuple(sorted([sb, sb2])) *)
SortedPair(x, y) == [p |-> IF StrLess(y, x) THEN <<y, x>> ELSE <<x, y>>]

(* out[k].append(v), for a key already in out *)
AppendTo(f, k, v) == [f EXCEPT ![k] = Append(@, v)]
(* out[k] = v, adding k if it is new *)
SetKey(f, k, v) == [x \in DOMAIN f \cup {k} |-> IF x = k THEN v ELSE f[x]]

BQ == "bq"

Line == input[ln]
C == Line[i + 1]
LastChar == i = Len(Line) - 1
(* the loop over the line's characters moves on; the line ends after its last *)
Advance == IF LastChar THEN /\ i' = 0 /\ ln' = ln + 1 /\ phase' = "line"
                   ELSE /\ i' = i + 1 /\ UNCHANGED <<ln, phase>>

(* The log format: "`ep`" then ";`p`" per single and ";{`x`,`y`}" per pair. *)
Blank == <<>>
BT == <<BQ>>
RenderItem(it) == IF "s" \in DOMAIN it THEN BT \o it.s \o BT
                  ELSE <<"{">> \o BT \o it.p[1] \o BT \o <<",">> \o BT \o it.p[2] \o BT \o <<"}">>
RenderLine(l) == IF l = Blank THEN <<>>
                 ELSE FoldLeft(LAMBDA acc, it : acc \o <<";">> \o RenderItem(it), BT \o l.ep \o BT, l.preds)

-----------------------------------------------------------------------------
Init ==
  /\ log \in Logs
  /\ input = [k \in DOMAIN log |-> RenderLine(log[k])]
  /\ ln = 1 /\ i = 0 /\ phase = "line"
  /\ out = [x \in {} |-> <<>>]
  /\ inSymbol = FALSE /\ firstSymbol = TRUE /\ isEntryPoint = TRUE
  /\ sb = <<>> /\ sb2 = <<>> /\ entryPoint = None

(* for line in open(...): empty lines are skipped; the per-line state is reset *)
ReadLine ==
  /\ phase = "line" /\ ln <= Len(input)
  /\ IF Len(Line) = 0
     THEN ln' = ln + 1 /\ UNCHANGED <<phase, inSymbol, firstSymbol, isEntryPoint, sb, sb2, entryPoint>>
     ELSE /\ phase' = "chars" /\ UNCHANGED ln
          /\ inSymbol' = FALSE /\ firstSymbol' = TRUE /\ isEntryPoint' = TRUE
          /\ sb' = <<>> /\ sb2' = <<>> /\ entryPoint' = None
  /\ UNCHANGED <<log, input, i, out>>

(* the line's closing backtick leaves its last single predicate unstored *)
BacktickNoFlush ==
  /\ phase = "chars" /\ C = BQ
  /\ inSymbol' = ~inSymbol
  /\ out' = IF ~LastChar \/ entryPoint # None THEN out ELSE SetKey(out, sb, <<>>)
  /\ Advance
  /\ UNCHANGED <<log, input, firstSymbol, isEntryPoint, sb, sb2, entryPoint>>

(* c == "`": toggles inSymbol; as the last character it ends the line's    *)
(* last single predicate -- or, on a line holding only the entry point,    *)
(* sets out[sb] = [].                                                       *)
Backtick ==
  /\ phase = "chars" /\ C = BQ
  /\ inSymbol' = ~inSymbol
  /\ out' = IF ~LastChar THEN out
            ELSE IF entryPoint # None THEN AppendTo(out, entryPoint, [s |-> sb])
            ELSE SetKey(out, sb, <<>>)
  /\ Advance
  /\ UNCHANGED <<log, input, firstSymbol, isEntryPoint, sb, sb2, entryPoint>>

(* c == ";" (or the last character) outside a symbol: the entry point, a   *)
(* single predicate or a sorted pair is complete.                          *)
Separator ==
  /\ phase = "chars" /\ C # BQ /\ ~inSymbol /\ (C = ";" \/ LastChar)
  /\ CASE isEntryPoint ->
            /\ isEntryPoint' = FALSE /\ entryPoint' = sb
            /\ out' = IF sb \in DOMAIN out THEN out ELSE SetKey(out, sb, <<>>)
            /\ UNCHANGED sb2
       [] Len(sb2) = 0 ->
            /\ out' = AppendTo(out, entryPoint, [s |-> sb])
            /\ UNCHANGED <<isEntryPoint, entryPoint, sb2>>
       [] OTHER ->
            /\ out' = AppendTo(out, entryPoint, SortedPair(sb, sb2))
            /\ sb2' = <<>>
            /\ UNCHANGED <<isEntryPoint, entryPoint>>
  /\ sb' = <<>>
  /\ Advance
  /\ UNCHANGED <<log, input, inSymbol, firstSymbol>>

(* ',' '{' '}' and any other character outside a symbol *)
Punctuation ==
  /\ phase = "chars" /\ C \notin {BQ, ";"} /\ ~inSymbol /\ ~LastChar
  /\ firstSymbol' = CASE C = ","           -> FALSE
                      [] C \in {"{", "}"}   -> TRUE
                      [] OTHER             -> firstSymbol
  /\ Advance
  /\ UNCHANGED <<log, input, inSymbol, isEntryPoint, sb, sb2, entryPoint, out>>

(* a character inside backticks: first or second element of a pair *)
SymbolChar ==
  /\ phase = "chars" /\ C # BQ /\ inSymbol
  /\ IF firstSymbol THEN sb' = Append(sb, C) /\ UNCHANGED sb2
                    ELSE sb2' = Append(sb2, C) /\ UNCHANGED sb
  /\ Advance
  /\ UNCHANGED <<log, input, inSymbol, firstSymbol, isEntryPoint, entryPoint, out>>

Finish ==
  /\ phase = "line" /\ ln > Len(input)
  /\ phase' = "done"
  /\ UNCHANGED <<log, input, ln, i, inSymbol, firstSymbol, isEntryPoint, sb, sb2, entryPoint, out>>

Next == ReadLine \/ Backtick \/ Separator \/ Punctuation \/ SymbolChar \/ Finish
Spec == Init /\ [][Next]_vars

-----------------------------------------------------------------------------
(* What the log means (spec 6): every entry point with all the predicates *)
(* of its lines, in order, pairs sorted; the lines of one entry point add  *)
(* up.                                                                     *)
Stored(it) == IF "s" \in DOMAIN it THEN it ELSE SortedPair(it.p[1], it.p[2])
RECURSIVE Expected(_, _)
Expected(l, n) ==
  IF n = 0 THEN [x \in {} |-> <<>>]
  ELSE LET acc == Expected(l, n - 1)
           e == l[n]
       IN IF e = Blank THEN acc
          ELSE SetKey(acc, e.ep, (IF e.ep \in DOMAIN acc THEN acc[e.ep] ELSE <<>>)
                                 \o [k \in DOMAIN e.preds |-> Stored(e.preds[k])])

(* After every line, out holds exactly the entry points read so far, each *)
(* with the predicates its line lists, in order, a pair as its sorted     *)
(* tuple: the character loop with its inSymbol/firstSymbol flags and its  *)
(* end-of-line branches splits the line as it was written.               *)
ParsedAsWritten == phase # "chars" => out = Expected(log, ln - 1)

(* A predicate recorded for an entry point is never dropped: parsing      *)
(* another line of the same entry point keeps what out already holds, as  *)
(* the branch for a known entry point (lines 35-38) does.                  *)
PredicatesNeverLost ==
  [][\A e \in DOMAIN out : e \in DOMAIN out' /\ IsPrefix(out[e], out'[e])]_vars
=============================================================================
