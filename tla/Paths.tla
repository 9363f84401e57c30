------------------------------- MODULE Paths -------------------------------
(***************************************************************************)
(* The path handling the two directory loops share (OutlierDetection.py    *)
(* and DiffOutlierResults.py): re.sub of the root, os.path.join, and the   *)
(* orders os.walk yields in.  A path is a sequence of one-character        *)
(* strings and "/"; a prefix or a file name may be one element.            *)
(***************************************************************************)
EXTENDS Integers, Sequences, SequencesExt

(* re.sub(root, '', s): every non-overlapping match, left to right,       *)
(* removed; "." in the pattern matches any character.                     *)
MatchesAt(pat, s) == \A j \in 1..Len(pat) : pat[j] = "." \/ pat[j] = s[j]
RECURSIVE ReSub(_, _)
ReSub(pat, s) ==
  IF Len(s) < Len(pat) THEN s
  ELSE IF MatchesAt(pat, s) THEN ReSub(pat, SubSeq(s, Len(pat) + 1, Len(s)))
  ELSE <<Head(s)>> \o ReSub(pat, Tail(s))

(* os.path.join(a, b): an absolute b discards a; a "/" is put between     *)
(* them unless a is empty or already ends with one.                       *)
PathJoin(a, b) ==
  IF b # <<>> /\ Head(b) = "/" THEN b
  ELSE IF a = <<>> \/ Last(a) = "/" THEN a \o b
  ELSE a \o <<"/">> \o b

(* the root os.walk(top) yields for a directory (a list of names) below top *)
WalkRoot(top, dir) == FoldLeft(PathJoin, top, dir)

(* rel_root: the root with re.sub applied, then one leading "/" stripped *)
relRoot(top, dir) ==
  LET r == ReSub(top, WalkRoot(top, dir))
  IN  IF r # <<>> /\ Head(r) = "/" THEN Tail(r) ELSE r

(* os.walk is top-down: a directory's entries come before those of its    *)
(* subdirectories, and each subtree is walked to the end before the next. *)
(* s is a sequence of records with a field dir.                            *)
Contiguous(s, p) ==
  \A i, j, k \in 1..Len(s) :
    i < j /\ j < k /\ IsPrefix(p, s[i].dir) /\ IsPrefix(p, s[k].dir) => IsPrefix(p, s[j].dir)
WalkOrder(s) ==
  LET Dirs == UNION {{SubSeq(s[i].dir, 1, n) : n \in 0..Len(s[i].dir)} : i \in DOMAIN s}
  IN  /\ \A p \in Dirs : Contiguous(s, p)
      /\ \A i, j \in 1..Len(s) : i < j => ~IsStrictPrefix(s[j].dir, s[i].dir)
WalkOrders(S) == {s \in SetToSeqs(S) : WalkOrder(s)}
=============================================================================
