----------------------------- MODULE ItemEncoder -----------------------------
(***************************************************************************)
(* What the item encoder promises (spec 4.2 and 6): reading back what it  *)
(* wrote gives every entry point exactly the grouping keys of its         *)
(* predicates, the pairs (a, a) left out.  The whole encoding is one step. *)
(***************************************************************************)
EXTENDS FiniteSets, SequencesExt

CONSTANTS
  None,
  Inputs,   \* the parser outputs: entry point -> list of predicates
  Key(_)    \* the grouping key of a predicate value

VARIABLES entryPoints, enc
vars == <<entryPoints, enc>>

(* a stored pair [p |-> <<x, x>>] *)
SelfPair(q) == "p" \in DOMAIN q /\ q.p[1] = q.p[2]

Init == entryPoints \in Inputs /\ enc = None

Build ==
  /\ enc = None
  /\ enc' = [e \in DOMAIN entryPoints |->
               {Key(q) : q \in {r \in ToSet(entryPoints[e]) : ~SelfPair(r)}}]
  /\ UNCHANGED entryPoints

Spec == Init /\ [][Build]_vars
=============================================================================
