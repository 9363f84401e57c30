CONSTANTS
  None = None
  Crash = Crash
  Kind <- MCKind
  Inputs <- QuotedParenInputs

INIT Init
NEXT Next

\* canonicalization is one call per predicate: the run ends there
CHECK_DEADLOCK FALSE

INVARIANT ArgListMasked
