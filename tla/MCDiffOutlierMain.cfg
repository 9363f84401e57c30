CONSTANTS
  None = None
  ROOT_DIR1 <- MCRoot1
  ROOT_DIR2 <- MCRoot2
  Trees <- MCTrees
INIT Init
NEXT Next
\* the program ends after the walk, or with an exception
CHECK_DEADLOCK FALSE
INVARIANT DiffsAsSpecified
INVARIANT BaselineFromMirror
