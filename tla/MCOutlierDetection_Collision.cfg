CONSTANTS
  ROOT_DIR <- MCRoot
  OUTPUT_DIRECTORY <- MCOutputDirectory
  Files <- MCFiles
  Labels <- MCLabels
  Runs = 2
INIT Init
NEXT Next
\* the program exits after its last run
CHECK_DEADLOCK FALSE
PROPERTY NoResultOverwritten
