CONSTANTS
  None = None
  Rank <- PipelineRank
  Logs <- PipelineLogs
  Unknown <- MCUnknown
INIT Init
NEXT Next
\* the diff is written once and the program ends
CHECK_DEADLOCK FALSE
INVARIANT ParsedAsWritten
INVARIANT DiffMatchesPredicates
PROPERTY EncoderRefinement
