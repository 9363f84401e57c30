CONSTANTS
  None = None
  Rank <- MCRank
  Logs <- DupLogs
INIT Init
NEXT Next
CHECK_DEADLOCK FALSE
PROPERTY PredicatesNeverLost
