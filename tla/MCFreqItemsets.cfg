CONSTANTS
  Preds <- MCPreds
  Canon <- MCCanon
  DBs <- MCDBs
  MIN_SUPPORT = 2
  MIN_ITEMSET_SIZE = 2
  MIN_CONF <- MCMinConf
INIT Init
NEXT Next
CHECK_DEADLOCK FALSE
INVARIANTS
  TypeOK
  StripLossless
  ListEqualityIsSetEquality
  ConfidenceOverOtherEntryPoints
  NoDivisionByZero
