CONSTANTS
  None = None
  Vendors <- MCVendors
  Baselines <- MCBaselines
SPECIFICATION FairSpec
CHECK_DEADLOCK FALSE
PROPERTY AnnotatedFileWritten
