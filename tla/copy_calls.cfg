SPECIFICATION FairSpec
CONSTANTS
  MaxCopies = 2
  MaxBlocks = 2
  MaxSpurious = 1
INVARIANT ExclusiveWindow
PROPERTIES QuiescentCopyReturns StuckOnlyByOrphan ProgressEnds
CHECK_DEADLOCK FALSE
