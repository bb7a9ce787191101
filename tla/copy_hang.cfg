SPECIFICATION FairSpec
CONSTANTS
  MaxCopies = 2
  MaxBlocks = 1
  MaxSpurious = 0
PROPERTIES CopyReturns
CHECK_DEADLOCK FALSE
