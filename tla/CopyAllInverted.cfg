SPECIFICATION Spec
CONSTANTS
  Sorted <- MCSorted
  Pairs <- MCInverted
  Limit = 1
  None = None
INVARIANT CopiesTheListedContent
