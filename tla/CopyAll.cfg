SPECIFICATION FairSpec
CONSTANTS
  Sorted <- MCSorted
  Pairs <- MCPairs
  Limit = 2
  None = None
INVARIANTS CopiesTheListedContent CountsItsCopies CauseIsReported
PROPERTIES Terminates
