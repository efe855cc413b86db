SPECIFICATION FairSpec
CONSTANTS
  Procs = {p1}
  Blobs <- MCBlobs
  Dirs <- MCDirs
  Copied <- MCCopied
  Values = {v1, v2}
  Ids = {n1, n2}
  Fallback = TRUE
  Empty = Empty
  None = None
INVARIANTS NoCopyLeftRunning
PROPERTIES PolledSizeIsOwn DeletionsAreTold CancelledCopyReturns
