SPECIFICATION Spec
CONSTANTS
  ChunkSize = 2
  TagSize = 1
  PayloadOffset = 2
  HeaderReadSize = 3
  WholeObjectSize = 5
  MaxInt = 15
  MaxPlain = 5
  MaxVersion = 2
  Cut = 2
  None = None
INVARIANTS RangeIsExact FailuresAreTold SizesInvert
