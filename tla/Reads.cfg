SPECIFICATION Spec
CONSTANTS
  MaxLen = 3
  MaxVersion = 3
  MaxInt = 7
  Dir = Dir
  None = None
INVARIANTS ReadsTheRange ErrorsAreTold
