SPECIFICATION Spec
CONSTANTS
  Keys <- MCKeys
  PairKeys <- MCPairKeys
  Roots <- MCRoots
  Objects <- MCObjects
  Starts <- MCStarts
  MaxDepth = 3
INVARIANTS Contained GateIsExact
PROPERTIES ResolvesAsNamed
