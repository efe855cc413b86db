SPECIFICATION Spec
CONSTANTS
  Files = {"p/a.txt", "p/a/x", "p/a/y", "o/q"}
  Temps = {"p/.copy-1", "p/a/.copy-2"}
  Marker = "p/"
  Dirs = {"p", "p/a", "o"}
  Prefix = "p"
  Above <- MCAbove
  KeyRank <- MCKeyRank
  WalkRank <- MCWalkRank
  PageSize = 2
  MaxTime = 3
INVARIANTS ListsWhatStays
