SPECIFICATION Spec
CONSTANTS
  e = e  d = d  x = x  t1 = t1  t2 = t2  t3 = t3  t4 = t4  t5 = t5  p1 = p1  p2 = p2  p3 = p3
  Procs = {p1, p2, p3}
  Keys = {e, d, x}
  Temps = {t1, t2, t3, t4, t5}
  DirOf <- MCDirOf
  Root = Root
  Values = {v1}
  Ops <- MCOps
  Partial = Partial
  Dir = Dir
  None = None
SYMMETRY Symmetry
VIEW View
CHECK_DEADLOCK FALSE
INVARIANTS WholeObjects ReplacedNotLost TempsAccounted
PROPERTIES ReportsWhatItDid
