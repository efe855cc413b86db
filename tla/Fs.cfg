SPECIFICATION Spec
CONSTANTS
  k1 = k1  k2 = k2  d1 = d1  t1 = t1  t2 = t2
  Procs = {p1, p2}
  Keys = {k1, k2}
  Dirs = {d1}
  Temps = {t1, t2}
  Inos = {i1, i2, i3}
  Values = {v1, v2}
  DirOf <- MCDirOf
  Pieces = 2
  Ops = {"put", "copy", "get", "delete", "deleteall"}
  None = None
SYMMETRY Symmetry
VIEW View
INVARIANTS WholeObjects TempsAccounted WriterInsideCall
PROPERTIES ReadersKeepTheirVersion ImplementsObjectStore
