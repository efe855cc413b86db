SPECIFICATION Spec
CONSTANTS
  Procs = {p1}
  Keys <- MCKeys
  Dirs <- MCDirs
  Values = {v1, v2, v3}
  Big = {v2, v3}
  Parts = 2
  Limit = 2
  Batch = 2
  Uploads = {u1, u2}
  KeyErrors = FALSE
  None = None
INVARIANTS WholeObjects PartsGoToAnOpenUpload UploadsAccounted DeleteAllStaysUnderPrefix
PROPERTIES CopiesTheReportedVersion DeletesWhatItNamed
