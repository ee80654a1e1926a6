SPECIFICATION Spec
CONSTANTS
  d1 = d1
  d2 = d2
  Dirs = {d1}
  Threads = {t1, t2}
  Slots = {s1, s2}
  None = None
  to_size <- CopyTo
  file_mode <- CopyMode
  protocol <- FromDir
  ScanResults = {TRUE}
  MaxTo = 2
  MaxFiles = 2
  MaxReady = 2
SYMMETRY Symmetry
INVARIANT
  AllTasksCompleted
