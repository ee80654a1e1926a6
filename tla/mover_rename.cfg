SPECIFICATION MoverSpec
CONSTANTS
  d1 = d1
  d2 = d2
  d3 = d3
  Dirs = {d1}
  Threads = {t1, t2}
  Slots = {s1, s2}
  Files = {f1, f2}
  None = None
  to_size <- MoveTo
  file_mode <- Copy
  protocol <- FromDir
  to_protocol <- ToDir
  ScanResults = {TRUE}
  Outcomes = {TRUE, FALSE}
  Rearrive = TRUE
  MaxTo = 1
  MaxFiles = 2
  MaxReady = 1
  MaxCrashes = 1
SYMMETRY Symmetry
INVARIANTS
  ActiveTasksExact
  NoLoss
