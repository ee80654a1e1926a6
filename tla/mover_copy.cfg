SPECIFICATION MoverSpec
CONSTANTS
  d1 = d1
  d2 = d2
  d3 = d3
  Dirs = {d1}
  Threads = {t1, t2}
  Slots = {s1, s2}
  Files = {f1}
  None = None
  to_size <- TwoTo
  file_mode <- Copy
  protocol <- FromFtp
  to_protocol <- ToDirFtp
  ScanResults = {TRUE, FALSE}
  Outcomes = {TRUE, FALSE}
  Rearrive = FALSE
  MaxTo = 2
  MaxFiles = 1
  MaxReady = 1
  MaxCrashes = 0
SYMMETRY Symmetry
INVARIANT
  LossReported
