SPECIFICATION MoverSpec
CONSTANTS
  d1 = d1
  d2 = d2
  d3 = d3
  Dirs = {d1}
  Threads = {t1}
  Slots = {s1}
  Files = {f1}
  None = None
  to_size <- MoveTo
  file_mode <- Copy
  protocol <- FromFtp
  to_protocol <- ToS3
  ScanResults = {TRUE}
  Outcomes = {TRUE, FALSE}
  Rearrive = FALSE
  MaxTo = 1
  MaxFiles = 1
  MaxReady = 2
  MaxCrashes = 0
INVARIANT
  LossReported
