SPECIFICATION MoverSpec
CONSTANTS
  d1 = d1
  d2 = d2
  d3 = d3
  Dirs = {d1, d2, d3}
  Threads = {t1}
  Slots = {s1}
  Files = {f1}
  None = None
  to_size <- SideTo
  file_mode <- SideMode
  protocol <- SideFrom
  to_protocol <- SideDestinations
  ScanResults = {TRUE}
  Outcomes = {TRUE, FALSE}
  Rearrive = FALSE
  MaxTo = 2
  MaxFiles = 1
  MaxReady = 1
  MaxCrashes = 1
INVARIANTS
  MoverTypeOK
  NoLoss
  CycleDrained
