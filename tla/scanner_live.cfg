SPECIFICATION FairSpec
CONSTANTS
  d1 = d1
  d2 = d2
  Dirs = {d1}
  Threads = {t1, t2}
  Slots = {s1}
  None = None
  to_size <- CopyTo
  file_mode <- CopyMode
  protocol <- FromDir
  ScanResults = {TRUE, FALSE}
  MaxTo = 2
  MaxFiles = 1
  MaxReady = 2
PROPERTIES
  RescannedForever
  GroupsFinish
