SPECIFICATION Spec
CONSTANTS
  d1 = d1
  d2 = d2
  Dirs = {d1, d2}
  Threads = {t1, t2}
  Slots = {s1, s2}
  None = None
  to_size <- CopyTo
  file_mode <- CopyMode
  protocol <- FromDir
  ScanResults = {TRUE, FALSE}
  MaxTo = 2
  MaxFiles = 1
  MaxReady = 1
SYMMETRY Symmetry
INVARIANTS
  RunShown
  TypeOK
  ActiveTasksExact
  RemovalAfterTransfers
  NeverForgotten
  IInv
PROPERTIES
  EmptyGroupEndsScanning
  ImplementsCycle
