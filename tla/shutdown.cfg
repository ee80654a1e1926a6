SPECIFICATION FairSpec
CONSTANTS
  Pool = {t1, t2}
  Posted = 2
  Calls = 1
  MaxWork = 3
INVARIANTS
  TypeOK
  SafeDestroy
PROPERTY
  StopReturns
