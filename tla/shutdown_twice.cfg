SPECIFICATION Spec
CONSTANTS
  Pool = {t1, t2}
  Posted = 2
  Calls = 2
  MaxWork = 3
INVARIANT
  SafeDestroy
