CONSTANTS
  Threads = {t1, t2}
  Dids = {d1, d2}
  Root = root
  Names = {a, b}
  Depth = 2
  Timeout = 1
  MaxTime = 3
  MaxChanges = 1
  Null = null
SPECIFICATION Spec
SYMMETRY Symmetry
CONSTRAINT Intact
CHECK_DEADLOCK FALSE
INVARIANTS
  StaleForABoundedTime
PROPERTIES
  NotCachedAfterRmdir
