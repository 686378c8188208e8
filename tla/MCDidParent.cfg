CONSTANTS
  Threads = {t1}
  Dids = {d1, d2}
  Root = root
  Names = {a, b}
  Depth = 2
  Timeout = 1
  MaxTime = 0
  MaxChanges = 0
  Null = null
SPECIFICATION Spec
CHECK_DEADLOCK FALSE
INVARIANTS
  AlwaysTheParent
