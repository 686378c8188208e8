\* view has no struct stat for the attributes.
SPECIFICATION Spec
CONSTANTS
  a = a
  d = d
  ab = ab
  home = home
  Order <- MCOrder
  Unquoted <- MCUnquoted
  Home <- MCHome
  Trees <- MCTrees
  LocalTrees <- MCLocalTrees
  Batch = 1
  Ops <- AllOps
  MaxCalls = 2
  MaxRefusals = 1
  MaxOthers = 1
  Null = Null
CHECK_DEADLOCK FALSE
INVARIANTS
  ViewShowsTheFile
