\* Two commands on two volumes and three local directories, one request refused,
\* one change by another client.
SPECIFICATION Spec
CONSTANTS
  a = a
  d = d
  ab = ab
  home = home
  Order <- MCOrder
  Unquoted <- MCUnquoted
  Home <- MCHome
  Trees <- MCTrees
  LocalTrees <- MCLocalTrees
  Batch = 1
  Ops <- AllOps
  MaxCalls = 2
  MaxRefusals = 1
  MaxOthers = 1
  Null = Null
CHECK_DEADLOCK FALSE
INVARIANTS
  CopiesAreWhole
  PutIsWhole
  BackHome
  MovesReplaceNothing
  MisuseFollowsFailure
