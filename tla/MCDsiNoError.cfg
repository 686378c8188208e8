CONSTANTS
  Callers = {c1, c2}
  Loop = loop
  Blocks = {b1, b2}
  MaxId = 3
  Waits = {"timed"}
  Faults = {"removed"}
  MaxCalls = 2
  MaxTickles = 0
  ReconnectIds = 2
  NoBlock = noblock
  NoThread = nothread
SPECIFICATION Spec
SYMMETRY Symmetry
CHECK_DEADLOCK FALSE
INVARIANTS
  NoErrorMeansAnswered
