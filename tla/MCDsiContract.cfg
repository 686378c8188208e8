CONSTANTS
  Callers = {c1, c2}
  Loop = loop
  Blocks = {b1, b2}
  MaxId = 1
  Waits = {"forever", "timed"}
  Faults = {}
  MaxCalls = 3
  MaxTickles = 0
  ReconnectIds = 1
  NoBlock = noblock
  NoThread = nothread
SPECIFICATION Spec
SYMMETRY Symmetry
CHECK_DEADLOCK FALSE
PROPERTIES
  ImplementsService
  WritesOnlyLiveBuffers
