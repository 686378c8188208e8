CONSTANTS
  Callers = {c1, c2}
  Loop = loop
  Blocks = {b1, b2}
  MaxId = 3
  Waits = {"timed"}
  Faults = {"broken_pipe"}
  MaxCalls = 2
  MaxTickles = 0
  ReconnectIds = 2
  NoBlock = noblock
  NoThread = nothread
SPECIFICATION LiveSpec
CHECK_DEADLOCK FALSE
PROPERTIES
  TimedCallsReturn
