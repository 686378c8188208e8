CONSTANTS
  Callers = {c1, c2}
  Loop = loop
  Blocks = {b1, b2}
  MaxId = 1
  Waits = {"timed", "none"}
  Faults = {"broken_pipe", "closed", "reconnect", "spurious", "removed"}
  MaxCalls = 2
  MaxTickles = 1
  ReconnectIds = 1
  NoBlock = noblock
  NoThread = nothread
SPECIFICATION Spec
CONSTRAINT CleanRemoval
SYMMETRY Symmetry
CHECK_DEADLOCK FALSE
INVARIANTS
  TypeOK
  PendingMatches
  RequestsAccounted
  OwnReply
PROPERTIES
  ImplementsService
  WritesOnlyLiveBuffers
