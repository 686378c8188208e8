CONSTANTS
  Clients = {c1, c2}
  Threads = {t1, t2}
  NSlots = 2
  NFds = 2
  Lens = {1, 3}
  MaxCmds = 1
  MaxVisits = 2
  Null = null
SPECIFICATION LiveSpec
CONSTRAINT Intact
CHECK_DEADLOCK FALSE
PROPERTIES
  EveryAnswerComes
