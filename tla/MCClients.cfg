CONSTANTS
  Clients = {c1, c2}
  Threads = {t1, t2}
  NSlots = 2
  NFds = 2
  Lens = {1, 3}
  MaxCmds = 2
  MaxVisits = 3
  Null = null
SPECIFICATION LiveSpec
CONSTRAINT Intact
CHECK_DEADLOCK FALSE
INVARIANTS
  Heard
  NoBadDescriptor
  EndsWhenAsked
PROPERTIES
  AnswersTheAsker
  EveryCommandAnswered
