\* Three threads, each with a server of its own.
SPECIFICATION LiveSpec
CONSTANTS
  t1 = t1
  t2 = t2
  t3 = t3
  Threads = {t1, t2, t3}
CHECK_DEADLOCK FALSE
PROPERTIES
  FirstCommandsAnswered
