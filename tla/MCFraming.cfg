CONSTANTS
  Header = 2
  BufSize = 6
  Lengths = {0, 1, 3}
  MaxPackets = 3
SPECIFICATION LiveSpec
CHECK_DEADLOCK FALSE
INVARIANTS
  InStep
PROPERTIES
  AllDelivered
