CONSTANTS
  Header = 2
  BufSize = 6
  Lengths = {0, 1, 3}
  MaxPackets = 3
SPECIFICATION Spec
CHECK_DEADLOCK FALSE
INVARIANTS
  FullPackets
