\* One handle opened, written, closed and opened again.
SPECIFICATION Spec
CONSTANTS
  f = f
  g = g
  b1 = b1
  b2 = b2
  k1 = k1
  k2 = k2
  Names = {f, g}
  Blocks = {b1, b2}
  ForkIds = {k1, k2}
  Vals = {1}
  Shown = TRUE
  Opened <- MetadataOfF
  FirstData = {1}
  MaxCalls = 2
  MaxRefusals = 1
  Null = Null
SYMMETRY MCSymmetry
PROPERTIES
  RestKept
