CONSTANTS
  Threads = {t1}
  Loop = loop
  Ender = ender
  Blocks = {b1, b2}
  Hosts = {h1}
  Aliases = {}
  Vols = {v1}
  Ops = {"connect", "resume"}
  MaxOps = 2
  Null = null
SPECIFICATION Spec
CHECK_DEADLOCK FALSE
INVARIANTS
  NoRecursiveLoop
