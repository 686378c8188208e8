CONSTANTS
  Threads = {t1, t2}
  Loop = loop
  Ender = ender
  Blocks = {b1, b2, b3}
  Hosts = {h1, h2}
  Aliases = {h1, h2}
  Vols = {v1, v2}
  Ops = {"connect", "attach", "unmount", "detach", "suspend", "resume"}
  MaxOps = 3
  Null = null
SPECIFICATION Spec
SYMMETRY Symmetry
CONSTRAINT Intact
CHECK_DEADLOCK FALSE
INVARIANTS
  ListSound
  OneSessionPerMachine
  MountedServersKept
  NoIdleSession
