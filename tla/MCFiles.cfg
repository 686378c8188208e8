CONSTANTS
  Threads = {t1, t2}
  Names = {a, b}
  Inodes = {i1, i2, i3}
  ForkIds = {k1, k2}
  Blocks = {b1, b2}
  Ops = {"open", "daemon_open", "daemon_creat", "daemon_trunc", "read", "write", "release", "daemon_read", "daemon_close", "creat", "mkdir", "unlink", "rmdir", "rename", "truncate", "symlink", "readlink", "chmod", "chown", "utime", "getattr", "unmount"}
  Packets = 2
  Tries = 2
  UnixPrivs = TRUE
  NoLocking = FALSE
  MaxCalls = 2
  MaxRefusals = 1
  Null = null
SPECIFICATION Spec
SYMMETRY Symmetry
CONSTRAINT Intact
CHECK_DEADLOCK FALSE
INVARIANTS
  ListedAreLive
  ForksAccounted
  SuccessIsReal
  RemovesTheRightKind
  WholeWrites
