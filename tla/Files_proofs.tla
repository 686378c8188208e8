---------------------------- MODULE Files_proofs ----------------------------
(***************************************************************************)
(* Theorems about the file operations, for any number of threads, names,   *)
(* objects, forks and structures, any number of calls and refusals, and    *)
(* writes of any number of parts.                                          *)
(***************************************************************************)
EXTENDS Files, FiniteSetTheorems, SequenceTheorems, WellFoundedInduction, TLAPS

-----------------------------------------------------------------------------
(* Where a call can be *)

Running(f) == f.pc \notin {"idle", "return"}

OnBlock == Opening \cup {"truncate", "read", "write", "release"}
OnStack == {"readlink", "symlink"}
OnId == {"daemon_read", "daemon_close"}
Nameless == {"read", "write", "release", "unmount", "daemon_read", "daemon_close"}

\* The requests of each function
PcsOf(op) ==
  CASE op \in {"open", "daemon_open"} -> {"open", "add"}
    [] op = "daemon_creat" -> {"open", "create", "getprivs", "set", "add"}
    [] op = "daemon_trunc" -> {"open", "add", "zero"}
    [] op = "truncate" -> {"open", "add", "zero", "close", "unlist"}
    [] op = "release" -> {"close", "unlist"}
    [] op = "creat" -> {"create", "getprivs", "set"}
    [] op \in {"unlink", "rmdir"} -> {"isdir", "delete"}
    [] op = "mkdir" -> {"mkdir"}
    [] op = "rename" -> {"isdir", "move", "delete2", "move2"}
    [] op \in {"chmod", "chown"} -> {"getprivs", "set"}
    [] op = "utime" -> {"isdir", "set"}
    [] op = "getattr" -> {"attr"}
    [] op = "readlink" -> {"open", "add", "io", "close", "unlist"}
    [] op = "symlink" -> {"create", "open", "add", "io", "close", "unlist", "finder"}
    [] op \in {"write", "read", "daemon_read"} -> {"lock", "io", "unlock"}
    [] op = "daemon_close" -> {"close"}
    [] op = "unmount" -> {"volclose", "freelist"}

\* A failure is remembered until the call ends, and is then returned, or it is one
\* the function does not report.
Honest(f) ==
  /\ Running(f) => \/ f.fault = <<>> \/ Unreported(f) \/ f.op = "read"
                   \/ f.fault[1] = "isdir" /\ f.op \in {"unlink", "rmdir", "rename", "utime"}
  /\ f.pc = "return" /\ f.res = "ok" => f.acted \/ Unreported(f)

\* The frame of a call of thread t: the function decides which request can be next
\* and which structure or fork the call works on.
Placed(t, f) ==
  /\ f.pc = "idle" => f = Idle
  /\ f.pc # "idle" => f.op \in AllOps
  /\ Running(f) => f.pc \in PcsOf(f.op) /\ f.res = "ok"
  /\ f.op \in OnBlock => f.fp \in Blocks
  /\ f.op \in OnStack => f.fp = t
  /\ f.op \notin OnBlock \cup OnStack => f.fp = Null
  /\ f.op \in OnId => f.id \in ForkIds
  /\ f.op \notin OnId => f.id = Null
  /\ f.op \in AllOps \ Nameless => f.name \in Names
  /\ f.op = "rename" => f.to \in Names
  /\ f.op = "write" /\ f.pc = "lock" => f.k = 0
  /\ f.op = "write" /\ f.pc = "io" => f.k < Packets
  /\ f.pc = "lock" => f.tries < Tries

Good(t, f) == f \in Frame /\ Placed(t, f) /\ Honest(f)

\* Replies that only some requests get
Possible(f, r) ==
  /\ r \in Replies
  /\ f.pc = "zero" => r \in {"ok", "misc", "denied", "lockerr", "noanswer"}
  /\ f.pc = "delete" =>
       r \in {"ok", "missing", "notempty", "busy", "denied", "locked", "param", "noanswer"}

\* What stays as it is when f goes on as g
Same(f, g) ==
  /\ g.op = f.op /\ g.fp = f.fp /\ g.id = f.id /\ g.name = f.name /\ g.to = f.to
  /\ g.moved = f.moved /\ g.hit = f.hit

Before == {"open", "create", "getprivs", "set"}

\* Which request can follow which: a fork is listed after it was opened, and taken off
\* the list after it was closed;
ForkOrder(f, r, g) ==
  /\ f.op \in OnBlock \cup OnStack /\ g.pc \in Before => f.pc \in Before
  /\ g.pc = "add" => f.pc = "open" /\ (r = "ok" \/ f.op \in OnStack)
  /\ f.pc = "open" /\ r = "ok" => g.pc = "add"
  /\ f.op \in OnBlock \cup OnStack /\ g.pc \in {"zero", "close"} => f.pc \in {"add", "zero", "io"}
  /\ f.op \in OnStack /\ g.pc = "io" => f.pc = "add"
  /\ g.pc = "unlist" => f.pc = "close" /\ (r = "ok" \/ f.op = "truncate")
  /\ g.pc = "finder" => f.pc = "unlist"
  /\ f.pc = "unlist" => g.pc = IF f.op = "symlink" THEN "finder" ELSE "return"
  /\ f.op = "daemon_close" => g.pc = "return"

\* a range is locked, used, and unlocked;
Ranged == {"read", "write", "daemon_read"}

LockOrder(f, r, g) ==
  f.op \in Ranged =>
    /\ g.pc = "unlock" => f.pc = "io"
    /\ ~NoLocking /\ g.pc = "io" => (f.pc = "lock" /\ r \in {"ok", "lockerr"}) \/ (f.pc = "io" /\ f.op = "write")
    /\ f.op = "write" => g.k = IF f.pc = "io" THEN f.k + 1 ELSE f.k
    /\ f.op = "write" /\ f.pc = "io" /\ ~NoLocking => g.pc = IF g.k < Packets THEN "io" ELSE "unlock"

\* and what is deleted was looked at.
LookOrder(f, g) ==
  g.pc = "delete" => /\ f.pc = "isdir" /\ f.op \in {"unlink", "rmdir"}
                     /\ (f.isdir <=> f.op = "rmdir") /\ g.fault = f.fault

GoesOn(t, f, r) ==
  LET g == After(f, r) IN
  Good(t, g) /\ g.pc # "idle" /\ Same(f, g) /\ ForkOrder(f, r, g) /\ LockOrder(f, r, g) /\ LookOrder(f, g)

Like(f, g) ==
  g \in Frame /\ Same(f, g) /\ g.k = f.k /\ g.tries = f.tries /\ g.isdir = f.isdir

\* What the operators make of a frame
IsNext(f, g, pc) ==
  Like(f, g) /\ g.pc = pc /\ g.fault = f.fault /\ g.res = f.res
IsIgnored(f, g, r, pc) ==
  Like(f, g) /\ g.pc = pc /\ g.fault = <<f.pc, r>> /\ g.res = f.res
IsFailed(f, g) == Like(f, g) /\ g.pc = "return" /\ g.res = "error"
IsDone(f, g) ==
  /\ Like(f, g) /\ g.pc = "return" /\ g.fault = f.fault /\ g.res = f.res
  /\ g.fault = <<>> => g.acted

LEMMA NextIs ==
  ASSUME NEW f \in Frame, NEW pc \in PCs
  PROVE  IsNext(f, Next_(f, pc), pc)
BY DEF IsNext, Like, Same, Next_, Frame

LEMMA IgnoreIs ==
  ASSUME NEW f \in Frame, NEW pc \in PCs, NEW r \in Replies
  PROVE  IsIgnored(f, Ignore(f, r, pc), r, pc)
BY DEF IsIgnored, Like, Same, Ignore, Frame

LEMMA FailureIs ==
  ASSUME NEW f \in Frame, NEW r \in Replies
  PROVE  IsFailed(f, Failure(f, r))
<1>1. "return" \in PCs /\ f.pc \in PCs
  BY DEF PCs, Frame
<1> QED
  BY <1>1 DEF IsFailed, Like, Same, Failure, Frame

LEMMA SuccessIs ==
  ASSUME NEW f \in Frame
  PROVE  IsDone(f, Success(f)) /\ Success(f).acted
<1>1. "return" \in PCs
  BY DEF PCs
<1> QED
  BY <1>1 DEF IsDone, Like, Same, Success, Frame

LEMMA DoneIs ==
  ASSUME NEW f \in Frame
  PROVE  IsDone(f, Done(f))
BY SuccessIs, NextIs DEF IsDone, IsNext, Done, PCs

\* A function without ranges is where it should be after any of its requests.
LEMMA PlacedStays ==
  ASSUME NEW t, NEW f, NEW g, Placed(t, f), f.pc # "idle", Same(f, g), g.pc # "idle",
         f.op \notin Ranged,
         Running(g) => g.pc \in PcsOf(f.op) /\ g.res = "ok"
  PROVE  Placed(t, g) /\ LockOrder(f, "ok", g)
<1>1. g.pc # "lock"
  <2>1. ASSUME g.pc = "lock" PROVE FALSE
    <3>1. f.op \in AllOps /\ "lock" \in PcsOf(f.op)
      BY <2>1 DEF Placed, Running
    <3> QED
      BY <3>1 DEF PcsOf, AllOps, Ranged
  <2> QED
    BY <2>1
<1> QED
  BY <1>1 DEF Placed, Same, Ranged, LockOrder

LEMMA PcsAre ==
  ASSUME NEW op \in AllOps
  PROVE  PcsOf(op) \subseteq PCs \ {"idle", "return"}
BY DEF PcsOf, AllOps, PCs

\* A call goes on with the next request of its function, fails, or succeeds having
\* done what it is for or as Unreported says.
LEMMA Continues ==
  ASSUME NEW t, NEW f, NEW g, NEW r, Good(t, f), Running(f), f.op \notin Ranged,
         \/ \E pc \in PcsOf(f.op) : IsNext(f, g, pc) \/ (IsIgnored(f, g, r, pc) /\ Unreported(g))
         \/ IsFailed(f, g)
         \/ IsDone(f, g) /\ (f.op \notin {"unlink", "rmdir", "rename", "utime"} \/ g.acted)
         \/ IsIgnored(f, g, r, "return") /\ Unreported(g)
  PROVE  Good(t, g) /\ g.pc # "idle" /\ Same(f, g) /\ LockOrder(f, r, g)
<1>1. Placed(t, f) /\ Honest(f) /\ f.op \in AllOps /\ f.pc # "idle" /\ f.res = "ok"
  BY DEF Good, Placed, Running
<1>2. g \in Frame /\ Same(f, g) /\ g.pc # "idle" /\ (Running(g) => g.pc \in PcsOf(f.op) /\ g.res = "ok")
  BY <1>1, PcsAre DEF IsNext, IsIgnored, IsFailed, IsDone, Like, Running
<1>3. Placed(t, g) /\ LockOrder(f, r, g)
  BY <1>1, <1>2, PlacedStays DEF LockOrder
<1>4. Honest(g)
  <2>1. CASE Running(g)
    <3>1. \/ g.fault = f.fault /\ Same(f, g)
          \/ Unreported(g)
      BY <1>2, <2>1 DEF IsNext, IsIgnored, IsFailed, IsDone, Like, Running
    <3> QED
      BY <1>1, <2>1, <3>1 DEF Honest, Unreported, Same, Running
  <2>2. CASE g.pc = "return" /\ g.res = "ok"
    <3>1. ~ \E pc \in PcsOf(f.op) : g.pc = pc
      BY <1>1, <2>2, PcsAre
    <3>2. \/ IsDone(f, g) /\ (f.op \notin {"unlink", "rmdir", "rename", "utime"} \/ g.acted)
          \/ Unreported(g)
      BY <2>2, <3>1 DEF IsNext, IsIgnored, IsFailed
    <3>3. CASE IsDone(f, g) /\ f.op \notin {"unlink", "rmdir", "rename", "utime"} /\ ~g.acted
      <4>1. g.fault = f.fault /\ f.fault # <<>> /\ f.op # "read" /\ Same(f, g)
        BY <3>3 DEF IsDone, Like, Ranged
      <4>2. Unreported(f)
        BY <1>1, <3>3, <4>1 DEF Honest
      <4> QED
        BY <2>2, <4>1, <4>2 DEF Honest, Unreported, Same, Running
    <3> QED
      BY <2>2, <3>2, <3>3 DEF Honest, Running
  <2> QED
    BY <1>2, <2>1, <2>2 DEF Honest, Running
<1> QED
  BY <1>2, <1>3, <1>4 DEF Good

-----------------------------------------------------------------------------
(* The functions, one by one *)

LEMMA OpenGoes ==
  ASSUME NEW t \in Threads, NEW f, Good(t, f), Running(f), NEW r, Possible(f, r),
         f.op \in {"open", "daemon_open"}
  PROVE  GoesOn(t, f, r)
<1>1. After(f, r) = AfterOpen(f, r)
  BY DEF After, Opening
<1>2. f.pc \in {"open", "add"} /\ f \in Frame /\ r \in Replies
  BY DEF Good, Placed, PcsOf, Possible
<1>3. PICK g : g = After(f, r)
  OBVIOUS
<1>4. \/ f.pc = "open" /\ r = "ok" /\ IsNext(f, g, "add")
      \/ f.pc = "open" /\ r # "ok" /\ IsFailed(f, g)
      \/ f.pc = "add" /\ IsDone(f, g)
  BY <1>1, <1>2, <1>3, NextIs, FailureIs, DoneIs DEF AfterOpen, PCs
<1>5. ForkOrder(f, r, g) /\ LookOrder(f, g)
  BY <1>4 DEF IsNext, IsFailed, IsDone, Like, ForkOrder, LookOrder, Before, OnBlock, OnStack, Opening
<1>6. f.op \notin Ranged /\ "add" \in PcsOf(f.op)
  BY DEF Ranged, PcsOf
<1> QED
  BY <1>3, <1>4, <1>5, <1>6, Continues DEF GoesOn

LEMMA CreatGoes ==
  ASSUME NEW t \in Threads, NEW f, Good(t, f), Running(f), NEW r, Possible(f, r),
         f.op = "creat"
  PROVE  GoesOn(t, f, r)
<1>1. After(f, r) = AfterCreat(f, r)
  BY DEF After, Opening
<1>2. f.pc \in {"create", "getprivs", "set"} /\ f \in Frame /\ r \in Replies
  BY DEF Good, Placed, PcsOf, Possible
<1>3. PICK g : g = After(f, r)
  OBVIOUS
<1>4. PICK h : h = Ignore(f, r, "getprivs")
  OBVIOUS
<1>5. IsIgnored(f, h, r, "getprivs") /\ h.op = f.op
  <2>1. "getprivs" \in PCs
    BY DEF PCs
  <2>2. IsIgnored(f, h, r, "getprivs")
    BY <1>2, <1>4, <2>1, IgnoreIs
  <2> QED
    BY <2>2 DEF IsIgnored, Like, Same
<1>6. IsDone(f, Done(f)) /\ IsDone(h, Done(h))
  BY <1>2, <1>5, DoneIs DEF IsIgnored, Like
<1>7. \/ f.pc = "create" /\ IsNext(f, g, "getprivs")
      \/ f.pc = "getprivs" /\ IsNext(f, g, "set")
      \/ f.pc = "getprivs" /\ g = Done(h)
      \/ IsDone(f, g)
      \/ IsFailed(f, g)
  BY <1>1, <1>2, <1>3, <1>4, <1>5, <1>6, NextIs, FailureIs DEF AfterCreat, Created, PCs
<1>8. g = Done(h) /\ f.pc = "getprivs" => IsIgnored(f, g, r, "return") /\ Unreported(g)
  BY <1>5, <1>6 DEF IsDone, IsIgnored, Like, Same, Unreported
<1>9. ForkOrder(f, r, g) /\ LookOrder(f, g)
  BY <1>2, <1>7, <1>8 DEF IsNext, IsFailed, IsDone, IsIgnored, Like, ForkOrder, LookOrder, Before, OnBlock,
                   OnStack, Opening
<1>10. f.op \notin Ranged \cup {"unlink", "rmdir", "rename", "utime"}
       /\ "set" \in PcsOf(f.op) /\ "getprivs" \in PcsOf(f.op)
  BY DEF Ranged, PcsOf
<1> QED
  BY <1>3, <1>7, <1>8, <1>9, <1>10, Continues DEF GoesOn

LEMMA DaemonCreatGoes ==
  ASSUME NEW t \in Threads, NEW f, Good(t, f), Running(f), NEW r, Possible(f, r),
         f.op = "daemon_creat"
  PROVE  GoesOn(t, f, r)
<1>1. After(f, r) = AfterOpen(f, r)
  BY DEF After, Opening
<1>2. f.pc \in {"open", "create", "getprivs", "set", "add"} /\ f \in Frame /\ r \in Replies
  BY DEF Good, Placed, PcsOf, Possible
<1>3. PICK g : g = After(f, r)
  OBVIOUS
<1>4. PICK h : h = Ignore(f, r, "getprivs")
  OBVIOUS
<1>5. IsIgnored(f, h, r, "getprivs") /\ h.op = f.op
  <2>1. "getprivs" \in PCs
    BY DEF PCs
  <2>2. IsIgnored(f, h, r, "getprivs")
    BY <1>2, <1>4, <2>1, IgnoreIs
  <2> QED
    BY <2>2 DEF IsIgnored, Like, Same
<1>6. IsNext(h, Next_(h, "open"), "open")
  BY <1>2, <1>5, NextIs DEF IsIgnored, Like, PCs
<1>7. \/ f.pc = "open" /\ r = "ok" /\ IsNext(f, g, "add")
      \/ f.pc = "open" /\ r # "ok" /\ IsNext(f, g, "create")
      \/ f.pc = "create" /\ IsNext(f, g, "getprivs")
      \/ f.pc = "getprivs" /\ IsNext(f, g, "set")
      \/ f.pc \in {"create", "getprivs", "set"} /\ IsNext(f, g, "open")
      \/ f.pc = "getprivs" /\ g = Next_(h, "open")
      \/ f.pc = "add" /\ IsDone(f, g)
      \/ ~(f.pc = "open" /\ r = "ok") /\ IsFailed(f, g)
  <2>1. CASE f.pc \in {"open", "add"}
    BY <1>1, <1>2, <1>3, <2>1, NextIs, FailureIs, DoneIs DEF AfterOpen, PCs
  <2>2. CASE f.pc \in {"create", "getprivs", "set"}
    <3>1. g = AfterCreat(f, r)
      BY <1>1, <1>3, <2>2 DEF AfterOpen
    <3> QED
      BY <1>2, <1>4, <1>5, <2>2, <3>1, NextIs, FailureIs DEF AfterCreat, Created, PCs
  <2> QED
    BY <1>2, <2>1, <2>2
<1>8. g = Next_(h, "open") /\ f.pc = "getprivs" => IsIgnored(f, g, r, "open") /\ Unreported(g)
  BY <1>5, <1>6 DEF IsNext, IsIgnored, Like, Same, Unreported
<1>9. ForkOrder(f, r, g) /\ LookOrder(f, g)
  <2>1. \/ f.pc = "open" /\ r = "ok" /\ g.pc = "add"
        \/ f.pc = "open" /\ r # "ok" /\ g.pc = "create"
        \/ f.pc \in {"create", "getprivs", "set"} /\ g.pc \in Before
        \/ ~(f.pc = "open" /\ r = "ok") /\ g.pc = "return"
    BY <1>7, <1>8 DEF IsNext, IsFailed, IsDone, IsIgnored, Before
  <2> QED
    BY <1>2, <2>1 DEF ForkOrder, LookOrder, Before, OnBlock, OnStack, Opening
<1>10. /\ f.op \notin Ranged \cup {"unlink", "rmdir", "rename", "utime"}
       /\ {"open", "create", "getprivs", "set", "add"} \subseteq PcsOf(f.op)
  BY DEF Ranged, PcsOf
<1> QED
  BY <1>3, <1>7, <1>8, <1>9, <1>10, Continues DEF GoesOn

LEMMA DaemonTruncGoes ==
  ASSUME NEW t \in Threads, NEW f, Good(t, f), Running(f), NEW r, Possible(f, r),
         f.op = "daemon_trunc"
  PROVE  GoesOn(t, f, r)
<1>1. After(f, r) = AfterOpen(f, r)
  BY DEF After, Opening
<1>2. f.pc \in {"open", "add", "zero"} /\ f \in Frame /\ r \in Replies
  BY DEF Good, Placed, PcsOf, Possible
<1>3. PICK g : g = After(f, r)
  OBVIOUS
<1>4. \/ f.pc = "open" /\ r = "ok" /\ IsNext(f, g, "add")
      \/ ~(f.pc = "open" /\ r = "ok") /\ IsFailed(f, g)
      \/ f.pc = "add" /\ IsNext(f, g, "zero")
      \/ f.pc = "zero" /\ IsDone(f, g)
      \/ f.pc = "zero" /\ r = "noanswer" /\ IsIgnored(f, g, r, "return")
  <2>1. CASE f.pc # "zero"
    BY <1>1, <1>2, <1>3, <2>1, NextIs, IgnoreIs, FailureIs, DoneIs DEF AfterOpen, PCs
  <2>2. CASE f.pc = "zero"
    <3>1. g = AfterZero(f, r) /\ r \in {"ok", "noanswer"} \cup ZeroErrors
      BY <1>1, <1>3, <2>2 DEF AfterOpen, Possible, ZeroErrors
    <3>2. PICK next : next = "return"
      OBVIOUS
    <3>3. PICK h : h = IF r = "ok" THEN Next_(f, next) ELSE Ignore(f, r, next)
      OBVIOUS
    <3>4. IF r = "ok" THEN IsNext(f, h, next) ELSE IsIgnored(f, h, r, next)
      BY <1>2, <3>2, <3>3, NextIs, IgnoreIs DEF PCs
    <3>5. CASE r \notin {"ok", "noanswer"}
      BY <1>2, <2>2, <3>1, <3>5, FailureIs DEF AfterZero
    <3>6. CASE r \in {"ok", "noanswer"}
      <4>1. g = Done(h)
        BY <3>1, <3>2, <3>3, <3>6 DEF AfterZero, ZeroErrors
      <4>2. IsDone(h, g)
        BY <3>4, <4>1, DoneIs DEF IsNext, IsIgnored, Like
      <4> QED
        BY <2>2, <3>2, <3>4, <3>6, <4>2 DEF IsDone, IsNext, IsIgnored, Like, Same
    <3> QED
      BY <3>5, <3>6
  <2> QED
    BY <1>2, <2>1, <2>2
<1>5. f.pc = "zero" /\ r = "noanswer" /\ IsIgnored(f, g, r, "return") => Unreported(g)
  BY DEF IsIgnored, Like, Same, Unreported
<1>6. ForkOrder(f, r, g) /\ LookOrder(f, g)
  BY <1>2, <1>4 DEF IsNext, IsFailed, IsDone, IsIgnored, Like, ForkOrder, LookOrder, Before, OnBlock, OnStack,
                   Opening
<1>7. f.op \notin Ranged /\ {"add", "zero"} \subseteq PcsOf(f.op)
  BY DEF Ranged, PcsOf
<1> QED
  BY <1>3, <1>4, <1>5, <1>6, <1>7, Continues DEF GoesOn

LEMMA TruncateGoes ==
  ASSUME NEW t \in Threads, NEW f, Good(t, f), Running(f), NEW r, Possible(f, r),
         f.op = "truncate"
  PROVE  GoesOn(t, f, r)
<1>1. After(f, r) = AfterTruncate(f, r)
  BY DEF After, Opening
<1>2. f.pc \in {"open", "add", "zero", "close", "unlist"} /\ f \in Frame /\ r \in Replies
  BY DEF Good, Placed, PcsOf, Possible
<1>3. PICK g : g = After(f, r)
  OBVIOUS
<1>4. \/ f.pc = "open" /\ r = "ok" /\ IsNext(f, g, "add")
      \/ f.pc = "open" /\ r # "ok" /\ IsIgnored(f, g, r, "return")
      \/ f.pc = "add" /\ IsNext(f, g, "zero")
      \/ f.pc = "zero" /\ IsFailed(f, g)
      \/ f.pc = "zero" /\ IsNext(f, g, "close")
      \/ f.pc = "zero" /\ r = "noanswer" /\ IsIgnored(f, g, r, "close")
      \/ f.pc = "close" /\ IsNext(f, g, "unlist")
      \/ f.pc = "unlist" /\ IsDone(f, g)
  <2>1. CASE f.pc # "zero"
    BY <1>1, <1>2, <1>3, <2>1, NextIs, IgnoreIs, FailureIs, DoneIs DEF AfterTruncate, PCs
  <2>2. CASE f.pc = "zero"
    <3>1. g = AfterZero(f, r) /\ r \in {"ok", "noanswer"} \cup ZeroErrors
      BY <1>1, <1>3, <2>2 DEF AfterTruncate, Possible, ZeroErrors
    <3>2. PICK next : next = "close"
      OBVIOUS
    <3>3. PICK h : h = IF r = "ok" THEN Next_(f, next) ELSE Ignore(f, r, next)
      OBVIOUS
    <3>4. IF r = "ok" THEN IsNext(f, h, next) ELSE IsIgnored(f, h, r, next)
      BY <1>2, <3>2, <3>3, NextIs, IgnoreIs DEF PCs
    <3>5. CASE r \notin {"ok", "noanswer"}
      BY <1>2, <2>2, <3>1, <3>5, FailureIs DEF AfterZero
    <3>6. CASE r \in {"ok", "noanswer"}
      <4>1. g = h
        BY <3>1, <3>2, <3>3, <3>6 DEF AfterZero, ZeroErrors
      <4> QED
        BY <2>2, <3>2, <3>4, <3>6, <4>1
    <3> QED
      BY <3>5, <3>6
  <2> QED
    BY <1>2, <2>1, <2>2
<1>5. /\ f.pc = "open" /\ r # "ok" /\ IsIgnored(f, g, r, "return") => Unreported(g) 
      /\ f.pc = "zero" /\ r = "noanswer" /\ IsIgnored(f, g, r, "close") => Unreported(g)
  BY DEF IsIgnored, Like, Same, Unreported
<1>6. ForkOrder(f, r, g) /\ LookOrder(f, g)
  BY <1>2, <1>4 DEF IsNext, IsFailed, IsDone, IsIgnored, Like, ForkOrder, LookOrder, Before, OnBlock, OnStack,
                   Opening
<1>7. f.op \notin Ranged /\ {"add", "zero", "close", "unlist"} \subseteq PcsOf(f.op)
  BY DEF Ranged, PcsOf
<1> QED
  BY <1>3, <1>4, <1>5, <1>6, <1>7, Continues DEF GoesOn

LEMMA ReleaseGoes ==
  ASSUME NEW t \in Threads, NEW f, Good(t, f), Running(f), NEW r, Possible(f, r),
         f.op = "release"
  PROVE  GoesOn(t, f, r)
<1>1. After(f, r) = AfterClose(f, r)
  BY DEF After, Opening
<1>2. f.pc \in {"close", "unlist"} /\ f \in Frame /\ r \in Replies
  BY DEF Good, Placed, PcsOf, Possible
<1>3. PICK g : g = After(f, r)
  OBVIOUS
<1>4. \/ f.pc = "close" /\ r = "ok" /\ IsNext(f, g, "unlist")
      \/ f.pc = "close" /\ IsFailed(f, g)
      \/ f.pc = "unlist" /\ IsDone(f, g)
  BY <1>1, <1>2, <1>3, NextIs, IgnoreIs, FailureIs, SuccessIs, DoneIs
  DEF AfterClose, PCs
<1>5. ForkOrder(f, r, g) /\ LookOrder(f, g)
  BY <1>2, <1>4 DEF IsNext, IsFailed, IsDone, IsIgnored, Like, ForkOrder, LookOrder, Before, OnBlock, OnStack,
                   Opening
<1>6. f.op \notin Ranged /\ {"unlist"} \subseteq PcsOf(f.op)
  BY DEF Ranged, PcsOf
<1> QED
  BY <1>3, <1>4, <1>5, <1>6, Continues DEF GoesOn

LEMMA UnlinkGoes ==
  ASSUME NEW t \in Threads, NEW f, Good(t, f), Running(f), NEW r, Possible(f, r),
         f.op = "unlink"
  PROVE  GoesOn(t, f, r)
<1>1. After(f, r) = AfterUnlink(f, r)
  BY DEF After, Opening
<1>2. f.pc \in {"isdir", "delete"} /\ f \in Frame /\ r \in Replies
  BY DEF Good, Placed, PcsOf, Possible
<1>3. PICK g : g = After(f, r)
  OBVIOUS
<1>4. \/ f.pc = "isdir" /\ ~f.isdir /\ IsNext(f, g, "delete")
      \/ IsFailed(f, g)
      \/ IsDone(f, g) /\ g.acted
      \/ f.pc = "delete" /\ r = "busy" /\ IsIgnored(f, g, r, "return")
  <2>1. CASE f.pc = "isdir"
    BY <1>1, <1>2, <1>3, <2>1, NextIs, FailureIs DEF AfterUnlink, PCs, Replies
  <2>2. CASE f.pc = "delete"
    <3>1. g = AfterDelete(f, r)
      BY <1>1, <1>3, <2>2 DEF AfterUnlink
    <3>2. r \in {"ok", "busy"} \cup DeleteErrors
      BY <2>2 DEF Possible, DeleteErrors
    <3> QED
      BY <1>2, <2>2, <3>1, <3>2, IgnoreIs, FailureIs, SuccessIs DEF AfterDelete, DeleteErrors, PCs
  <2> QED
    BY <1>2, <2>1, <2>2
<1>5. f.pc = "delete" /\ r = "busy" /\ IsIgnored(f, g, r, "return") => Unreported(g)
  BY DEF IsIgnored, Like, Same, Unreported
<1>6. ForkOrder(f, r, g) /\ LookOrder(f, g)
  BY <1>2, <1>4 DEF IsNext, IsFailed, IsDone, IsIgnored, Like, ForkOrder, LookOrder, Before, OnBlock, OnStack,
                   Opening
<1>7. f.op \notin Ranged /\ {"delete"} \subseteq PcsOf(f.op)
  BY DEF Ranged, PcsOf
<1> QED
  BY <1>3, <1>4, <1>5, <1>6, <1>7, Continues DEF GoesOn

LEMMA RmdirGoes ==
  ASSUME NEW t \in Threads, NEW f, Good(t, f), Running(f), NEW r, Possible(f, r),
         f.op = "rmdir"
  PROVE  GoesOn(t, f, r)
<1>1. After(f, r) = AfterRmdir(f, r)
  BY DEF After, Opening
<1>2. f.pc \in {"isdir", "delete"} /\ f \in Frame /\ r \in Replies
  BY DEF Good, Placed, PcsOf, Possible
<1>3. PICK g : g = After(f, r)
  OBVIOUS
<1>4. \/ f.pc = "isdir" /\ f.isdir /\ IsNext(f, g, "delete")
      \/ IsFailed(f, g)
      \/ IsDone(f, g) /\ g.acted
      \/ f.pc = "delete" /\ r = "busy" /\ IsIgnored(f, g, r, "return")
  <2>1. CASE f.pc = "isdir"
    BY <1>1, <1>2, <1>3, <2>1, NextIs, FailureIs DEF AfterRmdir, PCs, Replies
  <2>2. CASE f.pc = "delete"
    <3>1. g = AfterDelete(f, r)
      BY <1>1, <1>3, <2>2 DEF AfterRmdir
    <3>2. r \in {"ok", "busy"} \cup DeleteErrors
      BY <2>2 DEF Possible, DeleteErrors
    <3> QED
      BY <1>2, <2>2, <3>1, <3>2, IgnoreIs, FailureIs, SuccessIs DEF AfterDelete, DeleteErrors, PCs
  <2> QED
    BY <1>2, <2>1, <2>2
<1>5. f.pc = "delete" /\ r = "busy" /\ IsIgnored(f, g, r, "return") => Unreported(g)
  BY DEF IsIgnored, Like, Same, Unreported
<1>6. ForkOrder(f, r, g) /\ LookOrder(f, g)
  BY <1>2, <1>4 DEF IsNext, IsFailed, IsDone, IsIgnored, Like, ForkOrder, LookOrder, Before, OnBlock, OnStack,
                   Opening
<1>7. f.op \notin Ranged /\ {"delete"} \subseteq PcsOf(f.op)
  BY DEF Ranged, PcsOf
<1> QED
  BY <1>3, <1>4, <1>5, <1>6, <1>7, Continues DEF GoesOn

LEMMA MkdirGoes ==
  ASSUME NEW t \in Threads, NEW f, Good(t, f), Running(f), NEW r, Possible(f, r),
         f.op = "mkdir"
  PROVE  GoesOn(t, f, r)
<1>1. After(f, r) = AfterMkdir(f, r)
  BY DEF After, Opening
<1>2. f.pc \in {"mkdir"} /\ f \in Frame /\ r \in Replies
  BY DEF Good, Placed, PcsOf, Possible
<1>3. PICK g : g = After(f, r)
  OBVIOUS
<1>4. \/ IsFailed(f, g)
      \/ IsDone(f, g)
  BY <1>1, <1>2, <1>3, NextIs, IgnoreIs, FailureIs, SuccessIs, DoneIs
  DEF AfterMkdir, PCs
<1>5. ForkOrder(f, r, g) /\ LookOrder(f, g)
  BY <1>2, <1>4 DEF IsNext, IsFailed, IsDone, IsIgnored, Like, ForkOrder, LookOrder, Before, OnBlock, OnStack,
                   Opening
<1>6. f.op \notin Ranged
  BY DEF Ranged, PcsOf
<1> QED
  BY <1>3, <1>4, <1>5, <1>6, Continues DEF GoesOn

LEMMA GetattrGoes ==
  ASSUME NEW t \in Threads, NEW f, Good(t, f), Running(f), NEW r, Possible(f, r),
         f.op = "getattr"
  PROVE  GoesOn(t, f, r)
<1>1. After(f, r) = AfterGetattr(f, r)
  BY DEF After, Opening
<1>2. f.pc \in {"attr"} /\ f \in Frame /\ r \in Replies
  BY DEF Good, Placed, PcsOf, Possible
<1>3. PICK g : g = After(f, r)
  OBVIOUS
<1>4. \/ IsFailed(f, g)
      \/ IsDone(f, g)
  BY <1>1, <1>2, <1>3, NextIs, IgnoreIs, FailureIs, SuccessIs, DoneIs
  DEF AfterGetattr, PCs
<1>5. ForkOrder(f, r, g) /\ LookOrder(f, g)
  BY <1>2, <1>4 DEF IsNext, IsFailed, IsDone, IsIgnored, Like, ForkOrder, LookOrder, Before, OnBlock, OnStack,
                   Opening
<1>6. f.op \notin Ranged
  BY DEF Ranged, PcsOf
<1> QED
  BY <1>3, <1>4, <1>5, <1>6, Continues DEF GoesOn

LEMMA DaemonCloseGoes ==
  ASSUME NEW t \in Threads, NEW f, Good(t, f), Running(f), NEW r, Possible(f, r),
         f.op = "daemon_close"
  PROVE  GoesOn(t, f, r)
<1>1. After(f, r) = AfterDaemonClose(f, r)
  BY DEF After, Opening
<1>2. f.pc \in {"close"} /\ f \in Frame /\ r \in Replies
  BY DEF Good, Placed, PcsOf, Possible
<1>3. PICK g : g = After(f, r)
  OBVIOUS
<1>4. \/ IsFailed(f, g)
      \/ IsDone(f, g)
  BY <1>1, <1>2, <1>3, NextIs, IgnoreIs, FailureIs, SuccessIs, DoneIs
  DEF AfterDaemonClose, PCs
<1>5. ForkOrder(f, r, g) /\ LookOrder(f, g)
  BY <1>2, <1>4 DEF IsNext, IsFailed, IsDone, IsIgnored, Like, ForkOrder, LookOrder, Before, OnBlock, OnStack,
                   Opening
<1>6. f.op \notin Ranged
  BY DEF Ranged, PcsOf
<1> QED
  BY <1>3, <1>4, <1>5, <1>6, Continues DEF GoesOn

LEMMA ChmodGoes ==
  ASSUME NEW t \in Threads, NEW f, Good(t, f), Running(f), NEW r, Possible(f, r),
         f.op = "chmod"
  PROVE  GoesOn(t, f, r)
<1>1. After(f, r) = AfterChmod(f, r)
  BY DEF After, Opening
<1>2. f.pc \in {"getprivs", "set"} /\ f \in Frame /\ r \in Replies
  BY DEF Good, Placed, PcsOf, Possible
<1>3. PICK g : g = After(f, r)
  OBVIOUS
<1>4. \/ f.pc = "getprivs" /\ IsNext(f, g, "set")
      \/ IsFailed(f, g)
      \/ IsDone(f, g)
      \/ f.pc = "set" /\ IsIgnored(f, g, r, "return")
  BY <1>1, <1>2, <1>3, NextIs, IgnoreIs, FailureIs, SuccessIs, DoneIs
  DEF AfterChmod, PCs
<1>5. f.pc = "set" /\ IsIgnored(f, g, r, "return") => Unreported(g)
  BY DEF IsIgnored, Like, Same, Unreported
<1>6. ForkOrder(f, r, g) /\ LookOrder(f, g)
  BY <1>2, <1>4 DEF IsNext, IsFailed, IsDone, IsIgnored, Like, ForkOrder, LookOrder, Before, OnBlock, OnStack,
                   Opening
<1>7. f.op \notin Ranged /\ {"set"} \subseteq PcsOf(f.op)
  BY DEF Ranged, PcsOf
<1> QED
  BY <1>3, <1>4, <1>5, <1>6, <1>7, Continues DEF GoesOn

LEMMA ChownGoes ==
  ASSUME NEW t \in Threads, NEW f, Good(t, f), Running(f), NEW r, Possible(f, r),
         f.op = "chown"
  PROVE  GoesOn(t, f, r)
<1>1. After(f, r) = AfterChown(f, r)
  BY DEF After, Opening
<1>2. f.pc \in {"getprivs", "set"} /\ f \in Frame /\ r \in Replies
  BY DEF Good, Placed, PcsOf, Possible
<1>3. PICK g : g = After(f, r)
  OBVIOUS
<1>4. \/ f.pc = "getprivs" /\ IsNext(f, g, "set")
      \/ IsFailed(f, g)
      \/ IsDone(f, g)
      \/ f.pc = "set" /\ IsIgnored(f, g, r, "return")
  BY <1>1, <1>2, <1>3, NextIs, IgnoreIs, FailureIs, SuccessIs, DoneIs
  DEF AfterChown, PCs
<1>5. f.pc = "set" /\ IsIgnored(f, g, r, "return") => Unreported(g)
  BY DEF IsIgnored, Like, Same, Unreported
<1>6. ForkOrder(f, r, g) /\ LookOrder(f, g)
  BY <1>2, <1>4 DEF IsNext, IsFailed, IsDone, IsIgnored, Like, ForkOrder, LookOrder, Before, OnBlock, OnStack,
                   Opening
<1>7. f.op \notin Ranged /\ {"set"} \subseteq PcsOf(f.op)
  BY DEF Ranged, PcsOf
<1> QED
  BY <1>3, <1>4, <1>5, <1>6, <1>7, Continues DEF GoesOn

LEMMA UtimeGoes ==
  ASSUME NEW t \in Threads, NEW f, Good(t, f), Running(f), NEW r, Possible(f, r),
         f.op = "utime"
  PROVE  GoesOn(t, f, r)
<1>1. After(f, r) = AfterUtime(f, r)
  BY DEF After, Opening
<1>2. f.pc \in {"isdir", "set"} /\ f \in Frame /\ r \in Replies
  BY DEF Good, Placed, PcsOf, Possible
<1>3. PICK g : g = After(f, r)
  OBVIOUS
<1>4. \/ f.pc = "isdir" /\ IsNext(f, g, "set")
      \/ IsFailed(f, g)
      \/ IsDone(f, g) /\ g.acted
      \/ f.pc = "set" /\ IsIgnored(f, g, r, "return")
  BY <1>1, <1>2, <1>3, NextIs, IgnoreIs, FailureIs, SuccessIs, DoneIs
  DEF AfterUtime, PCs
<1>5. f.pc = "set" /\ IsIgnored(f, g, r, "return") => Unreported(g)
  BY DEF IsIgnored, Like, Same, Unreported
<1>6. ForkOrder(f, r, g) /\ LookOrder(f, g)
  <2>1. g.pc \in {"set", "return"} /\ (g.pc = "set" => f.pc = "isdir")
    BY <1>4 DEF IsNext, IsFailed, IsDone, IsIgnored
  <2> QED
    BY <1>2, <2>1 DEF ForkOrder, LookOrder, Before, OnBlock, OnStack, Opening
<1>7. f.op \notin Ranged /\ {"set"} \subseteq PcsOf(f.op)
  BY DEF Ranged, PcsOf
<1> QED
  BY <1>3, <1>4, <1>5, <1>6, <1>7, Continues DEF GoesOn

LEMMA RenameGoes ==
  ASSUME NEW t \in Threads, NEW f, Good(t, f), Running(f), NEW r, Possible(f, r),
         f.op = "rename"
  PROVE  GoesOn(t, f, r)
<1>1. After(f, r) = AfterRename(f, r)
  BY DEF After, Opening
<1>2. f.pc \in {"isdir", "move", "delete2", "move2"} /\ f \in Frame /\ r \in Replies
  BY DEF Good, Placed, PcsOf, Possible
<1>3. PICK g : g = After(f, r)
  OBVIOUS
<1>4. \/ f.pc = "isdir" /\ IsNext(f, g, "move")
      \/ f.pc = "move" /\ IsNext(f, g, "delete2")
      \/ f.pc = "delete2" /\ IsNext(f, g, "move2")
      \/ IsFailed(f, g)
      \/ IsDone(f, g) /\ g.acted
      \/ f.pc = "move" /\ r = "missing" /\ IsIgnored(f, g, r, "return")
      \/ f.pc = "move2" /\ IsIgnored(f, g, r, "return")
  BY <1>1, <1>2, <1>3, NextIs, IgnoreIs, FailureIs, SuccessIs, DoneIs
  DEF AfterRename, PCs
<1>5. /\ f.pc = "move" /\ r = "missing" /\ IsIgnored(f, g, r, "return") => Unreported(g) 
      /\ f.pc = "move2" /\ IsIgnored(f, g, r, "return") => Unreported(g)
  BY DEF IsIgnored, Like, Same, Unreported
<1>6. ForkOrder(f, r, g) /\ LookOrder(f, g)
  BY <1>2, <1>4 DEF IsNext, IsFailed, IsDone, IsIgnored, Like, ForkOrder, LookOrder, Before, OnBlock, OnStack,
                   Opening
<1>7. f.op \notin Ranged /\ {"move", "delete2", "move2"} \subseteq PcsOf(f.op)
  BY DEF Ranged, PcsOf
<1> QED
  BY <1>3, <1>4, <1>5, <1>6, <1>7, Continues DEF GoesOn

LEMMA ReadlinkGoes ==
  ASSUME NEW t \in Threads, NEW f, Good(t, f), Running(f), NEW r, Possible(f, r),
         f.op = "readlink"
  PROVE  GoesOn(t, f, r)
<1>1. After(f, r) = AfterReadlink(f, r)
  BY DEF After, Opening
<1>2. f.pc \in {"open", "add", "io", "close", "unlist"} /\ f \in Frame /\ r \in Replies
  BY DEF Good, Placed, PcsOf, Possible
<1>3. PICK g : g = After(f, r)
  OBVIOUS
<1>4. \/ f.pc = "open" /\ r = "ok" /\ IsNext(f, g, "add")
      \/ f.pc = "open" /\ r # "ok" /\ IsIgnored(f, g, r, "add")
      \/ f.pc = "add" /\ IsNext(f, g, "io")
      \/ f.pc = "io" /\ IsNext(f, g, "close")
      \/ f.pc = "io" /\ IsIgnored(f, g, r, "close")
      \/ f.pc = "close" /\ r = "ok" /\ IsNext(f, g, "unlist")
      \/ ~(f.pc = "open" /\ r = "ok") /\ f.pc # "unlist" /\ IsFailed(f, g)
      \/ f.pc = "unlist" /\ IsDone(f, g)
  BY <1>1, <1>2, <1>3, NextIs, IgnoreIs, FailureIs, SuccessIs, DoneIs
  DEF AfterReadlink, PCs, ReadErrors
<1>5. /\ f.pc = "open" /\ r # "ok" /\ IsIgnored(f, g, r, "add") => Unreported(g) 
      /\ f.pc = "io" /\ IsIgnored(f, g, r, "close") => Unreported(g)
  BY DEF IsIgnored, Like, Same, Unreported
<1>6. ForkOrder(f, r, g) /\ LookOrder(f, g)
  BY <1>2, <1>4 DEF IsNext, IsFailed, IsDone, IsIgnored, Like, ForkOrder, LookOrder, Before, OnBlock, OnStack,
                   Opening
<1>7. f.op \notin Ranged /\ {"add", "io", "close", "unlist"} \subseteq PcsOf(f.op)
  BY DEF Ranged, PcsOf
<1> QED
  BY <1>3, <1>4, <1>5, <1>6, <1>7, Continues DEF GoesOn

LEMMA SymlinkGoes ==
  ASSUME NEW t \in Threads, NEW f, Good(t, f), Running(f), NEW r, Possible(f, r),
         f.op = "symlink"
  PROVE  GoesOn(t, f, r)
<1>1. After(f, r) = AfterSymlink(f, r)
  BY DEF After, Opening
<1>2. f.pc \in {"create", "open", "add", "io", "close", "unlist", "finder"} /\ f \in Frame /\ r \in Replies
  BY DEF Good, Placed, PcsOf, Possible
<1>3. PICK g : g = After(f, r)
  OBVIOUS
<1>4. \/ f.pc = "create" /\ IsNext(f, g, "open")
      \/ f.pc = "open" /\ r = "ok" /\ IsNext(f, g, "add")
      \/ f.pc = "open" /\ r # "ok" /\ IsIgnored(f, g, r, "add")
      \/ f.pc = "add" /\ IsNext(f, g, "io")
      \/ f.pc = "io" /\ IsNext(f, g, "close")
      \/ f.pc = "io" /\ IsIgnored(f, g, r, "close")
      \/ f.pc = "close" /\ r = "ok" /\ IsNext(f, g, "unlist")
      \/ f.pc = "unlist" /\ IsNext(f, g, "finder")
      \/ f.pc \in {"create", "close", "finder"} /\ IsFailed(f, g)
      \/ f.pc = "finder" /\ IsDone(f, g)
  BY <1>1, <1>2, <1>3, NextIs, IgnoreIs, FailureIs, SuccessIs, DoneIs
  DEF AfterSymlink, PCs
<1>5. /\ f.pc = "open" /\ r # "ok" /\ IsIgnored(f, g, r, "add") => Unreported(g) 
      /\ f.pc = "io" /\ IsIgnored(f, g, r, "close") => Unreported(g)
  BY DEF IsIgnored, Like, Same, Unreported
<1>6. ForkOrder(f, r, g) /\ LookOrder(f, g)
  BY <1>2, <1>4 DEF IsNext, IsFailed, IsDone, IsIgnored, Like, ForkOrder, LookOrder, Before, OnBlock, OnStack,
                   Opening
<1>7. f.op \notin Ranged /\ {"open", "add", "io", "close", "unlist", "finder"} \subseteq PcsOf(f.op)
  BY DEF Ranged, PcsOf
<1> QED
  BY <1>3, <1>4, <1>5, <1>6, <1>7, Continues DEF GoesOn

LEMMA LockIs ==
  ASSUME NEW f \in Frame, f.pc = "lock", f.tries < Tries, NEW r \in {"ok", "lockerr"}
  PROVE  LET g == AfterLock(f, r) IN
         /\ g \in Frame /\ Same(f, g) /\ g.k = f.k /\ g.fault = f.fault /\ g.res = f.res
         /\ \/ g.pc = "io"
            \/ g.pc = "lock" /\ g.tries < Tries /\ r = "lockerr"
<1>1. "io" \in PCs /\ f.tries \in 0..Tries /\ Tries \in Nat /\ Tries \in 0..Tries
  BY FilesConstants DEF PCs, Frame
<1>2. CASE r = "ok"
  BY <1>1, <1>2 DEF AfterLock, Frame, Same
<1>3. CASE r = "lockerr" /\ f.tries + 1 < Tries
  BY <1>1, <1>3 DEF AfterLock, Frame, Same
<1>4. CASE r = "lockerr" /\ ~(f.tries + 1 < Tries)
  <2>1. AfterLock(f, r) = [f EXCEPT !.pc = "io", !.tries = Tries]
    BY <1>4 DEF AfterLock
  <2> QED
    BY <1>1, <2>1 DEF Frame, Same
<1> QED
  BY <1>2, <1>3, <1>4

\* A part of a write has been sent.
LEMMA PartIs ==
  ASSUME NEW f \in Frame, f.k < Packets, NEW r \in Replies
  PROVE  LET h == [f EXCEPT !.k = @ + 1, !.fault = IF r = "ok" THEN @ ELSE <<"io", r>>] IN
         /\ h \in Frame /\ Same(f, h) /\ h.k = f.k + 1 /\ h.pc = f.pc /\ h.res = f.res
         /\ h.fault = f.fault \/ h.fault = <<"io", r>>
<1>1. PICK e : e = IF r = "ok" THEN f.fault ELSE <<"io", r>>
  OBVIOUS
<1>2. e \in (PCs \X Replies) \cup {<<>>}
  <2>1. "io" \in PCs
    BY DEF PCs
  <2> QED
    BY <1>1, <2>1 DEF Frame
<1>3. f.k + 1 \in 0..Packets
  BY FilesConstants DEF Frame
<1>4. PICK h : h = [f EXCEPT !.k = f.k + 1, !.fault = e]
  OBVIOUS
<1>5. h \in Frame /\ Same(f, h) /\ h.k = f.k + 1 /\ h.pc = f.pc /\ h.res = f.res /\ h.fault = e
  BY <1>2, <1>3, <1>4 DEF Frame, Same
<1> QED
  BY <1>1, <1>4, <1>5

LEMMA WriteGoes ==
  ASSUME NEW t \in Threads, NEW f, Good(t, f), Running(f), NEW r, Possible(f, r),
         f.op = "write"
  PROVE  GoesOn(t, f, r)
<1>1. After(f, r) = AfterWrite(f, r)
  BY DEF After, Opening
<1>2. f.pc \in {"lock", "io", "unlock"} /\ f \in Frame /\ r \in Replies /\ f.res = "ok" /\ f.op # "read"
  BY DEF Good, Placed, PcsOf, Possible
<1>3. PICK g : g = After(f, r)
  OBVIOUS
<1>4. PICK h : h = [f EXCEPT !.k = @ + 1, !.fault = IF r = "ok" THEN @ ELSE <<"io", r>>]
  OBVIOUS
<1>5. /\ g \in Frame /\ Same(f, g) /\ g.res = f.res
      /\ \/ /\ f.pc = "lock" /\ g.k = f.k /\ g.fault = f.fault
            /\ (g.pc = "io" /\ r \in {"ok", "lockerr"}) \/ (g.pc = "lock" /\ g.tries < Tries)
         \/ f.pc = "lock" /\ g.pc = "return" /\ g.k = f.k /\ g.fault = <<"lock", r>>
         \/ /\ f.pc = "io" /\ g.k = f.k + 1 /\ (g.fault = f.fault \/ g.fault = <<"io", r>>)
            /\ \/ g.pc = "io" /\ g.k < Packets
               \/ ~(g.k < Packets) /\ g.pc = "unlock" /\ ~NoLocking
               \/ ~(g.k < Packets) /\ g.pc = "return" /\ NoLocking /\ (g.fault = <<>> => g.acted)
         \/ /\ f.pc = "unlock" /\ g.pc = "return" /\ g.k = f.k /\ g.fault = f.fault
            /\ g.fault = <<>> => g.acted
  <2>1. CASE f.pc = "lock" /\ r \in {"ok", "lockerr"}
    BY <1>1, <1>2, <1>3, <2>1, LockIs DEF AfterWrite, Good, Placed
  <2>2. CASE f.pc = "lock" /\ r \notin {"ok", "lockerr"}
    <3>1. g = Ignore(f, r, "return") /\ "return" \in PCs
      BY <1>1, <1>3, <2>2 DEF AfterWrite, PCs
    <3>2. IsIgnored(f, g, r, "return")
      BY <1>2, <3>1, IgnoreIs
    <3> QED
      BY <2>2, <3>2 DEF IsIgnored, Like
  <2>3. CASE f.pc = "io"
    <3>1. f.k < Packets
      BY <2>3 DEF Good, Placed
    <3>2. /\ h \in Frame /\ Same(f, h) /\ h.k = f.k + 1 /\ h.pc = f.pc /\ h.res = f.res
          /\ h.fault = f.fault \/ h.fault = <<"io", r>>
      BY <1>2, <1>4, <3>1, PartIs
    <3>3. g = IF h.k < Packets THEN h ELSE IF NoLocking THEN Done(h) ELSE Next_(h, "unlock")
      BY <1>1, <1>3, <1>4, <2>3 DEF AfterWrite
    <3>4. IsDone(h, Done(h)) /\ IsNext(h, Next_(h, "unlock"), "unlock")
      BY <3>2, DoneIs, NextIs DEF PCs
    <3> QED
      BY <2>3, <3>2, <3>3, <3>4 DEF IsDone, IsNext, Like, Same
  <2>4. CASE f.pc = "unlock"
    BY <1>1, <1>2, <1>3, <2>4, DoneIs DEF AfterWrite, IsDone, Like
  <2> QED
    BY <1>2, <2>1, <2>2, <2>3, <2>4
<1>6. Placed(t, g)
  <2>1. g.pc \in {"lock", "io", "unlock", "return"} /\ (g.pc = "lock" => g.k = f.k /\ f.pc = "lock" /\ g.tries < Tries)
        /\ (g.pc = "io" => g.k < Packets) /\ PcsOf("write") = {"lock", "io", "unlock"}
    <3>1. f.pc = "lock" => f.k < Packets
      BY FilesConstants DEF Good, Placed
    <3> QED
      BY <1>5, <3>1 DEF PcsOf
  <2> QED
    BY <1>2, <1>5, <2>1 DEF Good, Placed, Same, Running
<1>7. Honest(g)
  <2>1. g.op = "write" /\ (f.fault = <<>> \/ Unreported(f))
    BY <1>2, <1>5 DEF Good, Honest, Same
  <2>2. Unreported(f) /\ g.fault = f.fault => Unreported(g)
    BY <2>1 DEF Unreported
  <2>3. g.fault = <<"lock", r>> \/ g.fault = <<"io", r>> => Unreported(g)
    BY <2>1 DEF Unreported
  <2>4. g.pc = "return" => g.acted \/ Unreported(g)
    BY <1>5, <2>1, <2>2, <2>3
  <2>5. g.fault = <<>> \/ Unreported(g)
    BY <1>5, <2>1, <2>2, <2>3
  <2> QED
    BY <2>4, <2>5 DEF Honest
<1>8. ForkOrder(f, r, g) /\ LookOrder(f, g) /\ LockOrder(f, r, g) /\ g.pc # "idle"
  <2>1. g.pc \in {"lock", "io", "unlock", "return"}
    BY <1>5
  <2>2. ForkOrder(f, r, g) /\ LookOrder(f, g)
    BY <1>2, <2>1 DEF ForkOrder, LookOrder, Before, OnBlock, OnStack, Opening
  <2> QED
    BY <1>5, <2>1, <2>2 DEF LockOrder
<1> QED
  BY <1>3, <1>5, <1>6, <1>7, <1>8 DEF GoesOn, Good

\* What a read makes of the result h it has
ReadEnds(h, g) ==
  /\ g \in Frame /\ Same(h, g)
  /\ \/ g.pc = "return" /\ (h.op = "read" /\ g.res = "ok" => g.acted)
     \/ /\ h.op = "read" /\ g.pc = (IF NoLocking THEN "io" ELSE "lock")
        /\ g.tries = 0 /\ g.res = h.res /\ g.fault = <<>>

LEMMA ReadFailedIs ==
  ASSUME NEW h \in Frame, h.op \in {"read", "daemon_read"}, NEW r \in Replies
  PROVE  ReadEnds(h, ReadFailed(h, r)) /\ ReadFailed(h, r).pc = "return"
<1>1. "return" \in PCs
  BY DEF PCs
<1>2. IsFailed(h, Failure(h, r)) /\ IsIgnored(h, Ignore(h, r, "return"), r, "return")
  BY <1>1, FailureIs, IgnoreIs
<1> QED
  BY <1>2 DEF ReadFailed, ReadEnds, IsFailed, IsIgnored, Like

LEMMA ReadResultIs ==
  ASSUME NEW h \in Frame, h.op \in {"read", "daemon_read"}
  PROVE  ReadEnds(h, ReadResult(h))
<1>1. CASE h.fault # <<>> /\ h.fault[2] \in ReadErrors
  <2>1. h.fault[2] \in Replies
    BY <1>1 DEF ReadErrors, Replies
  <2>2. PICK j : j = Next_(h, "io")
    OBVIOUS
  <2>3. j \in Frame /\ Same(h, j) /\ j.res = h.res
    BY <2>2, NextIs DEF IsNext, Like, PCs
  <2>4. ReadEnds(j, ReadFailed(j, h.fault[2]))
    BY <2>1, <2>3, ReadFailedIs DEF Same
  <2>5. ReadResult(h) = ReadFailed(j, h.fault[2])
    BY <1>1, <2>2 DEF ReadResult
  <2> QED
    BY <2>3, <2>4, <2>5 DEF ReadEnds, Same
<1>2. CASE ~(h.fault # <<>> /\ h.fault[2] \in ReadErrors) /\ h.op = "read" /\ h.fault = <<>>
  BY <1>2, SuccessIs DEF ReadResult, FuseRead, ReadEnds, IsDone, Like
<1>3. CASE ~(h.fault # <<>> /\ h.fault[2] \in ReadErrors) /\ h.op = "read" /\ h.fault # <<>>
  <2>1. PICK pc : pc = IF NoLocking THEN "io" ELSE "lock"
    OBVIOUS
  <2>2. pc \in PCs /\ 0 \in 0..Tries
    BY <2>1, FilesConstants DEF PCs
  <2>3. PICK g : g = [h EXCEPT !.pc = pc, !.tries = 0, !.locked = FALSE, !.fault = <<>>]
    OBVIOUS
  <2>4. ReadResult(h) = g
    BY <1>3, <2>1, <2>3 DEF ReadResult, FuseRead
  <2>5. g \in Frame /\ Same(h, g) /\ g.pc = pc /\ g.tries = 0 /\ g.res = h.res /\ g.fault = <<>>
    BY <2>2, <2>3 DEF Frame, Same
  <2> QED
    BY <1>3, <2>1, <2>4, <2>5 DEF ReadEnds
<1>4. CASE ~(h.fault # <<>> /\ h.fault[2] \in ReadErrors) /\ h.op # "read"
  BY <1>4, DoneIs DEF ReadResult, ReadEnds, IsDone, Like
<1> QED
  BY <1>1, <1>2, <1>3, <1>4

LEMMA ReadGoes ==
  ASSUME NEW t \in Threads, NEW f, Good(t, f), Running(f), NEW r, Possible(f, r),
         f.op \in {"read", "daemon_read"}
  PROVE  GoesOn(t, f, r)
<1>1. After(f, r) = AfterRead(f, r)
  BY DEF After, Opening
<1>2. f.pc \in {"lock", "io", "unlock"} /\ f \in Frame /\ r \in Replies /\ f.res = "ok"
  BY DEF Good, Placed, PcsOf, Possible
<1>3. PICK g : g = After(f, r)
  OBVIOUS
<1>4. /\ g \in Frame /\ Same(f, g)
      /\ \/ /\ f.pc = "lock" /\ g.res = f.res /\ g.fault = f.fault
            /\ (g.pc = "io" /\ r \in {"ok", "lockerr"}) \/ (g.pc = "lock" /\ g.tries < Tries)
         \/ f.pc = "io" /\ ~NoLocking /\ g.pc = "unlock" /\ g.res = f.res
         \/ g.pc = "return" /\ (f.op = "read" /\ g.res = "ok" => g.acted)
         \/ /\ (f.op = "read" /\ f.pc = "unlock") \/ NoLocking
            /\ g.pc = (IF NoLocking THEN "io" ELSE "lock") /\ g.tries = 0 /\ g.res = f.res /\ g.fault = <<>>
  <2>1. CASE f.pc = "lock" /\ r \in {"ok", "lockerr"}
    BY <1>1, <1>2, <1>3, <2>1, LockIs DEF AfterRead, Good, Placed
  <2>2. CASE f.pc = "lock" /\ r \notin {"ok", "lockerr"}
    <3>1. g = ReadFailed(f, r)
      BY <1>1, <1>3, <2>2 DEF AfterRead
    <3> QED
      BY <1>2, <2>2, <3>1, ReadFailedIs DEF ReadEnds
  <2>3. CASE f.pc = "io"
    <3>1. PICK e : e = IF r = "ok" THEN <<>> ELSE <<"io", r>>
      OBVIOUS
    <3>2. e \in (PCs \X Replies) \cup {<<>>}
      BY <1>2, <3>1 DEF PCs
    <3>3. PICK h : h = [f EXCEPT !.fault = e]
      OBVIOUS
    <3>4. h \in Frame /\ Same(f, h) /\ h.res = f.res
      BY <1>2, <3>2, <3>3 DEF Frame, Same
    <3>5. g = IF NoLocking THEN ReadResult(h) ELSE Next_(h, "unlock")
      BY <1>1, <1>3, <2>3, <3>1, <3>3 DEF AfterRead
    <3>6. IsNext(h, Next_(h, "unlock"), "unlock") /\ ReadEnds(h, ReadResult(h))
      BY <3>4, NextIs, ReadResultIs DEF PCs, Same
    <3> QED
      BY <2>3, <3>4, <3>5, <3>6 DEF IsNext, Like, ReadEnds, Same
  <2>4. CASE f.pc = "unlock"
    <3>1. g = ReadResult(f) \/ g = ReadFailed(f, r)
      BY <1>1, <1>3, <2>4 DEF AfterRead
    <3>2. ReadEnds(f, g)
      BY <1>2, <3>1, ReadResultIs, ReadFailedIs
    <3> QED
      BY <2>4, <3>2 DEF ReadEnds
  <2> QED
    BY <1>2, <2>1, <2>2, <2>3, <2>4
<1>5. Placed(t, g)
  <2>1. /\ g.pc \in {"lock", "io", "unlock", "return"} /\ (g.pc = "lock" => g.tries < Tries)
        /\ g.pc # "return" => g.res = f.res
        /\ PcsOf(f.op) = {"lock", "io", "unlock"}
    BY <1>4, FilesConstants DEF PcsOf
  <2> QED
    BY <1>2, <1>4, <2>1 DEF Good, Placed, Same, Running
<1>6. Honest(g)
  <2>1. g.op = "daemon_read" => Unreported(g)
    BY DEF Unreported
  <2> QED
    BY <1>4, <2>1 DEF Honest, Same, Running
<1>7. ForkOrder(f, r, g) /\ LookOrder(f, g) /\ LockOrder(f, r, g) /\ g.pc # "idle"
  <2>1. g.pc \in {"lock", "io", "unlock", "return"}
    BY <1>4
  <2>2. ForkOrder(f, r, g) /\ LookOrder(f, g)
    BY <1>2, <2>1 DEF ForkOrder, LookOrder, Before, OnBlock, OnStack, Opening
  <2> QED
    BY <1>4, <2>1, <2>2 DEF LockOrder
<1> QED
  BY <1>3, <1>4, <1>5, <1>6, <1>7 DEF GoesOn, Good

\* A call goes on as its function says, whatever the reply.
LEMMA CallGoes ==
  ASSUME NEW t \in Threads, NEW f, Good(t, f), Running(f), f.op # "unmount", NEW r, Possible(f, r)
  PROVE  GoesOn(t, f, r)
<1>1. f.op \in AllOps
  BY DEF Good, Placed, Running
<1> QED
  BY <1>1, OpenGoes, CreatGoes, DaemonCreatGoes, DaemonTruncGoes, TruncateGoes, ReleaseGoes, UnlinkGoes, RmdirGoes,
     MkdirGoes, GetattrGoes, DaemonCloseGoes, ChmodGoes, ChownGoes, UtimeGoes, RenameGoes, ReadlinkGoes,
     SymlinkGoes, WriteGoes, ReadGoes DEF AllOps

-----------------------------------------------------------------------------
(* A step of a call *)

GoodFrames == \A t \in Threads : Good(t, th[t])

\* f is the frame of t, but for what the request itself has put in it, and r the reply.
Asked(t, f, r) ==
  /\ Good(t, f) /\ Running(f) /\ f.op # "unmount" /\ Possible(f, r)
  /\ f.pc = th[t].pc /\ f.op = th[t].op /\ f.fp = th[t].fp /\ f.id = th[t].id /\ f.name = th[t].name
  /\ f.to = th[t].to /\ f.moved = th[t].moved /\ f.k = th[t].k

\* t is at g; others have found out at most that an object has moved.
Moves(t, g) ==
  /\ th' = [u \in Threads |-> th'[u]]
  /\ th'[t] = g
  /\ \A u \in Threads \ {t} :
       \/ th'[u] = th[u]
       \/ th[u].pc = "delete" /\ th'[u] = [th[u] EXCEPT !.moved = TRUE]

Turn(t, f, r) ==
  Asked(t, f, r) /\ Moves(t, After(f, r)) /\ Keep(f, After(f, r), list')

LEMMA ResumeIs ==
  ASSUME TypeOK, NEW t \in Threads, NEW f, NEW r, Asked(t, f, r),
         Goto(t, After(f, r)) /\ Keep(f, After(f, r), list')
  PROVE  Turn(t, f, r)
<1>1. th \in [Threads -> Frame]
  BY DEF TypeOK
<1>2. PICK g : g = After(f, r)
  OBVIOUS
<1>3. th' = [th EXCEPT ![t] = g]
  BY <1>2 DEF Goto
<1>4. Moves(t, g)
  BY <1>1, <1>3 DEF Moves
<1> QED
  BY <1>2, <1>4 DEF Turn

LEMMA ResumeMovedIs ==
  ASSUME NEW t \in Threads, NEW f, NEW r, NEW p, Asked(t, f, r), list' = list,
         ResumeMoved(t, f, r, p)
  PROVE  Turn(t, f, r) /\ place' = p
<1>1. PICK g : g = After(f, r)
  OBVIOUS
<1>2. Moves(t, g)
  BY <1>1 DEF Moves, ResumeMoved
<1> QED
  BY <1>1, <1>2 DEF Turn, ResumeMoved

\* A request in the frame as it is
LEMMA AskedAs ==
  ASSUME NEW t \in Threads, Good(t, th[t]), Running(th[t]), th[t].pc \notin {"volclose", "freelist"},
         NEW r, Possible(th[t], r)
  PROVE  Asked(t, th[t], r)
<1>1. th[t].op # "unmount"
  BY DEF Good, Placed, PcsOf
<1> QED
  BY <1>1 DEF Asked

\* The reply is one the request can get, and is counted when it was a refusal.
LEMMA Answered ==
  ASSUME TypeOK, NEW good \in Replies, NEW errs \in SUBSET Replies, NEW r,
         r \in Answers(good, errs) \/ r \in VolumeAnswers(good, errs)
  PROVE  /\ r \in Replies
         /\ r \in {good, "noanswer", "param"} \cup errs
         /\ r \in Answers(good, errs) => r \in {good, "noanswer"} \cup errs
         /\ Charge(r, good) => refusals' \in 0..MaxRefusals
<1>1. "noanswer" \in Replies /\ "param" \in Replies
  BY DEF Replies
<1>2. r \in Answers(good, errs) \/ r \in Answers("param", errs)
  BY DEF VolumeAnswers
<1>3. /\ r \in {good, "noanswer", "param"} \cup errs
      /\ r \notin {good, "noanswer", "param"} => refusals < MaxRefusals
  BY <1>2 DEF Answers
<1>4. r \in Answers(good, errs) => r \in {good, "noanswer"} \cup errs
  BY DEF Answers
<1>5. refusals \in 0..MaxRefusals /\ MaxRefusals \in Nat
  BY FilesConstants DEF TypeOK
<1>6. Charge(r, good) => refusals' \in 0..MaxRefusals
  BY <1>3, <1>5 DEF Charge
<1> QED
  BY <1>1, <1>3, <1>4, <1>6

LEMMA FrameOf ==
  ASSUME TypeOK, GoodFrames, NEW t \in Threads
  PROVE  /\ th[t] \in Frame /\ Good(t, th[t])
         /\ Running(th[t]) /\ th[t].pc \notin {"volclose", "freelist"} => th[t].op # "unmount" /\ th[t].op \in AllOps
<1>1. th[t] \in Frame /\ Good(t, th[t])
  BY DEF TypeOK, GoodFrames
<1> QED
  BY <1>1 DEF Good, Placed, PcsOf, Running

\* What each request does apart from letting its call go on
OpenForkDoes(t, f, r) ==
  \/ /\ r = "ok"
     /\ \E i \in Inodes, k \in UnusedForks : forks' = [forks EXCEPT ![k] = i] /\ fork' = [fork EXCEPT ![f.fp] = k]
     /\ ~Closed /\ ~down
     /\ trouble' = trouble
  \/ /\ r # "ok" /\ forks' = forks
     /\ \/ /\ After(f, r).pc = "add" /\ "wild_fork" \in trouble'
           /\ \E k \in ForkIds \cup {Null} : fork' = [fork EXCEPT ![t] = k]
        \/ After(f, r).pc # "add" /\ fork' = fork
     /\ trouble \subseteq trouble'

LEMMA HereIs ==
  ASSUME NEW n \in Names
  PROVE  Here(n) = Null \/ (Here(n) \in Inodes /\ place[Here(n)] = n)
BY DEF Here, Named

LEMMA OpenForkTurn ==
  ASSUME TypeOK, GoodFrames, NEW t \in Threads, OpenFork(t)
  PROVE  /\ \E r : Turn(t, th[t], r) /\ OpenForkDoes(t, th[t], r)
         /\ th[t].pc = "open" /\ refusals' \in 0..MaxRefusals /\ trouble' \subseteq TroubleKinds
         /\ UNCHANGED <<place, kind, content, locks, list, mounted, calls, down>>
<1> DEFINE f == th[t]
           i == Here(f.name)
           good == IF i = Null THEN "missing" ELSE IF kind[i] = "dir" THEN "type"
                   ELSE IF UnusedForks = {} THEN "full" ELSE "ok"
<1>1. PICK r \in VolumeAnswers(good, {"denied", "misc"}) :
          /\ Charge(r, good)
          /\ Resume(t, f, r)
          /\ IF r = "ok"
             THEN \E k \in UnusedForks :
                    /\ forks' = [forks EXCEPT ![k] = i]
                    /\ fork' = [fork EXCEPT ![f.fp] = k]
                    /\ UNCHANGED trouble
             ELSE /\ UNCHANGED forks
                  /\ IF After(f, r).pc = "add"
                     THEN (\E k \in ForkIds \cup {Null} : fork' = [fork EXCEPT ![t] = k])
                            /\ Now({"wild_fork"})
                     ELSE /\ UNCHANGED fork
                          /\ Now(IF OpenFailed(f, After(f, r)) /\ f.op \in Daemons
                                 THEN {"freed_twice"} ELSE {})
  BY DEF OpenFork
<1>2. f.pc = "open" /\ UNCHANGED <<place, kind, content, locks, list, mounted, calls, down>>
  BY DEF OpenFork, At
<1>3. good \in Replies /\ {"denied", "misc"} \in SUBSET Replies
  BY DEF Replies
<1> HIDE DEF good
<1>4. r \in Replies /\ refusals' \in 0..MaxRefusals
  BY <1>1, <1>3, Answered
<1>5. Asked(t, f, r)
  BY <1>2, <1>4, FrameOf, AskedAs DEF Possible, Running
<1>6. Turn(t, f, r)
  BY <1>1, <1>2, <1>5, ResumeIs DEF Resume
<1>7. trouble' \subseteq TroubleKinds
  BY <1>1 DEF Now, TroubleKinds, TypeOK
<1>8. r = "ok" => i \in Inodes /\ ~Closed /\ ~down
  <2>1. "ok" \notin {"noanswer", "param", "denied", "misc"}
    OBVIOUS
  <2>2. r = "ok" => good = "ok" /\ ~Closed /\ ~down
    BY <1>1, <2>1 DEF VolumeAnswers, Answers
  <2>3. f.name \in Names
    BY <1>2, FrameOf DEF Good, Placed, Running, AllOps, Nameless, PcsOf
  <2>4. good = "ok" => i # Null
    BY DEF good
  <2> QED
    BY <2>2, <2>3, <2>4, HereIs
<1>9. OpenForkDoes(t, f, r)
  <2>1. CASE r = "ok"
    BY <1>1, <1>8, <2>1 DEF OpenForkDoes
  <2>2. CASE r # "ok"
    <3> HIDE DEF f
    <3> QED
      BY <1>1, <2>2 DEF OpenForkDoes, Now
  <2> QED
    BY <2>1, <2>2
<1> QED
  BY <1>2, <1>4, <1>6, <1>7, <1>9

LEMMA AddOpenedForkTurn ==
  ASSUME TypeOK, GoodFrames, NEW t \in Threads, AddOpenedFork(t)
  PROVE  /\ Turn(t, th[t], "ok") /\ th[t].pc = "add"
         /\ list' = <<th[t].fp>> \o list
         /\ trouble \subseteq trouble' /\ trouble' \subseteq TroubleKinds
         /\ th[t].fp \in ToSet(list) => "listed_twice" \in trouble'
         /\ UNCHANGED <<server, fork, mounted, calls, refusals, down>>
<1> DEFINE f == th[t]
<1>1. /\ f.pc = "add" /\ list' = <<f.fp>> \o list
      /\ Now(IF f.fp \in ToSet(list) THEN {"listed_twice"} ELSE {})
      /\ Goto(t, After(f, "ok")) /\ Keep(f, After(f, "ok"), list')
      /\ UNCHANGED <<server, fork, mounted, calls, refusals, down>>
  BY DEF AddOpenedFork, At
<1>2. Asked(t, f, "ok")
  BY <1>1, FrameOf, AskedAs DEF Possible, Running, Replies
<1>3. Turn(t, f, "ok")
  BY <1>1, <1>2, ResumeIs
<1>4. trouble \subseteq trouble' /\ trouble' \subseteq TroubleKinds /\ (f.fp \in ToSet(list) => "listed_twice" \in trouble')
  BY <1>1 DEF Now, TroubleKinds, TypeOK
<1> QED
  BY <1>1, <1>3, <1>4

LEMMA RemoveOpenedForkTurn ==
  ASSUME TypeOK, GoodFrames, NEW t \in Threads, RemoveOpenedFork(t)
  PROVE  /\ Turn(t, th[t], "ok") /\ th[t].pc = "unlist"
         /\ list' = RemoveFirst(list, th[t].fp)
         /\ UNCHANGED <<server, fork, mounted, calls, refusals, down, trouble>>
<1> DEFINE f == th[t]
<1>1. /\ f.pc = "unlist" /\ list' = RemoveFirst(list, f.fp)
      /\ Goto(t, After(f, "ok")) /\ Keep(f, After(f, "ok"), list')
      /\ UNCHANGED <<server, fork, mounted, calls, refusals, down, trouble>>
  BY DEF RemoveOpenedFork, At, Unlisted
<1>2. Asked(t, f, "ok")
  BY <1>1, FrameOf, AskedAs DEF Possible, Running, Replies
<1>3. Turn(t, f, "ok")
  BY <1>1, <1>2, ResumeIs
<1> QED
  BY <1>1, <1>3

LEMMA SetForkParmsTurn ==
  ASSUME TypeOK, GoodFrames, NEW t \in Threads, SetForkParms(t)
  PROVE  /\ \E r : /\ Turn(t, th[t], r)
                   /\ content' = content \/ \E i \in Inodes : content' = [content EXCEPT ![i] = Blank]
                   /\ OpenFailed(th[t], After(th[t], r)) /\ th[t].op \in Daemons => "freed_twice" \in trouble'
         /\ th[t].pc = "zero" /\ refusals' \in 0..MaxRefusals
         /\ trouble \subseteq trouble' /\ trouble' \subseteq TroubleKinds
         /\ UNCHANGED <<place, kind, forks, locks, fork, list, mounted, calls, down>>
<1> DEFINE f == th[t]
           i == FileOf(f)
           good == IF i = Null THEN "misc" ELSE "ok"
<1>1. PICK r \in Answers(good, {"denied", "lockerr"}) :
          /\ Charge(r, good)
          /\ content' = IF r = "ok" THEN [content EXCEPT ![i] = Blank] ELSE content
          /\ Resume(t, f, r)
          /\ Now(IF OpenFailed(f, After(f, r)) /\ f.op \in Daemons THEN {"freed_twice"} ELSE {})
  BY DEF SetForkParms
<1>2. f.pc = "zero" /\ UNCHANGED <<place, kind, forks, locks, fork, list, mounted, calls, down>>
  BY DEF SetForkParms, At
<1>3. good \in Replies /\ good \in {"misc", "ok"} /\ {"denied", "lockerr"} \in SUBSET Replies
  BY DEF Replies
<1>4. r = "ok" => i # Null
  BY <1>1 DEF Answers
<1> HIDE DEF good
<1>5. r \in Replies /\ r \in {good, "noanswer", "denied", "lockerr"} /\ refusals' \in 0..MaxRefusals
  BY <1>1, <1>3, Answered
<1>6. Asked(t, f, r)
  <2>1. Possible(f, r)
    BY <1>2, <1>3, <1>5 DEF Possible
  <2> QED
    BY <1>2, <2>1, FrameOf, AskedAs DEF Running
<1>7. Turn(t, f, r)
  BY <1>1, <1>2, <1>6, ResumeIs DEF Resume
<1>8. trouble \subseteq trouble' /\ trouble' \subseteq TroubleKinds
  BY <1>1 DEF Now, TroubleKinds, TypeOK
<1>9. OpenFailed(f, After(f, r)) /\ f.op \in Daemons => "freed_twice" \in trouble'
  BY <1>1 DEF Now
<1>10. i # Null => i \in Inodes
  BY <1>2, FrameOf DEF FileOf, ForkOf, TypeOK, Frame
<1>11. content' = content \/ \E j \in Inodes : content' = [content EXCEPT ![j] = Blank]
  BY <1>1, <1>4, <1>10
<1> QED
  BY <1>2, <1>5, <1>7, <1>8, <1>9, <1>11

\* The fork of a call is closed, and nobody holds a lock for it any more.
CloseForkDoes(k) ==
  /\ forks' = [forks EXCEPT ![k] = Null]
  /\ locks' = [i \in Inodes |-> IF locks[i] = k THEN Null ELSE locks[i]]

LEMMA CloseForkTurn ==
  ASSUME TypeOK, GoodFrames, NEW t \in Threads, CloseFork(t)
  PROVE  /\ \E r : /\ Turn(t, th[t], r)
                   /\ \/ r = "ok" /\ CloseForkDoes(ForkOf(th[t])) /\ FileOf(th[t]) # Null
                         /\ (InUse(ForkOf(th[t])) => "wild_fork" \in trouble')
                      \/ r # "ok" /\ "close_refused" \in trouble' /\ forks' = forks /\ locks' = locks
         /\ th[t].pc = "close" /\ refusals' \in 0..MaxRefusals
         /\ trouble \subseteq trouble' /\ trouble' \subseteq TroubleKinds
         /\ UNCHANGED <<place, kind, content, fork, list, mounted, calls, down>>
<1> DEFINE f == th[t]
           good == IF FileOf(f) = Null THEN "misc" ELSE "ok"
<1>1. PICK r \in Answers(good, {"misc"}) :
          /\ Charge(r, good)
          /\ IF r = "ok"
             THEN /\ forks' = [forks EXCEPT ![ForkOf(f)] = Null]
                  /\ locks' = [i \in Inodes |-> IF locks[i] = ForkOf(f) THEN Null ELSE locks[i]]
             ELSE UNCHANGED <<forks, locks>>
          /\ Resume(t, f, r)
          /\ Now(IF r # "ok" THEN {"close_refused"} ELSE IF InUse(ForkOf(f)) THEN {"wild_fork"} ELSE {})
  BY DEF CloseFork
<1>2. f.pc = "close" /\ UNCHANGED <<place, kind, content, fork, list, mounted, calls, down>>
  BY DEF CloseFork, At
<1>3. good \in Replies /\ {"misc"} \in SUBSET Replies
  BY DEF Replies
<1>4. r = "ok" => FileOf(f) # Null
  BY <1>1 DEF Answers
<1> HIDE DEF good
<1>5. r \in Replies /\ refusals' \in 0..MaxRefusals
  BY <1>1, <1>3, Answered
<1>6. Asked(t, f, r)
  BY <1>2, <1>5, FrameOf, AskedAs DEF Running, Possible
<1>7. Turn(t, f, r)
  BY <1>1, <1>2, <1>6, ResumeIs DEF Resume
<1>8. trouble \subseteq trouble' /\ trouble' \subseteq TroubleKinds
  BY <1>1 DEF Now, TroubleKinds, TypeOK
<1>9. \/ r = "ok" /\ CloseForkDoes(ForkOf(f)) /\ FileOf(f) # Null /\ (InUse(ForkOf(f)) => "wild_fork" \in trouble')
      \/ r # "ok" /\ "close_refused" \in trouble' /\ forks' = forks /\ locks' = locks
  <2> HIDE DEF f
  <2> QED
    BY <1>1, <1>4 DEF CloseForkDoes, Now
<1> QED
  BY <1>2, <1>5, <1>7, <1>8, <1>9

LEMMA ForkAndFile ==
  ASSUME TypeOK, NEW t \in Threads
  PROVE  /\ ForkOf(th[t]) \in ForkIds \cup {Null} /\ FileOf(th[t]) \in Inodes \cup {Null}
         /\ FileOf(th[t]) # Null => ForkOf(th[t]) # Null /\ FileOf(th[t]) = forks[ForkOf(th[t])]
<1>1. th[t] \in Frame
  BY DEF TypeOK
<1>2. ForkOf(th[t]) \in ForkIds \cup {Null}
  BY <1>1 DEF ForkOf, TypeOK, Frame
<1> QED
  BY <1>2 DEF FileOf, TypeOK

LockDoes(f, r) ==
  /\ \/ /\ r = "ok" /\ FileOf(f) # Null /\ locks[FileOf(f)] = Null
        /\ locks' = [locks EXCEPT ![FileOf(f)] = ForkOf(f)]
     \/ r # "ok" /\ locks' = locks
  /\ r = "lockerr" /\ After(f, r).pc = "io" => "no_lock" \in trouble'

LEMMA LockTurn ==
  ASSUME TypeOK, GoodFrames, NEW t \in Threads, Lock(t)
  PROVE  /\ \E r : Turn(t, th[t], r) /\ LockDoes(th[t], r)
         /\ th[t].pc = "lock" /\ refusals' \in 0..MaxRefusals
         /\ trouble \subseteq trouble' /\ trouble' \subseteq TroubleKinds
         /\ UNCHANGED <<place, kind, content, forks, fork, list, mounted, calls, down>>
<1> DEFINE f == th[t]
           i == FileOf(f)
           good == IF i = Null THEN "misc"
                   ELSE IF locks[i] = Null THEN "ok"
                   ELSE IF locks[i] = ForkOf(f) THEN "overlap" ELSE "lockerr"
<1>1. PICK r \in Answers(good, {"misc"}) :
          /\ Charge(r, good)
          /\ locks' = IF r = "ok" THEN [locks EXCEPT ![i] = ForkOf(f)] ELSE locks
          /\ Resume(t, f, r)
          /\ Now(IF r = "lockerr" /\ After(f, r).pc = "io" THEN {"no_lock"} ELSE {})
  BY DEF Lock
<1>2. f.pc = "lock" /\ UNCHANGED <<place, kind, content, forks, fork, list, mounted, calls, down>>
  BY DEF Lock, At
<1>3. good \in Replies /\ {"misc"} \in SUBSET Replies
  BY DEF Replies
<1>4. r = "ok" => i # Null /\ locks[i] = Null
  BY <1>1 DEF Answers
<1> HIDE DEF good
<1>5. r \in Replies /\ refusals' \in 0..MaxRefusals
  BY <1>1, <1>3, Answered
<1>6. Asked(t, f, r)
  BY <1>2, <1>5, FrameOf, AskedAs DEF Running, Possible
<1>7. Turn(t, f, r)
  BY <1>1, <1>2, <1>6, ResumeIs DEF Resume
<1>8. trouble \subseteq trouble' /\ trouble' \subseteq TroubleKinds
  BY <1>1 DEF Now, TroubleKinds, TypeOK
<1>9. LockDoes(f, r)
  <2> HIDE DEF f
  <2> QED
    BY <1>1, <1>4 DEF LockDoes, Now
<1> QED
  BY <1>2, <1>5, <1>7, <1>8, <1>9

UnlockDoes(f, r) ==
  \/ /\ r = "ok" /\ FileOf(f) # Null /\ locks[FileOf(f)] = ForkOf(f)
     /\ locks' = [locks EXCEPT ![FileOf(f)] = Null]
  \/ r # "ok" /\ locks' = locks

LEMMA UnlockTurn ==
  ASSUME TypeOK, GoodFrames, NEW t \in Threads, Unlock(t)
  PROVE  /\ \E r : Turn(t, th[t], r) /\ UnlockDoes(th[t], r)
         /\ th[t].pc = "unlock" /\ refusals' \in 0..MaxRefusals
         /\ UNCHANGED <<place, kind, content, forks, fork, list, mounted, calls, down, trouble>>
<1> DEFINE f == th[t]
           i == FileOf(f)
           good == IF i = Null THEN "misc" ELSE IF locks[i] = ForkOf(f) THEN "ok" ELSE "notlocked"
<1>1. PICK r \in Answers(good, {"misc"}) :
          /\ Charge(r, good)
          /\ locks' = IF r = "ok" THEN [locks EXCEPT ![i] = Null] ELSE locks
          /\ Resume(t, f, r)
  BY DEF Unlock
<1>2. f.pc = "unlock" /\ UNCHANGED <<place, kind, content, forks, fork, list, mounted, calls, down, trouble>>
  BY DEF Unlock, At
<1>3. good \in Replies /\ {"misc"} \in SUBSET Replies
  BY DEF Replies
<1>4. r = "ok" => i # Null /\ locks[i] = ForkOf(f)
  BY <1>1 DEF Answers
<1> HIDE DEF good
<1>5. r \in Replies /\ refusals' \in 0..MaxRefusals
  BY <1>1, <1>3, Answered
<1>6. Asked(t, f, r)
  BY <1>2, <1>5, FrameOf, AskedAs DEF Running, Possible
<1>7. Turn(t, f, r)
  BY <1>1, <1>2, <1>6, ResumeIs DEF Resume
<1>8. UnlockDoes(f, r)
  <2> HIDE DEF f
  <2> QED
    BY <1>1, <1>4 DEF UnlockDoes
<1> QED
  BY <1>2, <1>5, <1>7, <1>8

WriteDoes(t, f, r) ==
  \/ r # "ok" /\ content' = content /\ "part_refused" \in trouble'
  \/ r = "ok" /\ f.op # "write" /\ content' = content
  \/ /\ r = "ok" /\ f.op = "write" /\ FileOf(f) # Null
     /\ content' = [content EXCEPT ![FileOf(f)] = [content[FileOf(f)] EXCEPT ![f.k + 1] = t]]

LEMMA WriteExtTurn ==
  ASSUME TypeOK, GoodFrames, NEW t \in Threads, WriteExt(t)
  PROVE  /\ \E r : Turn(t, th[t], r) /\ WriteDoes(t, th[t], r)
         /\ th[t].pc = "io" /\ th[t].op \in {"write", "symlink"} /\ refusals' \in 0..MaxRefusals
         /\ trouble \subseteq trouble' /\ trouble' \subseteq TroubleKinds
         /\ UNCHANGED <<place, kind, forks, locks, fork, list, mounted, calls, down>>
<1> DEFINE f == th[t]
           i == FileOf(f)
           good == IF i = Null THEN "misc" ELSE "ok"
<1>1. PICK r \in Answers(good, {"full"}) :
          /\ Charge(r, good)
          /\ content' = IF r = "ok" /\ f.op = "write" THEN [content EXCEPT ![i][f.k + 1] = t] ELSE content
          /\ Now(IF r = "ok" THEN {} ELSE {"part_refused"})
          /\ Resume(t, f, r)
  BY DEF WriteExt
<1>2. /\ f.pc = "io" /\ f.op \in {"write", "symlink"}
      /\ UNCHANGED <<place, kind, forks, locks, fork, list, mounted, calls, down>>
  BY DEF WriteExt, At
<1>3. good \in Replies /\ {"full"} \in SUBSET Replies
  BY DEF Replies
<1>4. r = "ok" => i # Null
  BY <1>1 DEF Answers
<1> HIDE DEF good
<1>5. r \in Replies /\ refusals' \in 0..MaxRefusals
  BY <1>1, <1>3, Answered
<1>6. Asked(t, f, r)
  BY <1>2, <1>5, FrameOf, AskedAs DEF Running, Possible
<1>7. Turn(t, f, r)
  BY <1>1, <1>2, <1>6, ResumeIs DEF Resume
<1>8. trouble \subseteq trouble' /\ trouble' \subseteq TroubleKinds
  BY <1>1 DEF Now, TroubleKinds, TypeOK
<1>9. WriteDoes(t, f, r)
  <2> HIDE DEF f
  <2>1. i \in Inodes \/ i = Null
    BY ForkAndFile DEF f
  <2>2. content \in [Inodes -> [1..Packets -> Threads \cup {Null}]]
    BY DEF TypeOK
  <2>3. r # "ok" => "part_refused" \in trouble'
    BY <1>1 DEF Now
  <2> QED
    BY <1>1, <1>4, <2>1, <2>2, <2>3 DEF WriteDoes
<1> QED
  BY <1>2, <1>5, <1>7, <1>8, <1>9

LEMMA ReadExtTurn ==
  ASSUME TypeOK, GoodFrames, NEW t \in Threads, ReadExt(t)
  PROVE  /\ \E r : Turn(t, th[t], r)
         /\ th[t].pc = "io" /\ th[t].op \in {"read", "daemon_read", "readlink"} /\ refusals' \in 0..MaxRefusals
         /\ UNCHANGED <<server, fork, list, mounted, calls, down, trouble>>
<1> DEFINE f == th[t]
           good == IF FileOf(f) = Null THEN "misc" ELSE "ok"
<1>1. PICK r \in Answers(good, {"denied"}) : Charge(r, good) /\ Resume(t, f, r)
  BY DEF ReadExt
<1>2. /\ f.pc = "io" /\ f.op \in {"read", "daemon_read", "readlink"}
      /\ UNCHANGED <<server, fork, list, mounted, calls, down, trouble>>
  BY DEF ReadExt, At
<1>3. good \in Replies /\ {"denied"} \in SUBSET Replies
  BY DEF Replies
<1> HIDE DEF good
<1>4. r \in Replies /\ refusals' \in 0..MaxRefusals
  BY <1>1, <1>3, Answered
<1>5. Asked(t, f, r)
  BY <1>2, <1>4, FrameOf, AskedAs DEF Running, Possible
<1>6. Turn(t, f, r)
  BY <1>1, <1>2, <1>5, ResumeIs DEF Resume
<1> QED
  BY <1>2, <1>4, <1>6

-----------------------------------------------------------------------------
(* Requests for names *)

\* A thread that is about to delete and has not missed anything sees its name stand for the
\* same kind of object as before.
Sees(t) ==
  \A u \in Threads \ {t} : th'[u].pc = "delete" /\ ~th'[u].moved =>
    /\ th'[u] = th[u] /\ Named(place', th[u].name) = Here(th[u].name)
    /\ Here(th[u].name) # Null => (kind'[Here(th[u].name)] = "dir" <=> kind[Here(th[u].name)] = "dir")

\* An object that has a name does not become a directory or cease to be one.
KindsStay == \A i \in Inodes : place[i] \in Names => (kind'[i] = "dir" <=> kind[i] = "dir")

LEMMA AboutToDelete ==
  ASSUME TypeOK, GoodFrames, NEW t \in Threads, th[t].pc = "delete"
  PROVE  th[t].name \in Names /\ th[t].op \in {"unlink", "rmdir"}
BY FrameOf DEF Good, Placed, PcsOf, AllOps, Nameless, Running

LEMMA SeesStill ==
  ASSUME TypeOK, GoodFrames, NEW t \in Threads, NEW g, Goto(t, g), place' = place, KindsStay
  PROVE  Sees(t)
<1> SUFFICES ASSUME NEW u \in Threads \ {t}, th'[u].pc = "delete"
             PROVE  /\ th'[u] = th[u] /\ Named(place', th[u].name) = Here(th[u].name)
                    /\ Here(th[u].name) # Null => (kind'[Here(th[u].name)] = "dir" <=> kind[Here(th[u].name)] = "dir")
  BY DEF Sees
<1>1. th'[u] = th[u]
  BY DEF Goto, TypeOK
<1>2. th[u].name \in Names
  BY <1>1, AboutToDelete
<1> QED
  BY <1>1, <1>2, HereIs DEF Here, KindsStay

LEMMA SeesMoved ==
  ASSUME TypeOK, GoodFrames, NEW t \in Threads, NEW f, NEW r, NEW p, ResumeMoved(t, f, r, p), KindsStay
  PROVE  Sees(t)
<1> SUFFICES ASSUME NEW u \in Threads \ {t}, th'[u].pc = "delete", ~th'[u].moved
             PROVE  /\ th'[u] = th[u] /\ Named(place', th[u].name) = Here(th[u].name)
                    /\ Here(th[u].name) # Null => (kind'[Here(th[u].name)] = "dir" <=> kind[Here(th[u].name)] = "dir")
  BY DEF Sees
<1>1. place' = p
  BY DEF ResumeMoved
<1>2. th'[u] = IF th[u].pc = "delete" /\ Named(p, th[u].name) # Here(th[u].name)
               THEN [th[u] EXCEPT !.moved = TRUE] ELSE th[u]
  BY DEF ResumeMoved
<1>3. th[u] \in Frame
  BY DEF TypeOK
<1>4. ~(th[u].pc = "delete" /\ Named(p, th[u].name) # Here(th[u].name))
  <2>1. [th[u] EXCEPT !.moved = TRUE].moved = TRUE
    BY <1>3 DEF Frame
  <2> QED
    BY <1>2, <2>1
<1>5. th'[u] = th[u]
  BY <1>2, <1>4
<1>6. th[u].name \in Names
  BY <1>5, AboutToDelete
<1> QED
  BY <1>1, <1>4, <1>5, <1>6, HereIs DEF KindsStay

\* What the requests for names have in common
Tidies == content' = content \/ \E i \in Inodes : content' = [content EXCEPT ![i] = Blank]

NamedDoes(t) ==
  /\ Tidies /\ Sees(t) /\ refusals' \in 0..MaxRefusals
  /\ trouble \subseteq trouble' /\ trouble' \subseteq TroubleKinds
  /\ place' \in [Inodes -> Names \cup Inodes \cup {Null}] /\ kind' \in [Inodes -> {"file", "dir", "link"}]
  /\ UNCHANGED <<forks, locks, fork, list, mounted, calls, down>>

LEMMA NameOf ==
  ASSUME TypeOK, GoodFrames, NEW t \in Threads, Running(th[t]), th[t].op \notin Nameless
  PROVE  /\ th[t].name \in Names /\ Here(th[t].name) \in Inodes \cup {Null}
         /\ th[t].op = "rename" => th[t].to \in Names /\ Here(th[t].to) \in Inodes \cup {Null}
<1>1. th[t].name \in Names /\ (th[t].op = "rename" => th[t].to \in Names)
  BY FrameOf DEF Good, Placed, Running
<1> QED
  BY <1>1, HereIs

LEMMA CreateFileTurn ==
  ASSUME TypeOK, GoodFrames, NEW t \in Threads, CreateFile(t)
  PROVE  /\ \E r : Turn(t, th[t], r)
         /\ th[t].pc = "create" /\ NamedDoes(t)
<1> DEFINE f == th[t]
           i == Here(f.name)
           good == IF i = Null THEN IF Unused = {} THEN "full" ELSE "ok"
                   ELSE IF f.op # "symlink" THEN "exists"
                   ELSE IF kind[i] = "dir" THEN "type"
                   ELSE IF OpenOn(i) THEN "busy" ELSE "ok"
<1>1. PICK r \in VolumeAnswers(good, {"denied"}) :
          /\ Charge(r, good)
          /\ IF r = "ok"
             THEN \E j \in (IF i = Null THEN Unused ELSE {i}) :
                    /\ kind' = [kind EXCEPT ![j] = "file"]
                    /\ content' = [content EXCEPT ![j] = Blank]
                    /\ ResumeMoved(t, f, r, [place EXCEPT ![j] = f.name])
             ELSE Resume(t, f, r) /\ UNCHANGED <<place, kind, content>>
          /\ Now(IF OpenFailed(f, After(f, r)) THEN {"freed_twice"} ELSE {})
  BY DEF CreateFile
<1>2. f.pc = "create" /\ UNCHANGED <<forks, locks, fork, list, mounted, calls, down>>
  BY DEF CreateFile, At
<1>3. good \in Replies /\ {"denied"} \in SUBSET Replies
  BY DEF Replies
<1>4. r = "ok" => i = Null \/ kind[i] # "dir"
  BY <1>1 DEF VolumeAnswers, Answers
<1> HIDE DEF good
<1>5. r \in Replies /\ refusals' \in 0..MaxRefusals
  BY <1>1, <1>3, Answered
<1>6. Asked(t, f, r)
  BY <1>2, <1>5, FrameOf, AskedAs DEF Running, Possible
<1>7. trouble \subseteq trouble' /\ trouble' \subseteq TroubleKinds
  BY <1>1 DEF Now, TroubleKinds, TypeOK
<1>8. f.name \in Names /\ i \in Inodes \cup {Null}
  BY <1>2, FrameOf, NameOf DEF Good, Placed, PcsOf, AllOps, Nameless, Running
<1>9. CASE r = "ok"
  <2>1. PICK j \in (IF i = Null THEN Unused ELSE {i}) :
                    /\ kind' = [kind EXCEPT ![j] = "file"]
                    /\ content' = [content EXCEPT ![j] = Blank]
                    /\ ResumeMoved(t, f, r, [place EXCEPT ![j] = f.name])
    BY <1>1, <1>9
  <2>2. j \in Inodes /\ (place[j] \in Names => kind[j] # "dir")
    BY <1>4, <1>8, <1>9, FilesConstants DEF Unused
  <2>3. Turn(t, f, r) /\ place' = [place EXCEPT ![j] = f.name]
    BY <1>2, <1>6, <2>1, ResumeMovedIs
  <2>4. KindsStay
    BY <2>1, <2>2 DEF KindsStay, TypeOK
  <2>5. Sees(t)
    BY <2>1, <2>4, SeesMoved
  <2>6. /\ place' \in [Inodes -> Names \cup Inodes \cup {Null}] /\ kind' \in [Inodes -> {"file", "dir", "link"}]
        /\ Tidies
    BY <1>8, <2>1, <2>2, <2>3 DEF TypeOK, Tidies
  <2> QED
    BY <1>2, <1>5, <1>7, <2>3, <2>5, <2>6 DEF NamedDoes
<1>10. CASE r # "ok"
  <2>1. Resume(t, f, r) /\ UNCHANGED <<place, kind, content>>
    BY <1>1, <1>10
  <2>2. Turn(t, f, r)
    BY <1>2, <1>6, <2>1, ResumeIs DEF Resume
  <2>3. Sees(t)
    BY <2>1, SeesStill DEF Resume, KindsStay
  <2> QED
    BY <1>2, <1>5, <1>7, <2>1, <2>2, <2>3 DEF NamedDoes, TypeOK, Tidies
<1> QED
  BY <1>2, <1>9, <1>10

LEMMA CreateDirTurn ==
  ASSUME TypeOK, GoodFrames, NEW t \in Threads, CreateDir(t)
  PROVE  /\ \E r : Turn(t, th[t], r)
         /\ th[t].pc = "mkdir" /\ NamedDoes(t)
<1> DEFINE f == th[t]
           good == IF Here(f.name) # Null THEN "exists" ELSE IF Unused = {} THEN "full" ELSE "ok"
<1>1. PICK r \in VolumeAnswers(good, {"denied"}) :
          /\ Charge(r, good)
          /\ IF r = "ok"
             THEN \E j \in Unused :
                    /\ kind' = [kind EXCEPT ![j] = "dir"]
                    /\ content' = [content EXCEPT ![j] = Blank]
                    /\ ResumeMoved(t, f, r, [place EXCEPT ![j] = f.name])
             ELSE Resume(t, f, r) /\ UNCHANGED <<place, kind, content>>
  BY DEF CreateDir
<1>2. f.pc = "mkdir" /\ UNCHANGED <<forks, locks, fork, list, mounted, calls, down, trouble>>
  BY DEF CreateDir, At
<1>3. good \in Replies /\ {"denied"} \in SUBSET Replies
  BY DEF Replies
<1> HIDE DEF good
<1>4. r \in Replies /\ refusals' \in 0..MaxRefusals
  BY <1>1, <1>3, Answered
<1>5. Asked(t, f, r)
  BY <1>2, <1>4, FrameOf, AskedAs DEF Running, Possible
<1>6. trouble \subseteq trouble' /\ trouble' \subseteq TroubleKinds
  BY <1>2 DEF TypeOK
<1>7. f.name \in Names
  BY <1>2, FrameOf, NameOf DEF Good, Placed, PcsOf, AllOps, Nameless, Running
<1>8. CASE r = "ok"
  <2>1. PICK j \in Unused :
                    /\ kind' = [kind EXCEPT ![j] = "dir"]
                    /\ content' = [content EXCEPT ![j] = Blank]
                    /\ ResumeMoved(t, f, r, [place EXCEPT ![j] = f.name])
    BY <1>1, <1>8
  <2>2. j \in Inodes /\ place[j] \notin Names
    BY FilesConstants DEF Unused
  <2>3. Turn(t, f, r) /\ place' = [place EXCEPT ![j] = f.name]
    BY <1>2, <1>5, <2>1, ResumeMovedIs
  <2>4. KindsStay
    BY <2>1, <2>2 DEF KindsStay, TypeOK
  <2>5. Sees(t)
    BY <2>1, <2>4, SeesMoved
  <2>6. /\ place' \in [Inodes -> Names \cup Inodes \cup {Null}] /\ kind' \in [Inodes -> {"file", "dir", "link"}]
        /\ Tidies
    BY <1>7, <2>1, <2>2, <2>3 DEF TypeOK, Tidies
  <2> QED
    BY <1>2, <1>4, <1>6, <2>3, <2>5, <2>6 DEF NamedDoes
<1>9. CASE r # "ok"
  <2>1. Resume(t, f, r) /\ UNCHANGED <<place, kind, content>>
    BY <1>1, <1>9
  <2>2. Turn(t, f, r)
    BY <1>2, <1>5, <2>1, ResumeIs DEF Resume
  <2>3. Sees(t)
    BY <2>1, SeesStill DEF Resume, KindsStay
  <2> QED
    BY <1>2, <1>4, <1>6, <2>1, <2>2, <2>3 DEF NamedDoes, TypeOK, Tidies
<1> QED
  BY <1>2, <1>8, <1>9

LEMMA GetFileDirParmsTurn ==
  ASSUME TypeOK, GoodFrames, NEW t \in Threads, GetFileDirParms(t)
  PROVE  /\ \E r : Turn(t, th[t], r)
         /\ th[t].pc \in {"getprivs", "attr"} /\ NamedDoes(t)
<1> DEFINE f == th[t]
           good == Exists(f.name)
<1>1. PICK r \in VolumeAnswers(good, {"denied"}) :
          /\ Charge(r, good)
          /\ \E q \in (IF r = "ok" /\ f.pc = "getprivs" THEN {"ok", "same", "notowner"} ELSE {r}) :
               Resume(t, f, q)
  BY DEF GetFileDirParms
<1>2. f.pc \in {"getprivs", "attr"} /\ UNCHANGED <<server, fork, list, mounted, calls, down, trouble>>
  BY DEF GetFileDirParms, At
<1>3. good \in Replies /\ {"denied"} \in SUBSET Replies
  BY DEF Replies, Exists
<1> HIDE DEF good
<1>4. r \in Replies /\ refusals' \in 0..MaxRefusals
  BY <1>1, <1>3, Answered
<1>5. PICK q : q \in Replies /\ Resume(t, f, q)
  BY <1>1, <1>4 DEF Replies
<1>6. Asked(t, f, q)
  BY <1>2, <1>5, FrameOf, AskedAs DEF Running, Possible
<1>7. Turn(t, f, q)
  BY <1>2, <1>5, <1>6, ResumeIs DEF Resume
<1>8. Sees(t)
  BY <1>2, <1>5, SeesStill DEF Resume, KindsStay, server
<1> QED
  BY <1>2, <1>4, <1>7, <1>8 DEF NamedDoes, TypeOK, Tidies, server

\* What is_dir() has found
IsDirDoes(t, f) ==
  /\ f.pc = "isdir" /\ f.op = th[t].op
  /\ f.op # "rename" /\ f.fault = <<>> =>
       (Here(f.name) = Null /\ ~f.isdir) \/ (Here(f.name) # Null /\ (f.isdir <=> kind[Here(f.name)] = "dir"))

LEMMA IsDirTurn ==
  ASSUME TypeOK, GoodFrames, NEW t \in Threads, IsDir(t)
  PROVE  /\ \E f, r : Turn(t, f, r) /\ IsDirDoes(t, f)
         /\ th[t].pc = "isdir" /\ NamedDoes(t) /\ place' = place /\ kind' = kind
<1> DEFINE f == th[t]
           n == IF f.op = "rename" THEN f.to ELSE f.name
           good == Exists(n)
<1>1. PICK r \in VolumeAnswers(good, {"denied"}) :
          /\ Charge(r, good)
          /\ Resume(t, [f EXCEPT !.isdir = r = "ok" /\ kind[Here(n)] = "dir",
                                 !.fault = IF r \in {"ok", "missing"} THEN @ ELSE <<"isdir", r>>], r)
  BY DEF IsDir
<1>2. f.pc = "isdir" /\ UNCHANGED <<server, fork, list, mounted, calls, down, trouble>>
  BY DEF IsDir, At
<1>3. good \in Replies /\ {"denied"} \in SUBSET Replies
  BY DEF Replies, Exists
<1>4. (r = "ok" => Here(n) # Null) /\ (r = "missing" => Here(n) = Null)
  BY <1>1 DEF VolumeAnswers, Answers, Exists
<1> HIDE DEF good
<1>5. r \in Replies /\ refusals' \in 0..MaxRefusals
  BY <1>1, <1>3, Answered
<1> DEFINE look == r = "ok" /\ kind[Here(n)] = "dir"
           err == IF r \in {"ok", "missing"} THEN f.fault ELSE <<"isdir", r>>
<1>6. PICK g : g = [f EXCEPT !.isdir = look, !.fault = err]
  OBVIOUS
<1>7. f \in Frame /\ Good(t, f) /\ Running(f) /\ f.op # "unmount"
  BY <1>2, FrameOf DEF Running
<1>8. f.op \in {"unlink", "rmdir", "rename", "utime"}
  BY <1>2, <1>7 DEF Good, Placed, PcsOf, AllOps, Running
<1>9. err \in (PCs \X Replies) \cup {<<>>} /\ look \in BOOLEAN
  <2>1. "isdir" \in PCs /\ f.fault \in (PCs \X Replies) \cup {<<>>}
    BY <1>7 DEF PCs, Frame
  <2> QED
    BY <1>5, <2>1
<1> HIDE DEF look, err
<1>10. /\ g \in Frame /\ g.isdir = look /\ g.fault = err /\ g.pc = f.pc /\ g.op = f.op /\ g.fp = f.fp /\ g.id = f.id
       /\ g.name = f.name /\ g.to = f.to /\ g.moved = f.moved /\ g.k = f.k /\ g.res = f.res /\ g.tries = f.tries
  BY <1>6, <1>7, <1>9 DEF Frame
<1>11. Good(t, g)
  <2>1. Placed(t, g)
    BY <1>2, <1>7, <1>8, <1>10 DEF Good, Placed, Running
  <2>2. err = f.fault \/ err[1] = "isdir"
    BY DEF err
  <2>3. Honest(g)
    <3>1. CASE err = f.fault
      <4>1. Unreported(f) => Unreported(g)
        BY <1>10, <3>1 DEF Unreported
      <4> QED
        BY <1>2, <1>7, <1>8, <1>10, <3>1, <4>1 DEF Honest, Good, Running
    <3>2. CASE err[1] = "isdir"
      BY <1>2, <1>8, <1>10, <3>2 DEF Honest, Running
    <3> QED
      BY <2>2, <3>1, <3>2
  <2> QED
    BY <1>10, <2>1, <2>3 DEF Good
<1>12. Asked(t, g, r)
  BY <1>2, <1>5, <1>7, <1>10, <1>11 DEF Asked, Possible, Running
<1>13. Resume(t, g, r)
  BY <1>1, <1>6 DEF look, err
<1>14. Turn(t, g, r)
  BY <1>2, <1>12, <1>13, ResumeIs DEF Resume
<1>15. Sees(t)
  BY <1>2, <1>13, SeesStill DEF Resume, KindsStay, server
<1>16. IsDirDoes(t, g)
  <2>1. ASSUME g.op # "rename", g.fault = <<>>
        PROVE  (Here(g.name) = Null /\ ~g.isdir) \/ (Here(g.name) # Null /\ (g.isdir <=> kind[Here(g.name)] = "dir"))
    <3>1. n = g.name
      BY <1>10, <2>1
    <3>2. r \in {"ok", "missing"}
      BY <1>10, <2>1 DEF err
    <3>3. g.isdir <=> (r = "ok" /\ kind[Here(g.name)] = "dir")
      BY <1>9, <1>10, <3>1 DEF look
    <3>4. (r = "ok" => Here(g.name) # Null) /\ (r = "missing" => Here(g.name) = Null)
      BY <1>4, <3>1
    <3> HIDE DEF n
    <3> QED
      BY <3>2, <3>3, <3>4
  <2> QED
    BY <1>2, <1>10, <2>1 DEF IsDirDoes
<1> QED
  BY <1>2, <1>5, <1>14, <1>15, <1>16 DEF NamedDoes, TypeOK, Tidies, server

LEMMA SetFileDirParmsTurn ==
  ASSUME TypeOK, GoodFrames, NEW t \in Threads, SetFileDirParms(t)
  PROVE  /\ \E r : Turn(t, th[t], r)
         /\ th[t].pc \in {"set", "finder"} /\ NamedDoes(t)
<1> DEFINE f == th[t]
           i == Here(f.name)
           good == Exists(f.name)
<1>1. PICK r \in VolumeAnswers(good, {"denied", "bitmap"}) :
          /\ Charge(r, good)
          /\ kind' = IF r = "ok" /\ f.pc = "finder" /\ kind[i] = "file" THEN [kind EXCEPT ![i] = "link"] ELSE kind
          /\ Resume(t, f, r)
          /\ Now(IF OpenFailed(f, After(f, r)) THEN {"freed_twice"} ELSE {})
  BY DEF SetFileDirParms
<1>2. f.pc \in {"set", "finder"} /\ UNCHANGED <<place, content, forks, locks, fork, list, mounted, calls, down>>
  BY DEF SetFileDirParms, At
<1>3. good \in Replies /\ {"denied", "bitmap"} \in SUBSET Replies
  BY DEF Replies, Exists
<1>4. r = "ok" => i # Null
  BY <1>1 DEF VolumeAnswers, Answers, Exists
<1> HIDE DEF good
<1>5. r \in Replies /\ refusals' \in 0..MaxRefusals
  BY <1>1, <1>3, Answered
<1>6. Asked(t, f, r)
  BY <1>2, <1>5, FrameOf, AskedAs DEF Running, Possible
<1>7. Turn(t, f, r)
  BY <1>1, <1>2, <1>6, ResumeIs DEF Resume
<1>8. trouble \subseteq trouble' /\ trouble' \subseteq TroubleKinds
  BY <1>1 DEF Now, TroubleKinds, TypeOK
<1>9. KindsStay /\ kind' \in [Inodes -> {"file", "dir", "link"}]
  BY <1>1 DEF KindsStay, TypeOK
<1>10. Sees(t)
  BY <1>1, <1>2, <1>9, SeesStill DEF Resume
<1> QED
  BY <1>2, <1>5, <1>7, <1>8, <1>9, <1>10 DEF NamedDoes, TypeOK, Tidies

\* The object that goes is the one the name stands for.
DeleteDoes(t, f, r) ==
  /\ f.op = th[t].op /\ f.fault = th[t].fault
  /\ th[t].pc = "delete" /\ r = "ok" => Here(f.name) # Null /\ f.hit = kind[Here(f.name)]

LEMMA DeleteTurn ==
  ASSUME TypeOK, GoodFrames, NEW t \in Threads, Delete(t)
  PROVE  /\ \E f, r : Turn(t, f, r) /\ DeleteDoes(t, f, r)
         /\ th[t].pc \in {"delete", "delete2"} /\ NamedDoes(t)
<1> DEFINE f == th[t]
           i == Here(IF f.pc = "delete2" THEN f.to ELSE f.name)
           good == DeleteReply(i)
<1>1. PICK r \in VolumeAnswers(good, {"denied", "locked"}) :
          /\ Charge(r, good)
          /\ IF r = "ok"
             THEN ResumeMoved(t, [f EXCEPT !.hit = kind[i]], r, [place EXCEPT ![i] = Null])
             ELSE Resume(t, f, r) /\ UNCHANGED place
  BY DEF Delete
<1>2. /\ f.pc \in {"delete", "delete2"}
      /\ UNCHANGED <<kind, content, forks, locks, fork, list, mounted, calls, down, trouble>>
  BY DEF Delete, At
<1>3. good \in {"missing", "notempty", "busy", "ok"} /\ good \in Replies /\ {"denied", "locked"} \in SUBSET Replies
  BY DEF Replies, DeleteReply
<1>4. r = "ok" => i # Null
  BY <1>1 DEF VolumeAnswers, Answers, DeleteReply
<1> HIDE DEF good
<1>5. r \in Replies /\ r \in {good, "noanswer", "param", "denied", "locked"} /\ refusals' \in 0..MaxRefusals
  BY <1>1, <1>3, Answered
<1>6. Asked(t, f, r)
  <2>1. Possible(f, r)
    BY <1>2, <1>3, <1>5 DEF Possible
  <2> QED
    BY <1>2, <2>1, FrameOf, AskedAs DEF Running
<1>7. f \in Frame /\ Good(t, f) /\ Running(f) /\ f.op \in {"unlink", "rmdir", "rename"} /\ (f.pc = "delete2" => f.op = "rename")
  BY <1>2, FrameOf DEF Running, Good, Placed, PcsOf, AllOps
<1>8. i \in Inodes \cup {Null}
  <2>1. f.op \notin Nameless
    BY <1>7 DEF Nameless
  <2> QED
    BY <1>7, <2>1, NameOf
<1>9. KindsStay
  BY <1>2 DEF KindsStay
<1>10. CASE r = "ok"
  <2>1. PICK g : g = [f EXCEPT !.hit = kind[i]]
    OBVIOUS
  <2>2. kind[i] \in {"file", "dir", "link", Null}
    BY <1>4, <1>8, <1>10 DEF TypeOK
  <2>3. /\ g \in Frame /\ g.hit = kind[i] /\ g.fault = f.fault /\ g.pc = f.pc /\ g.op = f.op /\ g.fp = f.fp /\ g.id = f.id
        /\ g.name = f.name /\ g.to = f.to /\ g.moved = f.moved /\ g.k = f.k /\ g.res = f.res /\ g.tries = f.tries
        /\ g.acted = f.acted /\ g.isdir = f.isdir
    BY <1>7, <2>1, <2>2 DEF Frame
  <2>4. Good(t, g)
    <3>1. Placed(t, g)
      BY <1>2, <1>7, <2>3 DEF Good, Placed, Running
    <3>2. Unreported(f) => Unreported(g)
      BY <2>3 DEF Unreported
    <3>3. Honest(g)
      BY <1>2, <1>7, <2>3, <3>2 DEF Honest, Good, Running
    <3> QED
      BY <2>3, <3>1, <3>3 DEF Good
  <2>5. Asked(t, g, r)
    BY <1>6, <1>7, <2>3, <2>4 DEF Asked, Possible, Running
  <2>6. ResumeMoved(t, g, r, [place EXCEPT ![i] = Null])
    BY <1>1, <1>10, <2>1
  <2>7. Turn(t, g, r) /\ place' = [place EXCEPT ![i] = Null]
    BY <1>2, <2>5, <2>6, ResumeMovedIs
  <2>8. Sees(t)
    BY <1>9, <2>6, SeesMoved
  <2>9. NamedDoes(t)
    BY <1>2, <1>5, <2>7, <2>8 DEF NamedDoes, TypeOK, Tidies
  <2>10. DeleteDoes(t, g, r)
    BY <1>4, <1>10, <2>3 DEF DeleteDoes
  <2> QED
    BY <1>2, <2>7, <2>9, <2>10
<1>11. CASE r # "ok"
  <2>1. Resume(t, f, r) /\ place' = place
    BY <1>1, <1>11
  <2>2. Turn(t, f, r)
    BY <1>2, <1>6, <2>1, ResumeIs DEF Resume
  <2>3. Sees(t)
    BY <1>9, <2>1, SeesStill DEF Resume
  <2>4. DeleteDoes(t, f, r)
    BY <1>11 DEF DeleteDoes
  <2>5. NamedDoes(t)
    BY <1>2, <1>5, <2>1, <2>3 DEF NamedDoes, TypeOK, Tidies
  <2> QED
    BY <1>2, <2>2, <2>4, <2>5
<1> QED
  BY <1>10, <1>11

LEMMA MoveAndRenameTurn ==
  ASSUME TypeOK, GoodFrames, NEW t \in Threads, MoveAndRename(t)
  PROVE  /\ \E r : Turn(t, th[t], r)
         /\ th[t].pc \in {"move", "move2"} /\ NamedDoes(t)
<1> DEFINE f == th[t]
           into == f.isdir /\ f.pc = "move"
           good == MoveReply(f, into)
           aim == IF into THEN Here(f.to) ELSE f.to
<1>1. PICK r \in VolumeAnswers(good, {"denied", "misc"}) :
          /\ Charge(r, good)
          /\ IF r = "ok"
             THEN ResumeMoved(t, f, r, [place EXCEPT ![Here(f.name)] = aim])
             ELSE Resume(t, f, r) /\ UNCHANGED place
  BY DEF MoveAndRename
<1>2. /\ f.pc \in {"move", "move2"}
      /\ UNCHANGED <<kind, content, forks, locks, fork, list, mounted, calls, down, trouble>>
  BY DEF MoveAndRename, At
<1>3. good \in Replies /\ {"denied", "misc"} \in SUBSET Replies
  BY DEF Replies, MoveReply
<1> HIDE DEF good
<1>4. r \in Replies /\ refusals' \in 0..MaxRefusals
  BY <1>1, <1>3, Answered
<1>5. Asked(t, f, r)
  BY <1>2, <1>4, FrameOf, AskedAs DEF Running, Possible
<1>6. aim \in Names \cup Inodes \cup {Null}
  <2>1. f.op = "rename" /\ f.op \notin Nameless /\ Running(f)
    BY <1>2, FrameOf DEF Running, Good, Placed, PcsOf, AllOps, Nameless
  <2> QED
    BY <2>1, NameOf
<1>7. KindsStay
  BY <1>2 DEF KindsStay
<1> HIDE DEF aim
<1>8. CASE r = "ok"
  <2>1. ResumeMoved(t, f, r, [place EXCEPT ![Here(f.name)] = aim])
    BY <1>1, <1>8
  <2>2. Turn(t, f, r) /\ place' = [place EXCEPT ![Here(f.name)] = aim]
    BY <1>2, <1>5, <2>1, ResumeMovedIs
  <2>3. Sees(t)
    BY <1>7, <2>1, SeesMoved
  <2> QED
    BY <1>2, <1>4, <1>6, <2>2, <2>3 DEF NamedDoes, TypeOK, Tidies
<1>9. CASE r # "ok"
  <2>1. Resume(t, f, r) /\ place' = place
    BY <1>1, <1>9
  <2>2. Turn(t, f, r)
    BY <1>2, <1>5, <2>1, ResumeIs DEF Resume
  <2>3. Sees(t)
    BY <1>7, <2>1, SeesStill DEF Resume
  <2> QED
    BY <1>2, <1>4, <2>1, <2>2, <2>3 DEF NamedDoes, TypeOK, Tidies
<1> QED
  BY <1>2, <1>8, <1>9

-----------------------------------------------------------------------------
(* Types, frames, and the memory of the structures calls work on *)

\* The call works on a structure that is its own until it ends.
Own(f) == f.op \in Opening \cup {"truncate", "release"} \cup OnStack /\ Running(f)

\* Structures in use are allocated; those that can be freed are nobody else's; those of
\* FUSE's reads and writes are open files.  Unmounting frees what is in use: what comes
\* after that is trouble.
Sane == mounted \/ Intact
HeapInv == Sane =>
  /\ \A t \in Threads : Running(th[t]) /\ th[t].fp \in Blocks => heap[th[t].fp] = "used"
  /\ \A b \in handles : heap[b] = "used"
  /\ \A t \in Threads : Own(th[t]) => /\ th[t].fp \notin handles
                                      /\ \A u \in Threads \ {t} : Running(th[u]) => th[u].fp # th[t].fp
  /\ \A t \in Threads : th[t].op \in {"read", "write"} => th[t].fp \in handles

\* A call that lists its fork or empties its file has opened it.
Opened ==
  \A t \in Threads : th[t].op \in Opening \cup {"truncate"} /\ th[t].pc \in {"add", "zero"} => fork[th[t].fp] # Null

\* Only one call unmounts the volume, and it is not mounted any more.
OneUnmount ==
  \A t \in Threads : th[t].pc \in {"volclose", "freelist"} =>
    ~mounted /\ \A u \in Threads \ {t} : th[u].pc \notin {"volclose", "freelist"}

FilesInv == TypeOK /\ GoodFrames /\ HeapInv /\ Opened /\ OneUnmount

LEMMA TurnGoes ==
  ASSUME NEW t \in Threads, NEW f, NEW r, Turn(t, f, r)
  PROVE  GoesOn(t, f, r) /\ After(f, r) \in Frame
<1>1. Good(t, f) /\ Running(f) /\ f.op # "unmount" /\ Possible(f, r)
  BY DEF Turn, Asked
<1>2. GoesOn(t, f, r)
  BY <1>1, CallGoes
<1> QED
  BY <1>2 DEF GoesOn, Good

LEMMA TurnFrames ==
  ASSUME TypeOK, GoodFrames, NEW t \in Threads, NEW f, NEW r, Turn(t, f, r)
  PROVE  th' \in [Threads -> Frame] /\ GoodFrames'
<1>1. PICK g : g = After(f, r)
  OBVIOUS
<1>2. Good(t, g) /\ g \in Frame /\ Moves(t, g)
  BY <1>1, TurnGoes DEF Turn, GoesOn
<1>3. ASSUME NEW u \in Threads
      PROVE  th'[u] \in Frame /\ Good(u, th'[u])
  <2>1. CASE u = t
    BY <1>2, <2>1 DEF Moves
  <2>2. CASE u # t /\ th'[u] = th[u]
    BY <2>2, FrameOf
  <2>3. CASE u # t /\ th'[u] # th[u]
    <3>1. th'[u] = [th[u] EXCEPT !.moved = TRUE] /\ th[u].pc = "delete"
      BY <1>2, <2>3 DEF Moves
    <3>2. th[u] \in Frame /\ Good(u, th[u])
      BY FrameOf
    <3>3. PICK h : h = th'[u]
      OBVIOUS
    <3>4. /\ h \in Frame /\ h.pc = th[u].pc /\ h.op = th[u].op /\ h.fp = th[u].fp /\ h.id = th[u].id
          /\ h.name = th[u].name /\ h.to = th[u].to /\ h.k = th[u].k /\ h.tries = th[u].tries
          /\ h.fault = th[u].fault /\ h.acted = th[u].acted /\ h.res = th[u].res
      BY <3>1, <3>2, <3>3 DEF Frame
    <3>5. Placed(u, h)
      BY <3>1, <3>2, <3>4 DEF Good, Placed, Running
    <3>6. Unreported(th[u]) => Unreported(h)
      BY <3>4 DEF Unreported
    <3>7. Honest(h)
      BY <3>1, <3>2, <3>4, <3>6 DEF Good, Honest, Running
    <3> QED
      BY <3>3, <3>4, <3>5, <3>7 DEF Good
  <2> QED
    BY <1>2, <2>1, <2>2, <2>3 DEF Moves
<1>4. GoodFrames'
  BY <1>3 DEF GoodFrames
<1>5. th' = [u \in Threads |-> th'[u]]
  BY <1>2 DEF Moves
<1> QED
  BY <1>3, <1>4, <1>5

LEMMA TurnTypes ==
  ASSUME TypeOK, GoodFrames, Opened, NEW t \in Threads, NEW f, NEW r, Turn(t, f, r)
  PROVE  /\ heap' \in [Blocks -> {"free", "used", "leaked"}] /\ orphans' \subseteq Blocks \cup Threads
         /\ handles' \subseteq Blocks /\ fileids' \subseteq ForkIds
<1>1. PICK g : g = After(f, r)
  OBVIOUS
<1>2. Keep(f, g, list') /\ Good(t, f) /\ f \in Frame /\ Asked(t, f, r)
  BY <1>1 DEF Turn, Asked, Good
<1>3. heap' \in [Blocks -> {"free", "used", "leaked"}]
  BY <1>2 DEF Keep, TypeOK
<1>4. f.fp \in Blocks \cup Threads \cup {Null}
  BY <1>2 DEF Frame
<1>5. OpenDone(f, g) => f.fp \in Blocks /\ ForkOf(f) \in ForkIds
  <2> HAVE OpenDone(f, g)
  <2>1. f.op \in Opening /\ f.pc \in {"add", "zero"} /\ f.fp \in Blocks
    BY <1>2 DEF OpenDone, Good, Placed, OnBlock
  <2>2. fork[f.fp] # Null /\ fork[f.fp] \in ForkIds \cup {Null}
    BY <1>2, <2>1 DEF Opened, Asked, TypeOK
  <2> QED
    BY <2>1, <2>2, FilesConstants DEF ForkOf
<1>6. orphans' \subseteq Blocks \cup Threads
  <2>1. (f.fp \in Threads \/ f.op \in Opening \cup {"truncate"}) => f.fp \in Blocks \cup Threads
    BY <1>2 DEF Good, Placed, OnBlock
  <2>2. orphans \subseteq Blocks \cup Threads
    BY DEF TypeOK
  <2>3. \/ orphans' = (orphans \ {f.fp}) \cup ({f.fp} \cap ToSet(list')) /\ f.fp \in Blocks \cup Threads
        \/ orphans' \subseteq orphans
    BY <1>2, <2>1 DEF Keep, OpenFailed, OpenDone
  <2> QED
    BY <2>2, <2>3
<1>7. handles' \subseteq Blocks /\ fileids' \subseteq ForkIds
  BY <1>2, <1>5 DEF Keep, TypeOK
<1> QED
  BY <1>3, <1>6, <1>7

LEMMA TurnMemory ==
  ASSUME TypeOK, GoodFrames, NEW t \in Threads, NEW f, NEW r, Turn(t, f, r)
  PROVE  /\ \A b \in Blocks : heap'[b] # heap[b] => b = f.fp /\ Own(f) /\ After(f, r).pc = "return"
         /\ \/ handles' = handles
            \/ handles' = handles \cup {f.fp} /\ heap' = heap /\ f.op = "open" /\ After(f, r).pc = "return"
<1>1. PICK g : g = After(f, r)
  OBVIOUS
<1>2. Keep(f, g, list') /\ Good(t, f) /\ Running(f) /\ GoesOn(t, f, r)
  BY <1>1, TurnGoes DEF Turn, Asked
<1>3. f.pc = "unlist" => f.op \in OnBlock \cup OnStack /\ (f.op \in {"truncate", "release"} => g.pc = "return")
  BY <1>1, <1>2 DEF GoesOn, ForkOrder, Good, Placed, PcsOf, AllOps, OnBlock, OnStack, Opening
<1>4. \/ heap' = heap
      \/ /\ Own(f) /\ g.pc = "return" /\ ~(OpenDone(f, g) /\ f.op = "open")
         /\ heap' = [heap EXCEPT ![f.fp] = "free"] \/ heap' = [heap EXCEPT ![f.fp] = "leaked"]
  <2>1. OpenFailed(f, g) => Own(f) /\ g.pc = "return" /\ ~(OpenDone(f, g) /\ f.op = "open")
    BY <1>2 DEF OpenFailed, OpenDone, Own
  <2>2. OpenDone(f, g) /\ f.op \in Daemons => Own(f) /\ g.pc = "return" /\ f.op # "open"
    BY <1>2 DEF OpenDone, Own, Daemons
  <2>3. f.op \in {"truncate", "release"} /\ f.pc = "unlist" => Own(f) /\ g.pc = "return" /\ f.op # "open"
    BY <1>2, <1>3 DEF Own
  <2> QED
    BY <1>2, <2>1, <2>2, <2>3 DEF Keep
<1>5. \A b \in Blocks : heap'[b] # heap[b] => b = f.fp /\ Own(f) /\ g.pc = "return"
  BY <1>4 DEF TypeOK
<1>6. handles' # handles => handles' = handles \cup {f.fp} /\ f.op = "open" /\ OpenDone(f, g) /\ g.pc = "return"
  BY <1>2 DEF Keep, OpenDone
<1> QED
  BY <1>1, <1>4, <1>5, <1>6

LEMMA TurnHeap ==
  ASSUME FilesInv, NEW t \in Threads, NEW f, NEW r, Turn(t, f, r), mounted' = mounted, trouble \subseteq trouble'
  PROVE  HeapInv'
<1>1. PICK g : g = After(f, r)
  OBVIOUS
<1>2. TypeOK /\ GoodFrames /\ HeapInv
  BY DEF FilesInv
<1>3. Sane' => Sane
  BY DEF Sane, Intact
<1> SUFFICES ASSUME Sane
             PROVE  /\ \A u \in Threads : Running(th'[u]) /\ th'[u].fp \in Blocks => heap'[th'[u].fp] = "used"
                    /\ \A b \in handles' : heap'[b] = "used"
                    /\ \A u \in Threads : Own(th'[u]) =>
                         /\ th'[u].fp \notin handles'
                         /\ \A v \in Threads \ {u} : Running(th'[v]) => th'[v].fp # th'[u].fp
                    /\ \A u \in Threads : th'[u].op \in {"read", "write"} => th'[u].fp \in handles'
  BY <1>3 DEF HeapInv
<1>4. /\ \A u \in Threads : Running(th[u]) /\ th[u].fp \in Blocks => heap[th[u].fp] = "used"
      /\ \A b \in handles : heap[b] = "used"
      /\ \A u \in Threads : Own(th[u]) => /\ th[u].fp \notin handles
                                          /\ \A v \in Threads \ {u} : Running(th[v]) => th[v].fp # th[u].fp
      /\ \A u \in Threads : th[u].op \in {"read", "write"} => th[u].fp \in handles
  BY <1>2 DEF HeapInv
<1>5. /\ \A b \in Blocks : heap'[b] # heap[b] => b = f.fp /\ Own(f) /\ g.pc = "return"
      /\ \/ handles' = handles
         \/ handles' = handles \cup {f.fp} /\ heap' = heap /\ f.op = "open" /\ g.pc = "return"
  BY <1>1, <1>2, TurnMemory
<1>6. /\ Running(f) /\ f.op = th[t].op /\ f.fp = th[t].fp /\ f.pc = th[t].pc
      /\ g.op = f.op /\ g.fp = f.fp /\ th'[t] = g /\ Good(t, f)
  BY <1>1, TurnGoes DEF Turn, Asked, GoesOn, Same, Moves
<1>7. \A u \in Threads \ {t} : th'[u].op = th[u].op /\ th'[u].fp = th[u].fp /\ th'[u].pc = th[u].pc
  <2> TAKE u \in Threads \ {t}
  <2>1. th'[u] = th[u] \/ th'[u] = [th[u] EXCEPT !.moved = TRUE]
    BY DEF Turn, Moves
  <2>2. th[u] \in Frame
    BY <1>2 DEF TypeOK
  <2> QED
    BY <2>1, <2>2 DEF Frame
<1>8. \A u \in Threads : Own(th[u]) /\ u # t => th[u].fp # f.fp
  BY <1>4, <1>6 DEF Own, Running
<1>9. Own(f) => /\ f.fp \notin handles
                /\ \A v \in Threads \ {t} : Running(th[v]) => th[v].fp # f.fp
  BY <1>4, <1>6 DEF Own, Running
<1>10. \A u \in Threads : Running(th'[u]) /\ th'[u].fp \in Blocks => heap'[th'[u].fp] = "used"
  BY <1>4, <1>5, <1>6, <1>7, <1>9 DEF Running
<1>11. \A b \in handles' : heap'[b] = "used"
  <2>1. f.op = "open" => f.fp \in Blocks
    BY <1>6 DEF Good, Placed, OnBlock, Opening
  <2>2. handles \subseteq Blocks
    BY <1>2 DEF TypeOK
  <2>3. f.fp \in Blocks => heap[f.fp] = "used"
    BY <1>4, <1>6 DEF Running
  <2> QED
    BY <1>4, <1>5, <1>9, <2>1, <2>2, <2>3 DEF Own, OnStack
<1>12. ASSUME NEW u \in Threads, Own(th'[u])
       PROVE  /\ th'[u].fp \notin handles'
              /\ \A v \in Threads \ {u} : Running(th'[v]) => th'[v].fp # th'[u].fp
  <2>1. CASE u = t
    <3>1. Own(f) /\ g.pc # "return"
      BY <1>6, <1>12, <2>1 DEF Own, Running
    <3> QED
      BY <1>5, <1>6, <1>7, <1>9, <2>1, <3>1 DEF Running
  <2>2. CASE u # t
    <3>1. Own(th[u])
      BY <1>7, <1>12, <2>2 DEF Own, Running
    <3>2. th[u].fp \notin handles /\ th[u].fp # f.fp
      BY <1>4, <1>8, <2>2, <3>1
    <3>3. \A v \in Threads \ {u} : Running(th'[v]) => th'[v].fp # th'[u].fp
      BY <1>4, <1>6, <1>7, <2>2, <3>1, <3>2 DEF Running
    <3> QED
      BY <1>5, <1>7, <2>2, <3>2, <3>3
  <2> QED
    BY <2>1, <2>2
<1>13. \A u \in Threads : th'[u].op \in {"read", "write"} => th'[u].fp \in handles'
  BY <1>4, <1>5, <1>6, <1>7
<1> QED
  BY <1>10, <1>11, <1>12, <1>13

LEMMA TurnOpened ==
  ASSUME FilesInv, NEW t \in Threads, NEW f, NEW r, Turn(t, f, r),
         (f.pc # "open" /\ fork' = fork) \/ (f.pc = "open" /\ OpenForkDoes(t, f, r))
  PROVE  Opened'
<1>1. PICK g : g = After(f, r)
  OBVIOUS
<1>2. TypeOK /\ GoodFrames /\ Opened
  BY DEF FilesInv
<1>3. /\ f.op = th[t].op /\ f.fp = th[t].fp /\ f.pc = th[t].pc /\ g.op = f.op /\ g.fp = f.fp /\ th'[t] = g
      /\ Good(t, f) /\ ForkOrder(f, r, g)
  BY <1>1, TurnGoes DEF Turn, Asked, GoesOn, Same, Moves
<1>4. \A x \in Blocks : fork'[x] = fork[x] \/ (x = f.fp /\ fork'[x] # Null)
  <2>1. CASE f.pc = "open" /\ OpenForkDoes(t, f, r)
    BY <1>2, <2>1, FilesConstants DEF OpenForkDoes, TypeOK, UnusedForks
  <2> QED
    BY <2>1
<1>5. ASSUME NEW u \in Threads, th'[u].op \in Opening \cup {"truncate"}, th'[u].pc \in {"add", "zero"}
      PROVE  fork'[th'[u].fp] # Null
  <2>1. CASE u = t
    <3>1. f.op \in Opening \cup {"truncate"} /\ f.fp \in Blocks /\ f.op \notin OnStack
      BY <1>3, <1>5, <2>1 DEF Good, Placed, OnBlock, Opening, OnStack
    <3>2. CASE g.pc = "zero"
      <4>1. f.pc \in {"add", "zero", "io"}
        BY <1>3, <3>1, <3>2 DEF ForkOrder, OnBlock
      <4>2. f.pc # "io"
        BY <1>3, <3>1 DEF Good, Placed, PcsOf, Opening, Running
      <4>3. fork[f.fp] # Null
        BY <1>2, <1>3, <3>1, <4>1, <4>2 DEF Opened
      <4> QED
        BY <1>3, <1>4, <2>1, <3>1, <4>3
    <3>3. CASE g.pc = "add"
      <4>1. f.pc = "open" /\ r = "ok"
        BY <1>3, <3>1, <3>3 DEF ForkOrder
      <4>2. fork'[f.fp] # Null
        BY <1>2, <3>1, <4>1, FilesConstants DEF OpenForkDoes, TypeOK, UnusedForks
      <4> QED
        BY <1>3, <2>1, <4>2
    <3> QED
      BY <1>3, <1>5, <2>1, <3>2, <3>3
  <2>2. CASE u # t
    <3>1. th'[u].op = th[u].op /\ th'[u].fp = th[u].fp /\ th'[u].pc = th[u].pc /\ th[u].fp \in Blocks
      <4>1. th'[u] = th[u] \/ th'[u] = [th[u] EXCEPT !.moved = TRUE]
        BY <2>2 DEF Turn, Moves
      <4>2. th[u] \in Frame /\ Good(u, th[u])
        BY <1>2, FrameOf
      <4>3. th'[u].op = th[u].op /\ th'[u].fp = th[u].fp /\ th'[u].pc = th[u].pc
        BY <4>1, <4>2 DEF Frame
      <4> QED
        BY <1>5, <4>2, <4>3 DEF Good, Placed, OnBlock
    <3>2. fork[th[u].fp] # Null
      BY <1>2, <1>5, <3>1 DEF Opened
    <3> QED
      BY <1>4, <3>1, <3>2
  <2> QED
    BY <2>1, <2>2
<1> QED
  BY <1>5 DEF Opened

-----------------------------------------------------------------------------
(* The list of open forks *)

LEMMA RemoveAtIs ==
  ASSUME NEW S, NEW s \in Seq(S), NEW i \in 1..Len(s)
  PROVE  /\ RemoveAt(s, i) \in Seq(S) /\ Len(RemoveAt(s, i)) = Len(s) - 1
         /\ \A j \in 1..(Len(s) - 1) : RemoveAt(s, i)[j] = s[IF j < i THEN j ELSE j + 1]
<1>1. PICK a : a = SubSeq(s, 1, i - 1)
  OBVIOUS
<1>2. PICK b : b = SubSeq(s, i + 1, Len(s))
  OBVIOUS
<1>3. Len(s) \in Nat /\ \A j \in 1..Len(s) : s[j] \in S
  BY LenProperties, ElementOfSeq
<1>4. a \in Seq(S) /\ Len(a) = i - 1 /\ \A j \in 1..(i - 1) : a[j] = s[j]
  <2>1. i - 1 \in Int /\ \A j \in 1..(i - 1) : s[j] \in S
    BY <1>3
  <2> QED
    BY <1>1, <1>3, <2>1, SubSeqProperties
<1>5. b \in Seq(S) /\ Len(b) = Len(s) - i /\ \A j \in 1..(Len(s) - i) : b[j] = s[i + j]
  <2>1. i + 1 \in Int /\ \A j \in (i + 1)..Len(s) : s[j] \in S
    BY <1>3
  <2> QED
    BY <1>2, <1>3, <2>1, SubSeqProperties
<1>6. /\ a \o b \in Seq(S) /\ Len(a \o b) = Len(s) - 1
      /\ \A j \in 1..(Len(s) - 1) : (a \o b)[j] = IF j <= i - 1 THEN a[j] ELSE b[j - (i - 1)]
  <2>1. /\ a \o b \in Seq(S) /\ Len(a \o b) = Len(a) + Len(b)
        /\ \A j \in 1..(Len(a) + Len(b)) : (a \o b)[j] = IF j <= Len(a) THEN a[j] ELSE b[j - Len(a)]
    BY <1>4, <1>5, ConcatProperties
  <2>2. Len(a) + Len(b) = Len(s) - 1
    BY <1>3, <1>4, <1>5
  <2> QED
    BY <1>4, <2>1, <2>2
<1>7. \A j \in 1..(Len(s) - 1) : (a \o b)[j] = s[IF j < i THEN j ELSE j + 1]
  BY <1>3, <1>4, <1>5, <1>6
<1> QED
  BY <1>1, <1>2, <1>6, <1>7 DEF RemoveAt

LEMMA FirstIs ==
  ASSUME NEW S, NEW s \in Seq(S), NEW e, \E i \in 1..Len(s) : s[i] = e
  PROVE  \E i \in 1..Len(s) : s[i] = e /\ RemoveFirst(s, e) = RemoveAt(s, i)
<1>1. PICK I : I = {i \in 1..Len(s) : s[i] = e}
  OBVIOUS
<1>2. I \subseteq Nat /\ I # {} /\ Len(s) \in Nat
  BY <1>1
<1>3. \E x \in I : \A y \in I : x <= y
  <2>1. PICK R : R = OpToRel(<, Nat)
    OBVIOUS
  <2>2. IsWellFoundedOn(R, Nat)
    BY <2>1, NatLessThanWellFounded
  <2>3. PICK x \in I : \A y \in I : ~ (<<y, x>> \in R)
    BY <1>2, <2>2, WFMin
  <2>4. \A y \in I : ~(y < x)
    BY <1>2, <2>1, <2>3 DEF OpToRel
  <2> QED
    BY <1>2, <2>3, <2>4
<1>4. Min(I) \in I
  BY <1>3 DEF Min
<1>5. RemoveFirst(s, e) = RemoveAt(s, Min(I))
  BY <1>1, <1>2 DEF RemoveFirst, SelectInSeq
<1> QED
  BY <1>1, <1>4, <1>5

\* Taking a structure that is listed once off the list
LEMMA RemoveFirstIs ==
  ASSUME NEW S, NEW s \in Seq(S), NEW e
  PROVE  /\ RemoveFirst(s, e) \in Seq(S)
         /\ IsInjective(s) => IsInjective(RemoveFirst(s, e)) /\ ToSet(RemoveFirst(s, e)) = ToSet(s) \ {e}
<1>1. Len(s) \in Nat /\ DOMAIN s = 1..Len(s)
  BY LenProperties
<1>2. CASE \E i \in 1..Len(s) : s[i] = e
  <2>1. PICK i : i \in 1..Len(s) /\ s[i] = e /\ RemoveFirst(s, e) = RemoveAt(s, i)
    BY <1>2, FirstIs
  <2>2. PICK q : q = RemoveAt(s, i)
    OBVIOUS
  <2>3. /\ q \in Seq(S) /\ Len(q) = Len(s) - 1
        /\ \A j \in 1..(Len(s) - 1) : q[j] = s[IF j < i THEN j ELSE j + 1]
    BY <2>1, <2>2, RemoveAtIs
  <2>4. DOMAIN q = 1..(Len(s) - 1)
    BY <2>3, LenProperties
  <2>5. ASSUME IsInjective(s)
        PROVE  IsInjective(q) /\ ToSet(q) = ToSet(s) \ {e}
    <3>1. \A j, k \in 1..Len(s) : s[j] = s[k] => j = k
      BY <1>1, <2>5 DEF IsInjective
    <3>2. IsInjective(q)
      BY <1>1, <2>1, <2>3, <2>4, <3>1 DEF IsInjective
    <3>3. ASSUME NEW j \in 1..(Len(s) - 1)
          PROVE  q[j] \in ToSet(s) \ {e}
      <4>1. q[j] = s[IF j < i THEN j ELSE j + 1] /\ (IF j < i THEN j ELSE j + 1) \in 1..Len(s) \ {i}
        BY <1>1, <2>1, <2>3
      <4> QED
        BY <1>1, <2>1, <3>1, <4>1 DEF ToSet
    <3>4. ASSUME NEW x \in ToSet(s) \ {e}
          PROVE  \E j \in 1..(Len(s) - 1) : q[j] = x
      <4>1. PICK k \in 1..Len(s) : s[k] = x /\ k # i
        BY <1>1, <2>1 DEF ToSet
      <4>2. CASE k < i
        BY <1>1, <2>1, <2>3, <4>1, <4>2
      <4>3. CASE k > i
        <5>1. k - 1 \in 1..(Len(s) - 1) /\ ~(k - 1 < i) /\ (k - 1) + 1 = k
          BY <1>1, <2>1, <4>3
        <5> QED
          BY <2>3, <4>1, <5>1
      <4> QED
        BY <1>1, <2>1, <4>1, <4>2, <4>3
    <3> QED
      BY <2>4, <3>2, <3>3, <3>4 DEF ToSet
  <2> QED
    BY <2>1, <2>2, <2>3, <2>5
<1>3. CASE ~\E i \in 1..Len(s) : s[i] = e
  <2>1. RemoveFirst(s, e) = s
    BY <1>3 DEF RemoveFirst
  <2> QED
    BY <1>1, <1>3, <2>1 DEF ToSet
<1> QED
  BY <1>2, <1>3

\* Putting one at its head
LEMMA PrependIs ==
  ASSUME NEW S, NEW s \in Seq(S), NEW e \in S
  PROVE  /\ <<e>> \o s \in Seq(S) /\ ToSet(<<e>> \o s) = ToSet(s) \cup {e}
         /\ IsInjective(s) /\ e \notin ToSet(s) => IsInjective(<<e>> \o s)
<1>1. Len(s) \in Nat /\ DOMAIN s = 1..Len(s) /\ <<e>> \in Seq(S) /\ Len(<<e>>) = 1
  BY LenProperties
<1>2. PICK q : q = <<e>> \o s
  OBVIOUS
<1>3. /\ q \in Seq(S) /\ Len(q) = 1 + Len(s)
      /\ \A i \in 1..(1 + Len(s)) : q[i] = IF i <= 1 THEN e ELSE s[i - 1]
  BY <1>1, <1>2, ConcatProperties
<1>4. DOMAIN q = 1..(1 + Len(s))
  BY <1>3, LenProperties
<1>5. ToSet(q) \subseteq ToSet(s) \cup {e}
  BY <1>1, <1>3, <1>4 DEF ToSet
<1>6. ToSet(s) \cup {e} \subseteq ToSet(q)
  <2>1. q[1] = e /\ 1 \in DOMAIN q
    BY <1>1, <1>3, <1>4
  <2>2. ASSUME NEW i \in 1..Len(s)
        PROVE  q[i + 1] = s[i] /\ i + 1 \in DOMAIN q
    BY <1>1, <1>3, <1>4
  <2> QED
    BY <1>1, <2>1, <2>2 DEF ToSet
<1>7. ASSUME IsInjective(s), e \notin ToSet(s)
      PROVE  IsInjective(q)
  <2>1. \A i \in 1..Len(s) : s[i] # e
    BY <1>1, <1>7 DEF ToSet
  <2>2. \A i, j \in 1..Len(s) : s[i] = s[j] => i = j
    BY <1>1, <1>7 DEF IsInjective
  <2>3. ASSUME NEW i \in 1..(1 + Len(s)), NEW j \in 1..(1 + Len(s)), q[i] = q[j]
        PROVE  i = j
    <3>1. i > 1 => i - 1 \in 1..Len(s) /\ q[i] = s[i - 1]
      BY <1>1, <1>3
    <3>2. j > 1 => j - 1 \in 1..Len(s) /\ q[j] = s[j - 1]
      BY <1>1, <1>3
    <3>3. (i <= 1 => q[i] = e) /\ (j <= 1 => q[j] = e)
      BY <1>3
    <3> QED
      BY <1>1, <2>1, <2>2, <2>3, <3>1, <3>2, <3>3
  <2> QED
    BY <1>4, <2>3 DEF IsInjective
<1> QED
  BY <1>2, <1>3, <1>5, <1>6, <1>7

\* The list to begin with
LEMMA SetToSeqIs ==
  ASSUME NEW S, IsFiniteSet(S)
  PROVE  SetToSeq(S) \in Seq(S) /\ ToSet(SetToSeq(S)) = S /\ IsInjective(SetToSeq(S))
<1>1. PICK n \in Nat : n = Cardinality(S)
  BY FS_CardinalityType
<1>2. ExistsBijection(1..n, S)
  BY <1>1, FS_CardinalityType
<1>3. PICK b : b \in [1..n -> S] /\ IsInjective(b)
  BY <1>2 DEF ExistsBijection, Bijection, Injection, IsInjective
<1>4. PICK q : q = SetToSeq(S)
  OBVIOUS
<1>5. q \in [1..n -> S] /\ IsInjective(q)
  BY <1>1, <1>3, <1>4 DEF SetToSeq
<1>6. ToSet(q) = S
  <2>1. q \in Injection(1..n, S)
    BY <1>5 DEF Injection, IsInjective
  <2>2. IsFiniteSet(1..n) /\ Cardinality(1..n) = n
    BY FS_Interval
  <2>3. q \in Surjection(1..n, S)
    BY <1>1, <2>1, <2>2, FS_Injection
  <2> QED
    BY <1>5, <2>3 DEF Surjection, ToSet
<1> QED
  BY <1>4, <1>5, <1>6

-----------------------------------------------------------------------------
(* The invariant of types, frames and memory is kept. *)

\* A call that is at a request gets its reply and goes on.
Turning(t) ==
  \/ OpenFork(t) \/ AddOpenedFork(t) \/ SetForkParms(t) \/ CloseFork(t) \/ RemoveOpenedFork(t) \/ Lock(t) \/ Unlock(t)
  \/ WriteExt(t) \/ ReadExt(t) \/ CreateFile(t) \/ CreateDir(t) \/ GetFileDirParms(t) \/ IsDir(t)
  \/ SetFileDirParms(t) \/ Delete(t) \/ MoveAndRename(t)

ServerTypes ==
  /\ place \in [Inodes -> Names \cup Inodes \cup {Null}]
  /\ kind \in [Inodes -> {"file", "dir", "link"}]
  /\ content \in [Inodes -> [1..Packets -> Threads \cup {Null}]]
  /\ forks \in [ForkIds -> Inodes \cup {Null}]
  /\ locks \in [Inodes -> ForkIds \cup {Null}]
  /\ fork \in [Blocks \cup Threads -> ForkIds \cup {Null}]
  /\ list \in Seq(Blocks \cup Threads)

LEMMA TidiesTypes ==
  ASSUME TypeOK, Tidies
  PROVE  content' \in [Inodes -> [1..Packets -> Threads \cup {Null}]]
<1>1. Blank \in [1..Packets -> Threads \cup {Null}]
  BY DEF Blank
<1> QED
  BY <1>1 DEF TypeOK, Tidies

LEMMA TurningIs ==
  ASSUME TypeOK, GoodFrames, NEW t \in Threads, Turning(t)
  PROVE  /\ \E f, r : Turn(t, f, r) /\ ((f.pc # "open" /\ fork' = fork) \/ (f.pc = "open" /\ OpenForkDoes(t, f, r)))
         /\ mounted' = mounted /\ down' = down /\ calls' = calls /\ refusals' \in 0..MaxRefusals
         /\ trouble \subseteq trouble' /\ trouble' \subseteq TroubleKinds
         /\ ServerTypes'
<1>1. refusals \in 0..MaxRefusals /\ ServerTypes
  BY DEF TypeOK, ServerTypes
<1>2. \A f, r : Turn(t, f, r) => f.pc = th[t].pc /\ f.fp = th[t].fp
  BY DEF Turn, Asked
<1>3. CASE OpenFork(t)
  <2>1. PICK r : Turn(t, th[t], r) /\ OpenForkDoes(t, th[t], r)
    BY <1>3, OpenForkTurn
  <2>2. /\ th[t].pc = "open" /\ refusals' \in 0..MaxRefusals /\ trouble' \subseteq TroubleKinds
        /\ UNCHANGED <<place, kind, content, locks, list, mounted, calls, down>>
    BY <1>3, OpenForkTurn
  <2>3. trouble \subseteq trouble'
    BY <2>1 DEF OpenForkDoes
  <2>4. forks' \in [ForkIds -> Inodes \cup {Null}] /\ fork' \in [Blocks \cup Threads -> ForkIds \cup {Null}]
    <3>1. \/ forks' = forks
          \/ \E i \in Inodes, k \in ForkIds : forks' = [forks EXCEPT ![k] = i]
      BY <2>1 DEF OpenForkDoes, UnusedForks
    <3>2. fork' = fork \/ \E x : \E k \in ForkIds \cup {Null} : fork' = [fork EXCEPT ![x] = k]
      BY <2>1 DEF OpenForkDoes, UnusedForks
    <3> QED
      BY <3>1, <3>2 DEF TypeOK
  <2>5. ServerTypes'
    BY <1>1, <2>2, <2>4 DEF ServerTypes
  <2> QED
    BY <2>1, <2>2, <2>3, <2>5
<1>4. CASE AddOpenedFork(t)
  <2>1. /\ Turn(t, th[t], "ok") /\ th[t].pc = "add" /\ list' = <<th[t].fp>> \o list
        /\ trouble \subseteq trouble' /\ trouble' \subseteq TroubleKinds
        /\ UNCHANGED <<server, fork, mounted, calls, refusals, down>>
    BY <1>4, AddOpenedForkTurn
  <2>2. th[t].fp \in Blocks \cup Threads
    BY <2>1, FrameOf DEF Good, Placed, PcsOf, AllOps, OnBlock, OnStack, Opening, Running
  <2>3. list' \in Seq(Blocks \cup Threads)
    BY <1>1, <2>1, <2>2, PrependIs DEF ServerTypes
  <2>4. ServerTypes'
    BY <1>1, <2>1, <2>3 DEF ServerTypes, server
  <2> QED
    BY <1>1, <2>1, <2>4
<1>5. CASE RemoveOpenedFork(t)
  <2>1. /\ Turn(t, th[t], "ok") /\ th[t].pc = "unlist" /\ list' = RemoveFirst(list, th[t].fp)
        /\ UNCHANGED <<server, fork, mounted, calls, refusals, down, trouble>>
    BY <1>5, RemoveOpenedForkTurn
  <2>2. list' \in Seq(Blocks \cup Threads)
    BY <1>1, <2>1, RemoveFirstIs DEF ServerTypes
  <2>3. ServerTypes'
    BY <1>1, <2>1, <2>2 DEF ServerTypes, server
  <2>4. trouble' \subseteq TroubleKinds /\ trouble \subseteq trouble'
    BY <2>1 DEF TypeOK
  <2> QED
    BY <1>1, <2>1, <2>3, <2>4
<1>6. CASE SetForkParms(t)
  <2>1. PICK r : /\ Turn(t, th[t], r)
                 /\ content' = content \/ \E i \in Inodes : content' = [content EXCEPT ![i] = Blank]
    BY <1>6, SetForkParmsTurn
  <2>2. /\ th[t].pc = "zero" /\ refusals' \in 0..MaxRefusals
        /\ trouble \subseteq trouble' /\ trouble' \subseteq TroubleKinds
        /\ UNCHANGED <<place, kind, forks, locks, fork, list, mounted, calls, down>>
    BY <1>6, SetForkParmsTurn
  <2>3. ServerTypes'
    BY <1>1, <2>1, <2>2, TidiesTypes DEF ServerTypes, Tidies
  <2> QED
    BY <2>1, <2>2, <2>3
<1>7. CASE CloseFork(t)
  <2>1. PICK r : Turn(t, th[t], r) /\ (CloseForkDoes(ForkOf(th[t])) \/ (forks' = forks /\ locks' = locks))
    BY <1>7, CloseForkTurn
  <2>2. /\ th[t].pc = "close" /\ refusals' \in 0..MaxRefusals
        /\ trouble \subseteq trouble' /\ trouble' \subseteq TroubleKinds
        /\ UNCHANGED <<place, kind, content, fork, list, mounted, calls, down>>
    BY <1>7, CloseForkTurn
  <2>3. ServerTypes'
    BY <1>1, <2>1, <2>2 DEF ServerTypes, CloseForkDoes
  <2> QED
    BY <2>1, <2>2, <2>3
<1>8. CASE Lock(t)
  <2>1. PICK r : Turn(t, th[t], r) /\ LockDoes(th[t], r)
    BY <1>8, LockTurn
  <2>2. /\ th[t].pc = "lock" /\ refusals' \in 0..MaxRefusals
        /\ trouble \subseteq trouble' /\ trouble' \subseteq TroubleKinds
        /\ UNCHANGED <<place, kind, content, forks, fork, list, mounted, calls, down>>
    BY <1>8, LockTurn
  <2>3. ServerTypes'
    BY <1>1, <2>1, <2>2, ForkAndFile DEF ServerTypes, LockDoes
  <2> QED
    BY <2>1, <2>2, <2>3
<1>9. CASE Unlock(t)
  <2>1. PICK r : Turn(t, th[t], r) /\ UnlockDoes(th[t], r)
    BY <1>9, UnlockTurn
  <2>2. /\ th[t].pc = "unlock" /\ refusals' \in 0..MaxRefusals
        /\ UNCHANGED <<place, kind, content, forks, fork, list, mounted, calls, down, trouble>>
    BY <1>9, UnlockTurn
  <2>3. ServerTypes'
    BY <1>1, <2>1, <2>2, ForkAndFile DEF ServerTypes, UnlockDoes
  <2>4. trouble' \subseteq TroubleKinds /\ trouble \subseteq trouble'
    BY <2>2 DEF TypeOK
  <2> QED
    BY <2>1, <2>2, <2>3, <2>4
<1>10. CASE WriteExt(t)
  <2>1. PICK r : Turn(t, th[t], r) /\ WriteDoes(t, th[t], r)
    BY <1>10, WriteExtTurn
  <2>2. /\ th[t].pc = "io" /\ refusals' \in 0..MaxRefusals
        /\ trouble \subseteq trouble' /\ trouble' \subseteq TroubleKinds
        /\ UNCHANGED <<place, kind, forks, locks, fork, list, mounted, calls, down>>
    BY <1>10, WriteExtTurn
  <2>3. content' \in [Inodes -> [1..Packets -> Threads \cup {Null}]]
    <3>1. PICK i : i = FileOf(th[t])
      OBVIOUS
    <3>2. i \in Inodes \/ i = Null
      BY <3>1, ForkAndFile
    <3>3. \/ content' = content
          \/ i # Null /\ content' = [content EXCEPT ![i] = [content[i] EXCEPT ![th[t].k + 1] = t]]
      BY <2>1, <3>1 DEF WriteDoes
    <3>4. i \in Inodes => [content[i] EXCEPT ![th[t].k + 1] = t] \in [1..Packets -> Threads \cup {Null}]
      BY DEF TypeOK
    <3> QED
      BY <3>2, <3>3, <3>4 DEF TypeOK
  <2>4. ServerTypes'
    BY <1>1, <2>2, <2>3 DEF ServerTypes
  <2> QED
    BY <2>1, <2>2, <2>4
<1>11. CASE ReadExt(t)
  <2>1. PICK r : Turn(t, th[t], r)
    BY <1>11, ReadExtTurn
  <2>2. /\ th[t].pc = "io" /\ refusals' \in 0..MaxRefusals
        /\ UNCHANGED <<server, fork, list, mounted, calls, down, trouble>>
    BY <1>11, ReadExtTurn
  <2>3. ServerTypes'
    BY <1>1, <2>2 DEF ServerTypes, server
  <2>4. trouble' \subseteq TroubleKinds /\ trouble \subseteq trouble'
    BY <2>2 DEF TypeOK
  <2> QED
    BY <2>1, <2>2, <2>3, <2>4
<1>12. ASSUME NEW f, NEW r, Turn(t, f, r), th[t].pc # "open", NamedDoes(t)
       PROVE  /\ \E g, q : Turn(t, g, q) /\ ((g.pc # "open" /\ fork' = fork) \/ (g.pc = "open" /\ OpenForkDoes(t, g, q)))
              /\ mounted' = mounted /\ down' = down /\ calls' = calls /\ refusals' \in 0..MaxRefusals
              /\ trouble \subseteq trouble' /\ trouble' \subseteq TroubleKinds
              /\ ServerTypes'
  <2>1. ServerTypes'
    BY <1>1, <1>12, TidiesTypes DEF ServerTypes, NamedDoes
  <2>2. f.pc # "open" /\ fork' = fork
    BY <1>2, <1>12 DEF NamedDoes
  <2> QED
    BY <1>12, <2>1, <2>2 DEF NamedDoes
<1>13. CASE CreateFile(t)
  BY <1>12, <1>13, CreateFileTurn
<1>14. CASE CreateDir(t)
  BY <1>12, <1>14, CreateDirTurn
<1>15. CASE GetFileDirParms(t)
  BY <1>12, <1>15, GetFileDirParmsTurn
<1>16. CASE IsDir(t)
  BY <1>12, <1>16, IsDirTurn
<1>17. CASE SetFileDirParms(t)
  BY <1>12, <1>17, SetFileDirParmsTurn
<1>18. CASE Delete(t)
  BY <1>12, <1>18, DeleteTurn
<1>19. CASE MoveAndRename(t)
  BY <1>12, <1>19, MoveAndRenameTurn
<1> QED
  BY <1>3, <1>4, <1>5, <1>6, <1>7, <1>8, <1>9, <1>10, <1>11, <1>13, <1>14, <1>15, <1>16, <1>17, <1>18, <1>19
  DEF Turning

LEMMA OthersStay ==
  ASSUME TypeOK, NEW t \in Threads, NEW g, Moves(t, g), NEW u \in Threads \ {t}
  PROVE  /\ th'[u].op = th[u].op /\ th'[u].fp = th[u].fp /\ th'[u].pc = th[u].pc /\ th'[u].id = th[u].id
         /\ th'[u].k = th[u].k /\ th'[u].name = th[u].name /\ th'[u].fault = th[u].fault
         /\ th'[u].acted = th[u].acted /\ th'[u].res = th[u].res /\ th'[u].hit = th[u].hit
         /\ th[u].pc # "delete" => th'[u] = th[u]
<1>1. th'[u] = th[u] \/ (th[u].pc = "delete" /\ th'[u] = [th[u] EXCEPT !.moved = TRUE])
  BY DEF Moves
<1>2. th[u] \in Frame
  BY DEF TypeOK
<1> QED
  BY <1>1, <1>2 DEF Frame

\* The frame t was at, the one it is at now, and the reply in between
LEMMA TurnFrame ==
  ASSUME NEW t \in Threads, NEW f, NEW r, Turn(t, f, r)
  PROVE  LET g == After(f, r) IN
         /\ th'[t] = g /\ Good(t, f) /\ Good(t, g) /\ Running(f) /\ Running(th[t]) /\ g.pc # "idle"
         /\ f.op = th[t].op /\ f.fp = th[t].fp /\ f.pc = th[t].pc /\ f.id = th[t].id /\ f.k = th[t].k
         /\ f.name = th[t].name /\ f.moved = th[t].moved
         /\ Same(f, g) /\ ForkOrder(f, r, g) /\ LockOrder(f, r, g) /\ LookOrder(f, g)
         /\ f.pc \notin {"volclose", "freelist"} /\ g.pc \notin {"volclose", "freelist"}
<1>1. PICK g : g = After(f, r)
  OBVIOUS
<1>2. GoesOn(t, f, r) /\ Asked(t, f, r) /\ th'[t] = g
  BY <1>1, TurnGoes DEF Turn, Moves
<1>3. /\ Good(t, f) /\ Good(t, g) /\ Running(f) /\ g.pc # "idle" /\ Same(f, g) /\ f.op # "unmount"
      /\ ForkOrder(f, r, g) /\ LockOrder(f, r, g) /\ LookOrder(f, g)
  BY <1>1, <1>2 DEF GoesOn, Asked
<1>4. f.pc \notin {"volclose", "freelist"}
  BY <1>3 DEF Good, Placed, PcsOf, AllOps, Running
<1>5. g.pc \notin {"volclose", "freelist"}
  <2>1. g.op # "unmount"
    BY <1>3 DEF Same
  <2> QED
    BY <1>3, <2>1 DEF Good, Placed, PcsOf, AllOps, Running
<1> QED
  BY <1>1, <1>2, <1>3, <1>4, <1>5 DEF Asked, Running

LEMMA TurningInv ==
  ASSUME FilesInv, NEW t \in Threads, Turning(t)
  PROVE  FilesInv'
<1>1. TypeOK /\ GoodFrames /\ OneUnmount /\ Opened
  BY DEF FilesInv
<1>2. PICK f, r : Turn(t, f, r) /\ ((f.pc # "open" /\ fork' = fork) \/ (f.pc = "open" /\ OpenForkDoes(t, f, r)))
  BY <1>1, TurningIs
<1>3. /\ mounted' = mounted /\ down' = down /\ calls' = calls /\ refusals' \in 0..MaxRefusals
      /\ trouble \subseteq trouble' /\ trouble' \subseteq TroubleKinds
      /\ ServerTypes'
  BY <1>1, TurningIs
<1>4. th' \in [Threads -> Frame] /\ GoodFrames'
  BY <1>1, <1>2, TurnFrames
<1>5. /\ heap' \in [Blocks -> {"free", "used", "leaked"}] /\ orphans' \subseteq Blocks \cup Threads
      /\ handles' \subseteq Blocks /\ fileids' \subseteq ForkIds
  BY <1>1, <1>2, TurnTypes
<1>6. TypeOK'
  BY <1>1, <1>3, <1>4, <1>5 DEF TypeOK, ServerTypes
<1>7. HeapInv'
  BY <1>2, <1>3, TurnHeap
<1>8. Opened'
  BY <1>2, TurnOpened
<1>9. OneUnmount'
  <2>1. PICK g : g = After(f, r)
    OBVIOUS
  <2>2. Moves(t, g) /\ th'[t].pc \notin {"volclose", "freelist"}
    BY <1>2, <2>1, TurnFrame DEF Turn
  <2>3. \A u \in Threads \ {t} : th'[u].pc = th[u].pc
    BY <1>1, <2>2, OthersStay
  <2> QED
    BY <1>1, <1>3, <2>2, <2>3 DEF OneUnmount
<1> QED
  BY <1>4, <1>6, <1>7, <1>8, <1>9 DEF FilesInv

-----------------------------------------------------------------------------
(* Calls begin and end *)

\* A new call of t, at g
NewFrame(t, g) ==
  /\ th[t].pc = "idle" /\ th' = [th EXCEPT ![t] = g] /\ Good(t, g) /\ Running(g) /\ g.k = 0 /\ ~g.acted
  /\ g.pc \notin {"delete", "add", "zero", "unlock", "freelist", "unlist"} /\ (g.pc = "volclose" <=> g.op = "unmount")
  /\ g.pc = "close" <=> g.op \in {"release", "daemon_close"}
  /\ g.pc = "io" => NoLocking
  /\ calls' \in 0..MaxCalls
  /\ UNCHANGED <<server, refusals, down, trouble>>

\* Calls that find what they need, and the others
Uses(g) ==
  /\ UNCHANGED <<memory, mounted>>
  /\ g.op \notin OnBlock \cup OnId \cup {"unmount"} \/ (g.op \in {"read", "write"} /\ g.fp \in handles)
  /\ g.op \in OnStack => g.pc \in Before
Allocates(g) ==
  /\ mounted /\ g.op \in Opening \cup {"truncate"} /\ g.pc = "open"
  /\ heap[g.fp] = "free" /\ heap' = [heap EXCEPT ![g.fp] = "used"] /\ fork' = [fork EXCEPT ![g.fp] = Null]
  /\ UNCHANGED <<list, handles, fileids, orphans, mounted>>
Releases(g) ==
  /\ g.op = "release" /\ g.fp \in handles /\ handles' = handles \ {g.fp} /\ \A u \in Threads : th[u].fp # g.fp
  /\ UNCHANGED <<heap, fork, list, fileids, orphans, mounted>>
UsesId(g) ==
  /\ g.op \in OnId /\ g.id \in fileids /\ mounted
  /\ fileids' = IF g.op = "daemon_close" THEN fileids \ {g.id} ELSE fileids
  /\ UNCHANGED <<heap, fork, list, handles, orphans, mounted>>
Unmounts(g) ==
  g.op = "unmount" /\ mounted /\ mounted' = FALSE /\ UNCHANGED memory

\* A frame as a call begins
StartOf(g, op, pc, n, x) ==
  /\ g \in Frame /\ g.op = op /\ g.pc = pc /\ g.name = n /\ g.fp = x
  /\ g.k = 0 /\ g.tries = 0 /\ g.acted = FALSE /\ g.fault = <<>> /\ g.res = "ok"

LEMMA IdleIs == StartOf(Idle, Null, "idle", Null, Null) /\ Idle.to = Null /\ Idle.id = Null
<1>1. Packets \in Nat /\ Tries \in Nat
  BY FilesConstants
<1>2. "idle" \in PCs
  BY DEF PCs
<1> QED
  BY <1>1, <1>2 DEF Idle, Frame, StartOf

LEMMA BeginIs ==
  ASSUME TypeOK, NEW t \in Threads, NEW op \in AllOps, NEW pc \in PCs, NEW n \in Names \cup {Null},
         NEW x \in Blocks \cup Threads \cup {Null}, Begin(t, op, pc, n, x)
  PROVE  \E g : /\ StartOf(g, op, pc, n, x) /\ g.to = Null /\ g.id = Null
                /\ th' = [th EXCEPT ![t] = g] /\ th[t].pc = "idle"
                /\ calls' \in 0..MaxCalls
                /\ UNCHANGED <<server, refusals, down, trouble>>
<1>1. PICK g : g = [Idle EXCEPT !.pc = pc, !.op = op, !.name = n, !.fp = x]
  OBVIOUS
<1>2. Idle \in Frame
  BY IdleIs DEF StartOf
<1>3. /\ g \in Frame /\ g.op = op /\ g.pc = pc /\ g.name = n /\ g.fp = x /\ g.to = Idle.to /\ g.id = Idle.id
      /\ g.k = Idle.k /\ g.tries = Idle.tries /\ g.acted = Idle.acted /\ g.fault = Idle.fault /\ g.res = Idle.res
  BY <1>1, <1>2 DEF Frame
<1>4. calls' \in 0..MaxCalls
  BY FilesConstants DEF Begin, NewCall, TypeOK
<1> QED
  BY <1>1, <1>3, <1>4, IdleIs DEF Begin, NewCall, At, Goto, StartOf

\* A new frame is one its function can begin with.
LEMMA StartGood ==
  ASSUME NEW t \in Threads, NEW g, NEW op \in AllOps, NEW pc, NEW n, NEW x, StartOf(g, op, pc, n, x),
         pc \in PcsOf(op) \ {"idle", "return"},
         op \in OnBlock => x \in Blocks, op \in OnStack => x = t, op \notin OnBlock \cup OnStack => x = Null,
         op \in OnId => g.id \in ForkIds, op \notin OnId => g.id = Null,
         op \notin Nameless => n \in Names, op = "rename" => g.to \in Names
  PROVE  Good(t, g) /\ Running(g)
<1>1. Packets > 0 /\ Tries > 0
  BY FilesConstants
<1>2. Placed(t, g)
  BY <1>1 DEF Placed, StartOf, Running
<1> QED
  BY <1>2 DEF Good, StartOf, Honest, Running

LEMMA NamedBegins ==
  ASSUME TypeOK, NEW t \in Threads, NEW op, NEW pc, NEW n \in Names, NEW x, Begin(t, op, pc, n, x),
         UNCHANGED <<memory, mounted>>,
         \/ <<op, pc, x>> \in {<<"unlink", "isdir", Null>>, <<"rmdir", "isdir", Null>>, <<"creat", "create", Null>>,
                               <<"mkdir", "mkdir", Null>>, <<"chmod", "getprivs", Null>>, <<"chown", "getprivs", Null>>,
                               <<"utime", "isdir", Null>>, <<"getattr", "attr", Null>>}
         \/ <<op, pc, x>> \in {<<"readlink", "open", t>>, <<"symlink", "create", t>>}
  PROVE  \E g : NewFrame(t, g) /\ Uses(g)
<1>1. op \in AllOps \ (OnBlock \cup OnId \cup Nameless \cup {"rename"}) /\ pc \in PCs /\ pc \in PcsOf(op) \ {"idle", "return"}
  BY DEF AllOps, OnBlock, OnId, Nameless, Opening, PCs, PcsOf
<1>2. x \in Blocks \cup Threads \cup {Null} /\ (op \in OnStack => x = t) /\ (op \notin OnStack => x = Null)
  BY DEF OnStack
<1>3. PICK g : /\ StartOf(g, op, pc, n, x) /\ g.to = Null /\ g.id = Null
               /\ th' = [th EXCEPT ![t] = g] /\ th[t].pc = "idle"
               /\ calls' \in 0..MaxCalls
               /\ UNCHANGED <<server, refusals, down, trouble>>
  BY <1>1, <1>2, BeginIs
<1>4. Good(t, g) /\ Running(g)
  BY <1>1, <1>2, <1>3, StartGood
<1>5. pc \notin {"delete", "add", "zero", "unlock", "freelist", "unlist", "volclose", "close", "io"}
  OBVIOUS
<1>6. NewFrame(t, g)
  BY <1>1, <1>3, <1>4, <1>5 DEF NewFrame, StartOf, Nameless
<1>7. Uses(g)
  BY <1>1, <1>3 DEF Uses, StartOf, Nameless, OnStack, Before
<1> QED
  BY <1>6, <1>7

LEMMA CallIs ==
  ASSUME TypeOK, NEW t \in Threads, Call(t)
  PROVE  \E g : NewFrame(t, g) /\ (Uses(g) \/ Allocates(g) \/ Releases(g) \/ UsesId(g) \/ Unmounts(g))
<1>1. ASSUME NEW n \in Names, RemoveOrRead(t, n) \/ Mknod(t, n) \/ Mkdir(t, n) \/ Attributes(t, n) \/ Getattr(t, n)
      PROVE  \E g : NewFrame(t, g) /\ Uses(g)
  <2>1. UNCHANGED <<memory, mounted>>
    BY <1>1 DEF RemoveOrRead, Mknod, Mkdir, Attributes, Getattr
  <2>2. CASE RemoveOrRead(t, n)
    BY <2>1, <2>2, NamedBegins DEF RemoveOrRead
  <2>3. CASE Mknod(t, n)
    BY <2>1, <2>3, NamedBegins DEF Mknod
  <2>4. CASE Mkdir(t, n)
    BY <2>1, <2>4, NamedBegins DEF Mkdir
  <2>5. CASE Attributes(t, n)
    BY <2>1, <2>5, NamedBegins DEF Attributes
  <2>6. CASE Getattr(t, n)
    BY <2>1, <2>6, NamedBegins DEF Getattr
  <2> QED
    BY <1>1, <2>2, <2>3, <2>4, <2>5, <2>6
<1>2. ASSUME NEW n \in Names, NEW m \in Names, Link(t, n, m)
      PROVE  \E g : NewFrame(t, g) /\ Uses(g)
  <2>1. UNCHANGED <<memory, mounted>>
    BY <1>2 DEF Link
  <2>2. CASE Begin(t, "symlink", "create", n, t)
    BY <2>1, <2>2, NamedBegins
  <2>3. CASE NewCall(t, "rename") /\ Goto(t, [Idle EXCEPT !.pc = "isdir", !.op = "rename", !.name = n, !.to = m])
    <3>1. PICK g : g = [Idle EXCEPT !.pc = "isdir", !.op = "rename", !.name = n, !.to = m]
      OBVIOUS
    <3>2. Idle \in Frame /\ "isdir" \in PCs /\ "rename" \in AllOps
      BY IdleIs DEF StartOf, PCs, AllOps
    <3>3. /\ g \in Frame /\ g.op = "rename" /\ g.pc = "isdir" /\ g.name = n /\ g.fp = Idle.fp /\ g.to = m /\ g.id = Idle.id
          /\ g.k = Idle.k /\ g.tries = Idle.tries /\ g.acted = Idle.acted /\ g.fault = Idle.fault /\ g.res = Idle.res
      BY <3>1, <3>2 DEF Frame
    <3>4. StartOf(g, "rename", "isdir", n, Null) /\ g.id = Null
      BY <3>3, IdleIs DEF StartOf
    <3>5. Good(t, g) /\ Running(g)
      BY <3>2, <3>3, <3>4, StartGood DEF PcsOf, OnBlock, OnStack, OnId, Opening, Nameless
    <3>6. calls' \in 0..MaxCalls
      BY <2>3, FilesConstants DEF NewCall, TypeOK
    <3>7. NewFrame(t, g)
      BY <2>3, <3>1, <3>4, <3>5, <3>6 DEF NewFrame, StartOf, NewCall, At, Goto
    <3> QED
      BY <2>1, <3>3, <3>7 DEF Uses, OnStack, OnBlock, OnId, Opening
  <2> QED
    BY <1>2, <2>2, <2>3 DEF Link
<1>3. ASSUME NEW b \in Blocks, ReadWrite(t, b)
      PROVE  \E g : NewFrame(t, g) /\ Uses(g)
  <2>1. PICK op \in {"read", "write"}, pc \in {"io", "lock"} :
          Begin(t, op, pc, Null, b) /\ (pc = "io" => NoLocking) /\ b \in handles /\ UNCHANGED <<memory, mounted>>
    BY <1>3 DEF ReadWrite
  <2>2. op \in AllOps /\ pc \in PCs /\ pc \in PcsOf(op) \ {"idle", "return"}
    BY DEF AllOps, PCs, PcsOf
  <2>3. PICK g : /\ StartOf(g, op, pc, Null, b) /\ g.to = Null /\ g.id = Null
                 /\ th' = [th EXCEPT ![t] = g] /\ th[t].pc = "idle"
                 /\ calls' \in 0..MaxCalls
                 /\ UNCHANGED <<server, refusals, down, trouble>>
    <3>1. Null \in Names \cup {Null} /\ b \in Blocks \cup Threads \cup {Null} /\ Begin(t, op, pc, Null, b)
      BY <2>1
    <3> QED
      BY <2>2, <3>1, BeginIs
  <2>4. Good(t, g) /\ Running(g)
    BY <2>2, <2>3, StartGood DEF OnBlock, OnStack, OnId, Opening, Nameless
  <2>5. NewFrame(t, g)
    BY <2>1, <2>3, <2>4 DEF NewFrame, StartOf
  <2> QED
    BY <2>1, <2>3, <2>5 DEF Uses, OnStack, StartOf
<1>4. ASSUME NEW b \in Blocks, Release(t, b)
      PROVE  \E g : NewFrame(t, g) /\ Releases(g)
  <2>1. PICK g : /\ StartOf(g, "release", "close", Null, b) /\ g.to = Null /\ g.id = Null
                 /\ th' = [th EXCEPT ![t] = g] /\ th[t].pc = "idle"
                 /\ calls' \in 0..MaxCalls
                 /\ UNCHANGED <<server, refusals, down, trouble>>
    BY <1>4, BeginIs DEF Release, AllOps, PCs
  <2>2. Good(t, g) /\ Running(g)
    BY <2>1, StartGood DEF OnBlock, OnStack, OnId, Opening, Nameless, AllOps, PcsOf
  <2>3. NewFrame(t, g)
    BY <2>1, <2>2 DEF NewFrame, StartOf
  <2> QED
    BY <1>4, <2>1, <2>3 DEF Releases, Release, StartOf
<1>5. ASSUME NEW b \in Blocks, NEW n \in Names, Open(t, n, b)
      PROVE  \E g : NewFrame(t, g) /\ Allocates(g)
  <2>1. PICK op \in Opening \cup {"truncate"} : Begin(t, op, "open", n, b)
    BY <1>5 DEF Open
  <2>2. op \in AllOps /\ "open" \in PCs /\ "open" \in PcsOf(op) \ {"idle", "return"}
    BY DEF AllOps, PCs, PcsOf, Opening
  <2>3. PICK g : /\ StartOf(g, op, "open", n, b) /\ g.to = Null /\ g.id = Null
                 /\ th' = [th EXCEPT ![t] = g] /\ th[t].pc = "idle"
                 /\ calls' \in 0..MaxCalls
                 /\ UNCHANGED <<server, refusals, down, trouble>>
    BY <2>1, <2>2, BeginIs
  <2>4. op \in OnBlock /\ op \notin OnStack /\ op \notin OnId /\ op \notin {"rename", "unmount", "release", "daemon_close"}
    BY DEF OnBlock, OnStack, OnId, Opening
  <2>5. Good(t, g) /\ Running(g)
    BY <2>2, <2>3, <2>4, StartGood
  <2>6. NewFrame(t, g)
    BY <2>3, <2>4, <2>5 DEF NewFrame, StartOf
  <2> QED
    BY <1>5, <2>3, <2>6 DEF Allocates, Open, StartOf
<1>6. ASSUME NEW k \in ForkIds, Fileid(t, k)
      PROVE  \E g : NewFrame(t, g) /\ UsesId(g)
  <2>1. PICK op \in OnId :
          /\ NewCall(t, op)
          /\ Goto(t, [Idle EXCEPT !.op = op, !.id = k,
                        !.pc = IF op = "daemon_close" THEN "close" ELSE IF NoLocking THEN "io" ELSE "lock"])
          /\ fileids' = IF op = "daemon_close" THEN fileids \ {k} ELSE fileids
    BY <1>6 DEF Fileid, OnId
  <2>2. PICK pc : pc = IF op = "daemon_close" THEN "close" ELSE IF NoLocking THEN "io" ELSE "lock"
    OBVIOUS
  <2>3. PICK g : g = [Idle EXCEPT !.op = op, !.id = k, !.pc = pc]
    OBVIOUS
  <2>4. op \in AllOps /\ pc \in PCs /\ pc \in PcsOf(op) \ {"idle", "return"} /\ Idle \in Frame
    BY <2>2, IdleIs DEF AllOps, PCs, PcsOf, OnId, StartOf
  <2>5. /\ g \in Frame /\ g.op = op /\ g.pc = pc /\ g.name = Idle.name /\ g.fp = Idle.fp /\ g.id = k
        /\ g.k = Idle.k /\ g.tries = Idle.tries /\ g.acted = Idle.acted /\ g.fault = Idle.fault /\ g.res = Idle.res
    BY <2>3, <2>4 DEF Frame
  <2>6. StartOf(g, op, pc, Null, Null)
    BY <2>5, IdleIs DEF StartOf
  <2>7. op \notin OnBlock /\ op \notin OnStack /\ op \in Nameless /\ op # "rename" /\ op # "unmount" /\ op # "release"
    BY DEF OnBlock, OnStack, OnId, Opening, Nameless
  <2>8. Good(t, g) /\ Running(g)
    BY <2>4, <2>5, <2>6, <2>7, StartGood
  <2>9. calls' \in 0..MaxCalls
    BY <2>1, FilesConstants DEF NewCall, TypeOK
  <2>10. NewFrame(t, g)
    BY <2>1, <2>2, <2>3, <2>6, <2>7, <2>8, <2>9 DEF NewFrame, StartOf, NewCall, At, Goto
  <2> QED
    BY <1>6, <2>1, <2>5, <2>10 DEF UsesId, Fileid
<1>7. ASSUME Unmount(t)
      PROVE  \E g : NewFrame(t, g) /\ Unmounts(g)
  <2>1. PICK g : /\ StartOf(g, "unmount", "volclose", Null, Null) /\ g.to = Null /\ g.id = Null
                 /\ th' = [th EXCEPT ![t] = g] /\ th[t].pc = "idle"
                 /\ calls' \in 0..MaxCalls
                 /\ UNCHANGED <<server, refusals, down, trouble>>
    <3>1. "unmount" \in AllOps /\ "volclose" \in PCs /\ Null \in Names \cup {Null} /\ Null \in Blocks \cup Threads \cup {Null}
      BY DEF AllOps, PCs
    <3>2. Begin(t, "unmount", "volclose", Null, Null)
      BY <1>7 DEF Unmount
    <3> QED
      BY <3>1, <3>2, BeginIs
  <2>2. Good(t, g) /\ Running(g)
    BY <2>1, StartGood DEF OnBlock, OnStack, OnId, Opening, Nameless, AllOps, PcsOf
  <2>3. NewFrame(t, g)
    BY <2>1, <2>2 DEF NewFrame, StartOf
  <2> QED
    BY <1>7, <2>1, <2>3 DEF Unmounts, Unmount, StartOf
<1> QED
  BY <1>1, <1>2, <1>3, <1>4, <1>5, <1>6, <1>7 DEF Call

LEMMA CallInv ==
  ASSUME FilesInv, NEW t \in Threads, Call(t)
  PROVE  FilesInv'
<1>1. TypeOK /\ GoodFrames /\ HeapInv /\ Opened /\ OneUnmount
  BY DEF FilesInv
<1>2. PICK g : NewFrame(t, g) /\ (Uses(g) \/ Allocates(g) \/ Releases(g) \/ UsesId(g) \/ Unmounts(g))
  BY <1>1, CallIs
<1>3. /\ th[t].pc = "idle" /\ th'[t] = g /\ Good(t, g) /\ Running(g) /\ g \in Frame
      /\ g.pc \notin {"add", "zero", "freelist"} /\ (g.pc = "volclose" <=> g.op = "unmount")
      /\ \A u \in Threads \ {t} : th'[u] = th[u]
      /\ UNCHANGED <<server, refusals, down, trouble>> /\ calls' \in 0..MaxCalls
  BY <1>1, <1>2 DEF NewFrame, TypeOK, Good
<1>4. th' \in [Threads -> Frame] /\ GoodFrames'
  BY <1>1, <1>2, <1>3 DEF NewFrame, TypeOK, GoodFrames
<1>5. TypeOK'
  BY <1>1, <1>2, <1>3, <1>4 DEF TypeOK, Uses, Allocates, Releases, UsesId, Unmounts, memory, server
<1>6. th[t].fp = Null /\ th[t].op = Null
  BY <1>1, <1>3, FrameOf, IdleIs DEF Good, Placed, StartOf
<1>7. \A u \in Threads : th[u].op = Null \/ th[u].op \in AllOps
  BY <1>1, FrameOf DEF Frame
<1>8. Opened'
  <2>1. ASSUME NEW u \in Threads, th'[u].op \in Opening \cup {"truncate"}, th'[u].pc \in {"add", "zero"}
        PROVE  fork'[th'[u].fp] # Null
    <3>1. u # t /\ th'[u] = th[u] /\ fork[th[u].fp] # Null /\ th[u].fp \in Blocks /\ Running(th[u])
      BY <1>1, <1>3, <2>1, FrameOf DEF Opened, Good, Placed, OnBlock, Running
    <3>2. CASE fork' = fork
      BY <3>1, <3>2
    <3>3. CASE Allocates(g)
      <4>1. heap[th[u].fp] = "used"
        BY <1>1, <3>1, <3>3 DEF HeapInv, Sane, Allocates
      <4>2. th[u].fp # g.fp
        BY <3>3, <4>1 DEF Allocates
      <4> QED
        BY <1>1, <3>1, <3>3, <4>2 DEF Allocates, TypeOK
    <3> QED
      BY <1>2, <3>2, <3>3 DEF Uses, Releases, UsesId, Unmounts, memory
  <2> QED
    BY <2>1 DEF Opened
<1>9. OneUnmount'
  <2>1. \/ mounted' = mounted /\ g.op # "unmount"
        \/ mounted /\ ~mounted' /\ g.op = "unmount"
    BY <1>2 DEF Uses, Allocates, Releases, UsesId, Unmounts, Opening, OnId
  <2> QED
    BY <1>1, <1>3, <2>1 DEF OneUnmount
<1>10. HeapInv'
  <2>1. Sane' => Sane
    BY <1>2, <1>3 DEF Sane, Intact, Uses, Allocates, Releases, UsesId, Unmounts
  <2> SUFFICES ASSUME Sane
               PROVE  /\ \A u \in Threads : Running(th'[u]) /\ th'[u].fp \in Blocks => heap'[th'[u].fp] = "used"
                      /\ \A b \in handles' : heap'[b] = "used"
                      /\ \A u \in Threads : Own(th'[u]) =>
                           /\ th'[u].fp \notin handles'
                           /\ \A v \in Threads \ {u} : Running(th'[v]) => th'[v].fp # th'[u].fp
                      /\ \A u \in Threads : th'[u].op \in {"read", "write"} => th'[u].fp \in handles'
    BY <2>1 DEF HeapInv
  <2>2. /\ \A u \in Threads : Running(th[u]) /\ th[u].fp \in Blocks => heap[th[u].fp] = "used"
        /\ \A b \in handles : heap[b] = "used"
        /\ \A u \in Threads : Own(th[u]) => /\ th[u].fp \notin handles
                                            /\ \A v \in Threads \ {u} : Running(th[v]) => th[v].fp # th[u].fp
        /\ \A u \in Threads : th[u].op \in {"read", "write"} => th[u].fp \in handles
    BY <1>1 DEF HeapInv
  <2>3. handles \subseteq Blocks /\ heap \in [Blocks -> {"free", "used", "leaked"}]
    BY <1>1 DEF TypeOK
  <2>4. \A u \in Threads : Own(th[u]) => Running(th[u]) /\ th[u].fp \in Blocks \cup {u}
    BY <1>1, FrameOf DEF Own, Good, Placed, OnBlock
  <2>5. \A u \in Threads \ {t} : th[u].fp # t
    BY <1>1, FrameOf, FilesConstants DEF Good, Placed, Frame
  <2>6. CASE Uses(g)
    <3>1. heap' = heap /\ handles' = handles
      BY <2>6 DEF Uses, memory
    <3>2. Own(g) => g.fp = t
      BY <1>3, <2>6 DEF Own, Uses, OnBlock, Good, Placed, OnStack, Opening
    <3>3. g.op \in {"read", "write"} => g.fp \in handles
      BY <2>6 DEF Uses, OnBlock
    <3>4. g.fp \in Blocks => g.op \in {"read", "write"} /\ g.fp \in handles
      BY <1>3, <2>6, FilesConstants DEF Uses, OnBlock, OnStack, Good, Placed
    <3>5. \A u \in Threads : Running(th'[u]) /\ th'[u].fp \in Blocks => heap'[th'[u].fp] = "used"
      BY <1>3, <2>2, <3>1, <3>4
    <3>6. ASSUME NEW u \in Threads, Own(th'[u])
          PROVE  /\ th'[u].fp \notin handles'
                 /\ \A v \in Threads \ {u} : Running(th'[v]) => th'[v].fp # th'[u].fp
      <4>1. CASE u = t
        BY <1>3, <2>3, <2>5, <3>1, <3>2, <3>6, <4>1, FilesConstants
      <4>2. CASE u # t
        <5>1. Own(th[u]) /\ th'[u] = th[u]
          BY <1>3, <3>6, <4>2
        <5>2. g.fp # th[u].fp
          <6>1. g.fp \in handles \/ g.fp = t \/ g.fp = Null
            BY <1>3, <2>6 DEF Uses, Good, Placed, OnStack, OnBlock
          <6>2. th[u].fp \notin handles /\ th[u].fp \in Blocks \cup {u}
            BY <2>2, <2>4, <5>1
          <6> QED
            BY <4>2, <6>1, <6>2, FilesConstants
        <5> QED
          BY <1>3, <2>2, <3>1, <5>1, <5>2
      <4> QED
        BY <4>1, <4>2
    <3>7. \A u \in Threads : th'[u].op \in {"read", "write"} => th'[u].fp \in handles'
      BY <1>3, <2>2, <3>1, <3>3
    <3> QED
      BY <2>2, <3>1, <3>5, <3>6, <3>7
  <2>7. CASE Allocates(g)
    <3>1. g.fp \in Blocks /\ g.fp \notin handles /\ g.op \notin {"read", "write"}
      BY <1>3, <2>2, <2>7 DEF Allocates, Good, Placed, OnBlock, Opening
    <3>2. \A u \in Threads : Running(th[u]) => th[u].fp # g.fp
      BY <2>2, <2>7, <3>1 DEF Allocates
    <3>3. handles' = handles /\ heap' = [heap EXCEPT ![g.fp] = "used"]
      BY <2>7 DEF Allocates
    <3> QED
      BY <1>3, <2>2, <2>3, <2>4, <3>1, <3>2, <3>3
  <2>8. CASE Releases(g)
    <3>1. g.fp \in handles /\ handles' = handles \ {g.fp} /\ heap' = heap /\ g.op \notin {"read", "write"}
      BY <2>8 DEF Releases
    <3>2. \A u \in Threads : th[u].fp # g.fp
      BY <2>8 DEF Releases
    <3> QED
      BY <1>3, <2>2, <2>3, <2>4, <3>1, <3>2
  <2>9. CASE UsesId(g) \/ Unmounts(g)
    <3>1. g.fp = Null /\ ~Own(g) /\ g.op \notin {"read", "write"}
      BY <1>3, <2>9 DEF UsesId, Unmounts, Good, Placed, OnBlock, OnStack, OnId, Own, Opening
    <3>2. handles' = handles /\ heap' = heap
      BY <2>9 DEF UsesId, Unmounts, memory
    <3> QED
      BY <1>3, <2>2, <2>3, <2>4, <3>1, <3>2, FilesConstants
  <2> QED
    BY <1>2, <2>6, <2>7, <2>8, <2>9
<1> QED
  BY <1>4, <1>5, <1>8, <1>9, <1>10 DEF FilesInv

LEMMA ReturnInv ==
  ASSUME FilesInv, NEW t \in Threads, Return(t)
  PROVE  FilesInv'
<1>1. TypeOK /\ GoodFrames /\ HeapInv /\ Opened /\ OneUnmount
  BY DEF FilesInv
<1>2. /\ th[t].pc = "return" /\ th'[t] = Idle /\ \A u \in Threads \ {t} : th'[u] = th[u]
      /\ th' = [th EXCEPT ![t] = Idle]
      /\ UNCHANGED <<server, memory, mounted, calls, refusals, down, trouble>>
  BY <1>1 DEF Return, At, Goto, TypeOK
<1>3. /\ Idle \in Frame /\ Idle.pc = "idle" /\ Idle.op = Null /\ Idle.fp = Null /\ Idle.id = Null
      /\ ~Running(Idle) /\ ~Own(Idle) /\ Idle.op \notin {"read", "write"}
  BY IdleIs, FilesConstants DEF StartOf, Running, Own, AllOps
<1>4. Good(t, Idle)
  BY <1>3, FilesConstants DEF Good, Placed, Honest, Running, OnBlock, OnStack, OnId, Opening, AllOps
<1>5. TypeOK' /\ GoodFrames'
  BY <1>1, <1>2, <1>3, <1>4 DEF TypeOK, GoodFrames, server, memory
<1>6. HeapInv'
  BY <1>1, <1>2, <1>3 DEF HeapInv, Sane, Intact, memory
<1>7. Opened' /\ OneUnmount'
  BY <1>1, <1>2, <1>3 DEF Opened, OneUnmount, memory
<1> QED
  BY <1>5, <1>6, <1>7 DEF FilesInv

\* The two steps of an unmount
UnmountGoes(t, pc) ==
  /\ th[t].op = "unmount" /\ th' = [th EXCEPT ![t] = th'[t]]
  /\ th'[t].pc = pc /\ th'[t].op = "unmount" /\ th'[t].fp = Null /\ th'[t].id = Null /\ Good(t, th'[t])

LEMMA VolCloseGoes ==
  ASSUME TypeOK, GoodFrames, NEW t \in Threads, VolClose(t)
  PROVE  UnmountGoes(t, "freelist") /\ th[t].pc = "volclose"
<1>1. th[t].pc = "volclose" /\ th' = [th EXCEPT ![t] = Next_(th[t], "freelist")]
  BY DEF VolClose, At, Goto
<1>2. PICK f : f = th[t]
  OBVIOUS
<1>3. f \in Frame /\ Good(t, f) /\ f.pc = "volclose"
  BY <1>1, <1>2, FrameOf
<1>4. f.op = "unmount"
  BY <1>3 DEF Good, Placed, PcsOf, AllOps, Running
<1>5. PICK g : g = Next_(f, "freelist")
  OBVIOUS
<1>6. IsNext(f, g, "freelist")
  BY <1>3, <1>5, NextIs DEF PCs
<1>7. Placed(t, g)
  BY <1>3, <1>4, <1>6 DEF Good, Placed, PcsOf, IsNext, Like, Same, Running, OnBlock, OnStack, OnId, Opening, Nameless
<1>8. Unreported(f) => FALSE
  BY <1>4 DEF Unreported
<1>9. Honest(g)
  BY <1>3, <1>4, <1>6, <1>8 DEF Good, Honest, IsNext, Like, Same, Running
<1>10. g.fp = Null /\ g.id = Null /\ g.op = "unmount"
  BY <1>3, <1>4, <1>6 DEF Good, Placed, IsNext, Like, Same, OnBlock, OnStack, OnId, Opening
<1>11. th'[t] = g
  BY <1>1, <1>2, <1>5 DEF TypeOK
<1> QED
  BY <1>1, <1>2, <1>4, <1>5, <1>6, <1>7, <1>9, <1>10, <1>11 DEF UnmountGoes, Good, IsNext, Like

LEMMA RemoveForkListGoes ==
  ASSUME TypeOK, GoodFrames, NEW t \in Threads, RemoveForkList(t)
  PROVE  UnmountGoes(t, "return") /\ th[t].pc = "freelist"
<1>1. th[t].pc = "freelist" /\ th' = [th EXCEPT ![t] = Success(th[t])]
  BY DEF RemoveForkList, At, Goto
<1>2. PICK f : f = th[t]
  OBVIOUS
<1>3. f \in Frame /\ Good(t, f) /\ f.pc = "freelist"
  BY <1>1, <1>2, FrameOf
<1>4. f.op = "unmount"
  BY <1>3 DEF Good, Placed, PcsOf, AllOps, Running
<1>5. PICK g : g = Success(f)
  OBVIOUS
<1>6. Like(f, g) /\ g.pc = "return" /\ g.acted
  BY <1>3, <1>5 DEF Success, Frame, Like, Same, PCs
<1>7. Placed(t, g)
  BY <1>3, <1>4, <1>6 DEF Good, Placed, PcsOf, Like, Same, Running, OnBlock, OnStack, OnId, Opening, Nameless
<1>8. Honest(g)
  BY <1>6 DEF Honest, Running
<1>9. g.fp = Null /\ g.id = Null /\ g.op = "unmount"
  BY <1>3, <1>4, <1>6 DEF Good, Placed, Like, Same, OnBlock, OnStack, OnId, Opening
<1>10. th'[t] = g
  BY <1>1, <1>2, <1>5 DEF TypeOK
<1> QED
  BY <1>1, <1>2, <1>4, <1>5, <1>6, <1>7, <1>8, <1>9, <1>10 DEF UnmountGoes, Good, Like

LEMMA UnmountInv ==
  ASSUME FilesInv, NEW t \in Threads, VolClose(t) \/ RemoveForkList(t)
  PROVE  FilesInv'
<1>1. TypeOK /\ GoodFrames /\ HeapInv /\ Opened /\ OneUnmount
  BY DEF FilesInv
<1>2. PICK g : /\ th'[t] = g /\ g.pc \in {"freelist", "return"} /\ g.op = "unmount" /\ g.fp = Null /\ Good(t, g) /\ g \in Frame
               /\ th' = [th EXCEPT ![t] = g] /\ \A u \in Threads \ {t} : th'[u] = th[u]
               /\ th[t].pc \in {"volclose", "freelist"} /\ th[t].op = "unmount"
  <2>1. /\ UnmountGoes(t, "freelist") \/ UnmountGoes(t, "return")
        /\ th[t].pc \in {"volclose", "freelist"}
    BY <1>1, VolCloseGoes, RemoveForkListGoes
  <2> QED
    BY <1>1, <2>1 DEF UnmountGoes, TypeOK, Good
<1>3. th' \in [Threads -> Frame] /\ GoodFrames'
  BY <1>1, <1>2 DEF TypeOK, GoodFrames
<1>4. /\ fork' = fork /\ mounted' = mounted /\ handles' = handles /\ fileids' = fileids /\ orphans' = orphans
      /\ UNCHANGED <<place, kind, content, calls, refusals, down>>
      /\ trouble \subseteq trouble' /\ trouble' \subseteq TroubleKinds
  BY <1>1 DEF VolClose, RemoveForkList, memory, server, Now, TypeOK, TroubleKinds
<1>5. /\ forks' \in [ForkIds -> Inodes \cup {Null}] /\ locks' \in [Inodes -> ForkIds \cup {Null}]
      /\ list' \in Seq(Blocks \cup Threads) /\ heap' \in [Blocks -> {"free", "used", "leaked"}]
  <2>1. CASE VolClose(t)
    BY <1>1, <2>1 DEF VolClose, memory, TypeOK
  <2>2. CASE RemoveForkList(t)
    <3>1. list' = <<>> /\ forks' = forks /\ locks' = locks
      BY <2>2 DEF RemoveForkList, server
    <3>2. heap' \in [Blocks -> {"free", "used", "leaked"}]
      BY <1>1, <2>2 DEF RemoveForkList, TypeOK
    <3> QED
      BY <1>1, <3>1, <3>2, EmptySeq DEF TypeOK
  <2> QED
    BY <2>1, <2>2
<1>6. TypeOK'
  BY <1>1, <1>3, <1>4, <1>5 DEF TypeOK
<1>7. Opened'
  BY <1>1, <1>2, <1>4 DEF Opened
<1>8. OneUnmount'
  BY <1>1, <1>2, <1>4 DEF OneUnmount
<1>9. HeapInv'
  <2>1. Sane' => Sane
    BY <1>4 DEF Sane, Intact
  <2> SUFFICES ASSUME Sane, Sane'
               PROVE  /\ \A u \in Threads : Running(th'[u]) /\ th'[u].fp \in Blocks => heap'[th'[u].fp] = "used"
                      /\ \A b \in handles' : heap'[b] = "used"
                      /\ \A u \in Threads : Own(th'[u]) =>
                           /\ th'[u].fp \notin handles'
                           /\ \A v \in Threads \ {u} : Running(th'[v]) => th'[v].fp # th'[u].fp
                      /\ \A u \in Threads : th'[u].op \in {"read", "write"} => th'[u].fp \in handles'
    BY <2>1 DEF HeapInv
  <2>2. /\ \A u \in Threads : Running(th[u]) /\ th[u].fp \in Blocks => heap[th[u].fp] = "used"
        /\ \A b \in handles : heap[b] = "used"
        /\ \A u \in Threads : Own(th[u]) => /\ th[u].fp \notin handles
                                            /\ \A v \in Threads \ {u} : Running(th[v]) => th[v].fp # th[u].fp
        /\ \A u \in Threads : th[u].op \in {"read", "write"} => th[u].fp \in handles
    BY <1>1 DEF HeapInv
  <2>3. \A b \in handles \cup {th[u].fp : u \in Threads} : b \in Blocks => heap'[b] = heap[b]
    <3>1. CASE VolClose(t)
      BY <3>1 DEF VolClose, memory
    <3>2. CASE RemoveForkList(t)
      <4>1. ~mounted'
        BY <1>1, <1>2, <1>4 DEF OneUnmount
      <4>2. "freed_handle" \notin trouble'
        BY <4>1 DEF Sane, Intact
      <4>3. ToSet(list) \cap (handles \cup {th[u].fp : u \in Threads}) = {}
        BY <3>2, <4>2 DEF RemoveForkList, Now
      <4>4. heap' = [b \in Blocks |-> IF b \in ToSet(list) THEN "free" ELSE heap[b]]
        BY <3>2 DEF RemoveForkList
      <4> QED
        BY <4>3, <4>4
    <3> QED
      BY <3>1, <3>2
  <2>4. ~Own(g) /\ g.op \notin {"read", "write"} /\ g.fp \notin Blocks /\ handles \subseteq Blocks
    BY <1>1, <1>2, FilesConstants DEF Own, OnStack, Opening, TypeOK
  <2>5. \A u \in Threads : Own(th[u]) => th[u].fp # Null
    BY <1>1, FrameOf, FilesConstants DEF Own, Good, Placed, OnBlock
  <2> QED
    BY <1>2, <1>4, <2>2, <2>3, <2>4, <2>5
<1> QED
  BY <1>3, <1>6, <1>7, <1>8, <1>9 DEF FilesInv

LEMMA GoDownInv ==
  ASSUME FilesInv, GoDown \/ UNCHANGED vars
  PROVE  FilesInv'
<1>1. /\ UNCHANGED <<place, kind, content, memory, mounted, th, calls, refusals, trouble>>
      /\ forks' \in [ForkIds -> Inodes \cup {Null}] /\ locks' \in [Inodes -> ForkIds \cup {Null}] /\ down' \in BOOLEAN
  BY DEF GoDown, vars, server, memory, FilesInv, TypeOK
<1>2. TypeOK'
  BY <1>1 DEF FilesInv, TypeOK, memory
<1>3. GoodFrames' /\ Opened' /\ OneUnmount' /\ HeapInv'
  BY <1>1 DEF FilesInv, GoodFrames, Opened, OneUnmount, HeapInv, Sane, Intact, memory
<1> QED
  BY <1>2, <1>3 DEF FilesInv

LEMMA FilesInitInv ==
  ASSUME Init
  PROVE  FilesInv
<1>1. PICK f \in Inodes, d \in Inodes, n \in Names, m \in Names, open \in SUBSET Blocks :
        /\ f # d /\ n # m /\ IsFiniteSet(open)
        /\ place = [i \in Inodes |-> IF i = f THEN n ELSE IF i = d THEN m ELSE Null]
        /\ kind = [i \in Inodes |-> IF i = d THEN "dir" ELSE "file"]
        /\ \E id \in [open -> ForkIds] :
             /\ forks = [k \in ForkIds |-> IF k \in Range(id) THEN f ELSE Null]
             /\ fork = [x \in Blocks \cup Threads |-> IF x \in open THEN id[x] ELSE Null]
        /\ list = SetToSeq(open) /\ handles = open
        /\ heap = [b \in Blocks |-> IF b \in open THEN "used" ELSE "free"]
  BY DEF Init
<1>2. /\ content = [i \in Inodes |-> Blank]
      /\ locks = [i \in Inodes |-> Null]
      /\ fileids = {} /\ orphans = {}
      /\ mounted = TRUE /\ down = FALSE
      /\ th = [t \in Threads |-> Idle]
      /\ calls = 0 /\ refusals = 0 /\ trouble = {}
  BY DEF Init
<1>3. /\ Idle \in Frame /\ Idle.pc = "idle" /\ Idle.op = Null /\ Idle.fp = Null /\ Idle.id = Null
      /\ ~Running(Idle) /\ ~Own(Idle) /\ Idle.op \notin {"read", "write"}
  BY IdleIs, FilesConstants DEF StartOf, Running, Own, AllOps
<1>4. \A t \in Threads : Good(t, Idle)
  BY <1>3, FilesConstants DEF Good, Placed, Honest, Running, OnBlock, OnStack, OnId, Opening, AllOps
<1>5. list \in Seq(Blocks \cup Threads)
  <2>1. SetToSeq(open) \in Seq(open)
    BY <1>1, SetToSeqIs
  <2> QED
    BY <1>1, <2>1, SeqMonotonic
<1>6. TypeOK
  <2>1. /\ place \in [Inodes -> Names \cup Inodes \cup {Null}] /\ kind \in [Inodes -> {"file", "dir", "link"}]
        /\ heap \in [Blocks -> {"free", "used", "leaked"}] /\ handles \subseteq Blocks
        /\ forks \in [ForkIds -> Inodes \cup {Null}] /\ fork \in [Blocks \cup Threads -> ForkIds \cup {Null}]
    BY <1>1
  <2>2. content \in [Inodes -> [1..Packets -> Threads \cup {Null}]]
    BY <1>2 DEF Blank
  <2>3. calls \in 0..MaxCalls /\ refusals \in 0..MaxRefusals
    BY <1>2, FilesConstants
  <2> QED
    BY <1>2, <1>3, <1>5, <2>1, <2>2, <2>3 DEF TypeOK
<1>7. GoodFrames
  BY <1>2, <1>4 DEF GoodFrames
<1>8. HeapInv
  BY <1>1, <1>2, <1>3 DEF HeapInv
<1>9. Opened /\ OneUnmount
  BY <1>2, <1>3 DEF Opened, OneUnmount
<1> QED
  BY <1>6, <1>7, <1>8, <1>9 DEF FilesInv

LEMMA FilesStep ==
  ASSUME FilesInv, [Next]_vars
  PROVE  FilesInv'
<1>1. CASE GoDown \/ UNCHANGED vars
  BY <1>1, GoDownInv
<1>2. ASSUME NEW t \in Threads, Call(t)
      PROVE  FilesInv'
  BY <1>2, CallInv
<1>3. ASSUME NEW t \in Threads, Step(t)
      PROVE  FilesInv'
  <2>1. Turning(t) \/ Return(t) \/ VolClose(t) \/ RemoveForkList(t)
    BY <1>3 DEF Step, Turning
  <2> QED
    BY <2>1, TurningInv, ReturnInv, UnmountInv
<1> QED
  BY <1>1, <1>2, <1>3 DEF Next

\* Every variable keeps its type, whatever the calls, the server and the other threads do.
THEOREM FilesTypes == Spec => []TypeOK
<1>1. Init => FilesInv
  BY FilesInitInv
<1>2. FilesInv /\ [Next]_vars => FilesInv'
  BY FilesStep
<1>3. FilesInv => TypeOK
  BY DEF FilesInv
<1> QED
  BY <1>1, <1>2, <1>3, PTL DEF Spec

\* A call that returns success did what it was asked, or failed in one of the ways its
\* function does not report: for each of the functions of lib/midlevel.c and lib/lowlevel.c,
\* whatever the server refuses and in whatever order the threads go on.
THEOREM SuccessesAreReal == Spec => []SuccessIsReal
<1>1. Init => FilesInv
  BY FilesInitInv
<1>2. FilesInv /\ [Next]_vars => FilesInv'
  BY FilesStep
<1>3. FilesInv => SuccessIsReal
  BY DEF FilesInv, GoodFrames, Good, Honest, SuccessIsReal, Returning, At
<1> QED
  BY <1>1, <1>2, <1>3, PTL DEF Spec

-----------------------------------------------------------------------------
(* What is deleted is of the kind the function is for. *)

\* A call that is about to delete, was told what the name stands for, and has missed no change
DeletesRight ==
  \A t \in Threads : th[t].pc = "delete" /\ ~th[t].moved /\ th[t].fault = <<>> =>
    Here(th[t].name) = Null \/ (kind[Here(th[t].name)] = "dir" <=> th[t].op = "rmdir")

LEMMA DeleteEnds ==
  ASSUME NEW f \in Frame, NEW r \in Replies, f.op \in {"unlink", "rmdir"}, f.pc = "delete"
  PROVE  LET g == After(f, r) IN
         /\ r = "ok" => Same(f, g) /\ g.fault = f.fault
         /\ r # "ok" => g.res = "error" \/ g.fault # <<>>
<1>1. After(f, r) = AfterDelete(f, r)
  BY DEF After, AfterUnlink, AfterRmdir, Opening
<1>2. CASE r = "ok"
  <2>1. After(f, r) = Success(f)
    BY <1>1, <1>2 DEF AfterDelete
  <2> QED
    BY <1>2, <2>1 DEF Success, Same, Frame
<1>3. CASE r # "ok"
  <2>1. After(f, r) = Failure(f, r) \/ After(f, r) = Ignore(f, r, "return")
    BY <1>1, <1>3 DEF AfterDelete
  <2>2. "return" \in PCs
    BY DEF PCs
  <2> QED
    BY <1>3, <2>1, <2>2, FailureIs, IgnoreIs DEF IsFailed, IsIgnored
<1> QED
  BY <1>2, <1>3

LEMMA LookEnds ==
  ASSUME NEW f \in Frame, NEW r \in Replies, f.op \in {"unlink", "rmdir"}, f.pc = "isdir"
  PROVE  After(f, r).pc = "return" => After(f, r).res = "error"
<1>1. After(f, r) = Failure(f, "type") \/ After(f, r) = Next_(f, "delete")
  BY DEF After, AfterUnlink, AfterRmdir, Opening
<1>2. IsFailed(f, Failure(f, "type")) /\ IsNext(f, Next_(f, "delete"), "delete")
  BY FailureIs, NextIs DEF PCs, Replies
<1> QED
  BY <1>1, <1>2 DEF IsFailed, IsNext

LEMMA TurningSees ==
  ASSUME TypeOK, GoodFrames, NEW t \in Threads, Turning(t)
  PROVE  /\ Sees(t)
         /\ th[t].pc = "isdir" => \E f, r : Turn(t, f, r) /\ IsDirDoes(t, f) /\ place' = place /\ kind' = kind
         /\ th[t].pc = "delete" => \E f, r : Turn(t, f, r) /\ DeleteDoes(t, f, r)
<1>1. CASE IsDir(t)
  BY <1>1, IsDirTurn DEF NamedDoes
<1>2. CASE Delete(t)
  <2>1. (\E f, r : Turn(t, f, r) /\ DeleteDoes(t, f, r)) /\ th[t].pc \in {"delete", "delete2"} /\ NamedDoes(t)
    BY <1>2, DeleteTurn
  <2> QED
    BY <2>1 DEF NamedDoes
<1>3. CASE CreateFile(t) \/ CreateDir(t) \/ GetFileDirParms(t) \/ SetFileDirParms(t) \/ MoveAndRename(t)
  <2>1. NamedDoes(t) /\ th[t].pc \notin {"isdir", "delete"}
    BY <1>3, CreateFileTurn, CreateDirTurn, GetFileDirParmsTurn, SetFileDirParmsTurn, MoveAndRenameTurn
  <2> QED
    BY <2>1 DEF NamedDoes
<1>4. CASE \/ OpenFork(t) \/ AddOpenedFork(t) \/ SetForkParms(t) \/ CloseFork(t) \/ RemoveOpenedFork(t)
           \/ Lock(t) \/ Unlock(t) \/ WriteExt(t) \/ ReadExt(t)
  <2>1. place' = place /\ kind' = kind /\ th[t].pc \notin {"isdir", "delete"}
    BY <1>4 DEF OpenFork, AddOpenedFork, SetForkParms, CloseFork, RemoveOpenedFork, Lock, Unlock, WriteExt, ReadExt,
       At, server
  <2>2. PICK f, r : Turn(t, f, r)
    BY TurningIs
  <2>3. ASSUME NEW u \in Threads \ {t}, th'[u].pc = "delete", ~th'[u].moved
        PROVE  th'[u] = th[u]
    <3>1. th[u] \in Frame
      BY DEF TypeOK
    <3>2. [th[u] EXCEPT !.moved = TRUE].moved = TRUE
      BY <3>1 DEF Frame
    <3> QED
      BY <2>2, <2>3, <3>2 DEF Turn, Moves
  <2>4. Sees(t)
    BY <2>1, <2>3 DEF Sees, Here
  <2> QED
    BY <2>1, <2>4
<1> QED
  BY <1>1, <1>2, <1>3, <1>4 DEF Turning

\* The other steps of a thread change nothing of the server's names.
LEMMA OtherStep ==
  ASSUME TypeOK, GoodFrames, NEW t \in Threads, Call(t) \/ Return(t) \/ VolClose(t) \/ RemoveForkList(t)
  PROVE  \E g : /\ th' = [th EXCEPT ![t] = g] /\ place' = place /\ kind' = kind
                /\ g.pc # "delete" /\ (g.pc = "return" => g.op = "unmount")
<1>1. CASE Call(t)
  <2>1. PICK g : NewFrame(t, g)
    BY <1>1, CallIs
  <2> QED
    BY <2>1 DEF NewFrame, Running, server
<1>2. CASE Return(t)
  <2>1. Idle.pc = "idle"
    BY IdleIs DEF StartOf
  <2> QED
    BY <1>2, <2>1 DEF Return, Goto, server
<1>3. CASE VolClose(t) \/ RemoveForkList(t)
  <2>1. UnmountGoes(t, "freelist") \/ UnmountGoes(t, "return")
    BY <1>3, VolCloseGoes, RemoveForkListGoes
  <2>2. place' = place /\ kind' = kind
    BY <1>3 DEF VolClose, RemoveForkList, server
  <2> QED
    BY <2>1, <2>2 DEF UnmountGoes
<1> QED
  BY <1>1, <1>2, <1>3

LEMMA KindStep ==
  ASSUME FilesInv, DeletesRight, RemovesTheRightKind, [Next]_vars
  PROVE  DeletesRight' /\ RemovesTheRightKind'
<1>1. TypeOK /\ GoodFrames
  BY DEF FilesInv
<1>2. ASSUME NEW t \in Threads, Turning(t)
      PROVE  DeletesRight' /\ RemovesTheRightKind'
  <2>1. PICK f, r :
          /\ Turn(t, f, r)
          /\ th[t].pc = "isdir" => IsDirDoes(t, f) /\ place' = place /\ kind' = kind
          /\ th[t].pc = "delete" => DeleteDoes(t, f, r)
    BY <1>1, <1>2, TurningSees, TurningIs
  <2>2. Sees(t)
    BY <1>1, <1>2, TurningSees
  <2>3. PICK g : g = After(f, r)
    OBVIOUS
  <2>4. /\ th'[t] = g /\ Good(t, f) /\ Good(t, g) /\ Running(f) /\ f.op = th[t].op /\ f.pc = th[t].pc /\ f.name = th[t].name
        /\ f.moved = th[t].moved /\ Same(f, g) /\ LookOrder(f, g) /\ Moves(t, g) /\ Possible(f, r) /\ f \in Frame
    BY <2>1, <2>3, TurnFrame DEF Turn, Asked, Good
  <2>5. ASSUME NEW u \in Threads, th'[u].pc = "delete", ~th'[u].moved, th'[u].fault = <<>>
        PROVE  Named(place', th'[u].name) = Null
                 \/ (kind'[Named(place', th'[u].name)] = "dir" <=> th'[u].op = "rmdir")
    <3>1. CASE u # t
      <4>1. /\ th'[u] = th[u] /\ Named(place', th[u].name) = Here(th[u].name)
            /\ Here(th[u].name) # Null => (kind'[Here(th[u].name)] = "dir" <=> kind[Here(th[u].name)] = "dir")
        BY <2>2, <2>5, <3>1 DEF Sees
      <4> QED
        BY <2>5, <4>1 DEF DeletesRight
    <3>2. CASE u = t
      <4>1. f.pc = "isdir" /\ f.op \in {"unlink", "rmdir"} /\ (f.isdir <=> f.op = "rmdir") /\ g.fault = f.fault
        BY <2>4, <2>5, <3>2 DEF LookOrder
      <4>2. place' = place /\ kind' = kind /\ IsDirDoes(t, f)
        BY <2>1, <2>4, <4>1
      <4>3. (Here(f.name) = Null /\ ~f.isdir) \/ (Here(f.name) # Null /\ (f.isdir <=> kind[Here(f.name)] = "dir"))
        BY <2>4, <2>5, <3>2, <4>1, <4>2 DEF IsDirDoes
      <4> QED
        BY <2>4, <3>2, <4>1, <4>2, <4>3 DEF Same, Here
    <3> QED
      BY <3>1, <3>2
  <2>6. ASSUME NEW u \in Threads, th'[u].pc = "return", th'[u].res = "ok", th'[u].acted, ~th'[u].moved, th'[u].fault = <<>>
        PROVE  /\ th'[u].op = "unlink" => th'[u].hit # "dir"
               /\ th'[u].op = "rmdir" => th'[u].hit = "dir"
    <3>1. CASE u # t
      <4>1. th'[u] = th[u]
        BY <1>1, <2>4, <2>6, <3>1, OthersStay
      <4> QED
        BY <2>6, <4>1 DEF RemovesTheRightKind, Returning, At
    <3>2. CASE u = t /\ f.op \in {"unlink", "rmdir"}
      <4>1. f.pc \in {"isdir", "delete"} /\ r \in Replies
        BY <2>4, <3>2 DEF Good, Placed, PcsOf, Possible
      <4>2. f.pc = "delete"
        BY <2>3, <2>4, <2>6, <3>2, <4>1, LookEnds
      <4>3. r = "ok" /\ Same(f, g) /\ g.fault = f.fault
        BY <2>3, <2>4, <2>6, <3>2, <4>1, <4>2, DeleteEnds
      <4>4. Here(f.name) # Null /\ f.hit = kind[Here(f.name)] /\ f.fault = th[t].fault
        BY <2>1, <2>4, <4>2, <4>3 DEF DeleteDoes
      <4>5. kind[Here(f.name)] = "dir" <=> f.op = "rmdir"
        BY <2>4, <2>6, <3>2, <4>2, <4>3, <4>4 DEF DeletesRight, Same
      <4> QED
        BY <2>4, <3>2, <4>4, <4>5 DEF Same
    <3> QED
      BY <2>4, <3>1, <3>2 DEF Same
  <2>7. DeletesRight'
    BY <2>5 DEF DeletesRight, Here
  <2>8. RemovesTheRightKind'
    BY <2>6 DEF RemovesTheRightKind, Returning, At
  <2> QED
    BY <2>7, <2>8
<1>3. ASSUME NEW t \in Threads, Call(t) \/ Return(t) \/ VolClose(t) \/ RemoveForkList(t)
      PROVE  DeletesRight' /\ RemovesTheRightKind'
  <2>1. PICK g : /\ th' = [th EXCEPT ![t] = g] /\ place' = place /\ kind' = kind
                 /\ g.pc # "delete" /\ (g.pc = "return" => g.op = "unmount")
    BY <1>1, <1>3, OtherStep
  <2>2. /\ th'[t] = g /\ \A u \in Threads \ {t} : th'[u] = th[u]
    BY <1>1, <2>1 DEF TypeOK
  <2>3. DeletesRight'
    BY <2>1, <2>2 DEF DeletesRight, Here
  <2>4. RemovesTheRightKind'
    BY <2>1, <2>2 DEF RemovesTheRightKind, Returning, At
  <2> QED
    BY <2>3, <2>4
<1>4. CASE GoDown \/ UNCHANGED vars
  <2>1. UNCHANGED <<th, place, kind>>
    BY <1>4 DEF GoDown, vars, server
  <2> QED
    BY <2>1 DEF DeletesRight, Here, RemovesTheRightKind, Returning, At
<1> QED
  BY <1>2, <1>3, <1>4 DEF Next, Step, Turning

\* unlink() never removes a directory and rmdir() removes nothing else: what is_dir() was told
\* still holds when the server performs the deletion, or the call knows that it may not.
THEOREM RemovalsAreRight == Spec => []RemovesTheRightKind
<1>1. Init => FilesInv /\ DeletesRight /\ RemovesTheRightKind
  <2> HAVE Init
  <2>1. FilesInv /\ th = [t \in Threads |-> Idle]
    BY FilesInitInv DEF Init
  <2>2. Idle.pc = "idle"
    BY IdleIs DEF StartOf
  <2> QED
    BY <2>1, <2>2 DEF DeletesRight, RemovesTheRightKind, Returning, At
<1>2. FilesInv /\ DeletesRight /\ RemovesTheRightKind /\ [Next]_vars
        => (FilesInv /\ DeletesRight /\ RemovesTheRightKind)'
  BY FilesStep, KindStep
<1> QED
  BY <1>1, <1>2, PTL DEF Spec

-----------------------------------------------------------------------------
(* The list of open forks holds structures that are alive. *)

\* A call on a structure of its own that has not listed it yet
Fresh(f) == Own(f) /\ f.pc \in Before \cup {"add"}

\* It has, and has not taken it off.
Listing(f) == Own(f) /\ f.pc \in {"zero", "io", "close", "unlist"}

Live == ToSet(list) \ orphans

\* Nothing is listed twice; what is listed and has not been lost is alive: structures of
\* open files, and those of calls from the request that lists them to the one that takes
\* them off.
ListInv ==
  /\ IsInjective(list) /\ orphans \subseteq ToSet(list) /\ ListedAreLive
  /\ \A t \in Threads : Fresh(th[t]) => th[t].fp \notin Live
  /\ \A t \in Threads : Listing(th[t]) => th[t].fp \in Live
  /\ handles \subseteq Live

MemInv == Intact => ListInv

\* What a request does to the list
ListGoes(t) ==
  \/ th[t].pc \notin {"add", "unlist"} /\ list' = list
  \/ /\ th[t].pc = "add" /\ list' = <<th[t].fp>> \o list
     /\ th[t].fp \in ToSet(list) => "listed_twice" \in trouble'
  \/ th[t].pc = "unlist" /\ list' = RemoveFirst(list, th[t].fp)

LEMMA TurningList ==
  ASSUME TypeOK, GoodFrames, NEW t \in Threads, Turning(t)
  PROVE  ListGoes(t)
<1>1. CASE AddOpenedFork(t)
  BY <1>1, AddOpenedForkTurn DEF ListGoes
<1>2. CASE RemoveOpenedFork(t)
  BY <1>2, RemoveOpenedForkTurn DEF ListGoes
<1>3. CASE ~AddOpenedFork(t) /\ ~RemoveOpenedFork(t)
  BY <1>3 DEF Turning, ListGoes, At, OpenFork, SetForkParms, CloseFork, Lock, Unlock, WriteExt, ReadExt, CreateFile,
     CreateDir, GetFileDirParms, IsDir, SetFileDirParms, Delete, MoveAndRename
<1> QED
  BY <1>1, <1>2, <1>3

\* The list after a request, with what has become of its members
LEMMA TurnLive ==
  ASSUME FilesInv, ListInv, NEW t \in Threads, NEW f, NEW r, Turn(t, f, r), ListGoes(t), Intact'
  PROVE  /\ IsInjective(list') /\ orphans' \subseteq ToSet(list') /\ orphans \subseteq orphans'
         /\ Live' \subseteq Live \cup (IF f.pc = "add" THEN {f.fp} ELSE {})
         /\ Live \subseteq Live' \/ (Live \subseteq Live' \cup {f.fp} /\ Own(f) /\ (f.pc = "unlist" \/ After(f, r).pc = "return"))
         /\ f.pc = "add" /\ (After(f, r).pc # "return" \/ f.op = "open") => f.fp \in Live'
         /\ f.fp \in Live' => heap' = heap /\ ~(After(f, r).pc = "return" /\ f.fp \in Threads)
<1>1. PICK g : g = After(f, r)
  OBVIOUS
<1>2. TypeOK /\ GoodFrames
  BY DEF FilesInv
<1>3. /\ Keep(f, g, list') /\ f.pc = th[t].pc /\ f.fp = th[t].fp /\ f.op = th[t].op /\ Good(t, f) /\ Running(f)
      /\ ForkOrder(f, r, g) /\ g.op = f.op /\ Good(t, g)
  BY <1>1, TurnFrame DEF Turn, Same
<1> DEFINE free == OpenFailed(f, g) \/ (OpenDone(f, g) /\ f.op \in Daemons) \/ (f.op = "truncate" /\ f.pc = "unlist")
           ends == g.pc = "return" /\ f.fp \in Threads
<1>4. f.pc = "add" => ~ends
  <2> HAVE f.pc = "add"
  <2>1. f.op \in OnStack => g = Next_(f, "io")
    BY <1>1 DEF After, AfterReadlink, AfterSymlink, OnStack, Opening
  <2>2. f \in Frame /\ "io" \in PCs
    BY <1>3 DEF Good, PCs
  <2>3. f.op \in OnStack => g.pc = "io"
    BY <2>1, <2>2, NextIs DEF IsNext
  <2>4. f.op \notin OnStack => f.fp \notin Threads
    BY <1>3, FilesConstants DEF Good, Placed
  <2> QED
    BY <2>3, <2>4 DEF ends
<1>5. /\ free \/ ends => orphans' = (orphans \ {f.fp}) \cup ({f.fp} \cap ToSet(list'))
      /\ ~free /\ ~ends => orphans' = IF f.pc = "add" THEN orphans \ {f.fp} ELSE orphans
      /\ ~free /\ f.pc # "unlist" => heap' = heap
  <2>1. /\ heap' = CASE free -> [heap EXCEPT ![f.fp] = "free"]
                     [] f.op = "release" /\ f.pc = "unlist" -> [heap EXCEPT ![f.fp] = "leaked"]
                     [] OTHER -> heap
        /\ orphans' = CASE free \/ ends -> (orphans \ {f.fp}) \cup ({f.fp} \cap ToSet(list'))
                        [] f.pc = "add" /\ ~free -> orphans \ {f.fp}
                        [] OTHER -> orphans
    BY <1>3 DEF Keep
  <2> HIDE DEF free, ends
  <2>2. CASE ~free /\ ~ends
    BY <2>1, <2>2
  <2>3. CASE free
    <3>1. f.pc = "add" /\ ~free <=> FALSE
      BY <2>3
    <3> QED
      BY <2>1, <2>3, <3>1
  <2>4. CASE ends /\ ~free
    <3>1. f.pc # "add"
      BY <1>4, <2>4
    <3> QED
      BY <2>1, <2>4, <3>1
  <2> QED
    BY <2>2, <2>3, <2>4
<1>6. IsInjective(list) /\ orphans \subseteq ToSet(list) /\ list \in Seq(Blocks \cup Threads)
  BY <1>2 DEF ListInv, TypeOK
<1>7. free => Own(f) /\ (f.pc = "unlist" \/ g.pc = "return")
  BY <1>3 DEF OpenFailed, OpenDone, Own, Daemons, Opening
<1>8. ends => Own(f)
  <2>1. f.fp \in Threads => f.op \in OnStack
    BY <1>3, FilesConstants DEF Good, Placed, Frame
  <2> QED
    BY <1>3, <2>1 DEF Own
<1>9. ends <=> g.pc = "return" /\ f.fp \in Threads
  OBVIOUS
<1> HIDE DEF free, ends
<1>10. SUFFICES /\ IsInjective(list') /\ orphans' \subseteq ToSet(list') /\ orphans \subseteq orphans'
                /\ Live' \subseteq (IF f.pc = "add" THEN Live \cup {f.fp} ELSE Live)
                /\ Live \subseteq Live' \/ (Live \subseteq Live' \cup {f.fp} /\ Own(f) /\ (f.pc = "unlist" \/ g.pc = "return"))
                /\ f.pc = "add" /\ (g.pc # "return" \/ f.op = "open") => f.fp \in Live'
                /\ f.fp \in Live' => heap' = heap /\ ~ends
  BY <1>1, <1>9
<1>11. CASE f.pc \notin {"add", "unlist"}
  <2>1. list' = list
    BY <1>3, <1>11 DEF ListGoes
  <2>2. CASE free \/ ends
    <3>1. orphans' = (orphans \ {f.fp}) \cup ({f.fp} \cap ToSet(list))
      BY <1>5, <2>1, <2>2
    <3>2. Live' = Live \ {f.fp}
      BY <2>1, <3>1 DEF Live
    <3> QED
      BY <1>6, <1>7, <1>8, <1>11, <1>9, <2>1, <2>2, <3>1, <3>2
  <2>3. CASE ~free /\ ~ends
    <3>1. orphans' = orphans /\ heap' = heap
      BY <1>5, <1>11, <2>3
    <3>2. Live' = Live
      BY <2>1, <3>1 DEF Live
    <3> QED
      BY <1>1, <1>6, <1>11, <2>1, <2>3, <3>1, <3>2
  <2> QED
    BY <2>2, <2>3
<1>12. CASE f.pc = "add"
  <2>1. list' = <<f.fp>> \o list /\ f.fp \notin ToSet(list)
    BY <1>3, <1>12 DEF ListGoes, Intact
  <2>2. f.fp \in Blocks \cup Threads
    BY <1>3, <1>12 DEF Good, Placed, PcsOf, AllOps, OnBlock, OnStack, Opening, Running
  <2>3. IsInjective(list') /\ ToSet(list') = ToSet(list) \cup {f.fp}
    BY <1>6, <2>1, <2>2, PrependIs
  <2>5. CASE free
    <3>1. g.pc = "return" /\ f.op # "open"
      BY <1>12, <2>5 DEF free, OpenFailed, OpenDone, Daemons
    <3>2. orphans' = (orphans \ {f.fp}) \cup {f.fp}
      BY <1>5, <2>3, <2>5
    <3>3. Live' = Live
      BY <1>6, <2>1, <2>3, <3>2 DEF Live
    <3> QED
      BY <1>1, <1>6, <1>12, <2>1, <2>3, <3>1, <3>2, <3>3 DEF Live
  <2>6. CASE ~free
    <3>1. orphans' = orphans \ {f.fp} /\ heap' = heap
      BY <1>5, <1>12, <1>4, <2>6
    <3>2. Live' = Live \cup {f.fp}
      BY <1>6, <2>1, <2>3, <3>1 DEF Live
    <3>3. orphans' = orphans
      BY <1>6, <2>1, <3>1
    <3> QED
      BY <1>6, <1>12, <2>3, <1>4, <3>1, <3>2, <3>3
  <2> QED
    BY <2>5, <2>6
<1>13. CASE f.pc = "unlist"
  <2>1. list' = RemoveFirst(list, f.fp)
    BY <1>3, <1>13 DEF ListGoes
  <2>2. IsInjective(list') /\ ToSet(list') = ToSet(list) \ {f.fp}
    BY <1>6, <2>1, RemoveFirstIs
  <2>3. Own(f) /\ Listing(th[t])
    BY <1>3, <1>13 DEF Good, Placed, PcsOf, AllOps, Own, Listing, OnStack, Opening, Running
  <2>4. f.fp \notin orphans
    BY <1>3, <2>3 DEF ListInv, Live
  <2>5. orphans' = orphans
    BY <1>5, <1>13, <2>2, <2>4
  <2>6. Live' = Live \ {f.fp}
    BY <2>2, <2>5 DEF Live
  <2> QED
    BY <1>1, <1>6, <1>13, <2>2, <2>3, <2>4, <2>5, <2>6
<1> QED
  BY <1>11, <1>12, <1>13

LEMMA TurningLive ==
  ASSUME FilesInv, MemInv, NEW t \in Threads, Turning(t), Intact'
  PROVE  ListInv'
<1>1. TypeOK /\ GoodFrames /\ HeapInv /\ TypeOK'
  BY TurningInv DEF FilesInv
<1>2. PICK f, r : Turn(t, f, r)
  BY <1>1, TurningIs
<1>3. trouble \subseteq trouble'
  BY <1>1, TurningIs
<1>4. Intact /\ ListInv /\ Sane
  BY <1>3 DEF MemInv, Intact, Sane
<1>5. PICK g : g = After(f, r)
  OBVIOUS
<1>6. /\ IsInjective(list') /\ orphans' \subseteq ToSet(list')
      /\ Live' \subseteq Live \cup (IF f.pc = "add" THEN {f.fp} ELSE {})
      /\ Live \subseteq Live' \/ (Live \subseteq Live' \cup {f.fp} /\ Own(f) /\ (f.pc = "unlist" \/ g.pc = "return"))
      /\ f.pc = "add" /\ (g.pc # "return" \/ f.op = "open") => f.fp \in Live'
      /\ f.fp \in Live' => heap' = heap /\ ~(g.pc = "return" /\ f.fp \in Threads)
  BY <1>1, <1>2, <1>4, <1>5, TurnLive, TurningList
<1>7. /\ th'[t] = g /\ Good(t, f) /\ Good(t, g) /\ Running(f) /\ Running(th[t])
      /\ f.op = th[t].op /\ f.fp = th[t].fp /\ f.pc = th[t].pc /\ g.op = f.op /\ g.fp = f.fp
      /\ ForkOrder(f, r, g) /\ Keep(f, g, list') /\ Moves(t, g)
  BY <1>2, <1>5, TurnFrame DEF Turn, Same
<1>8. \A u \in Threads \ {t} : th'[u].op = th[u].op /\ th'[u].fp = th[u].fp /\ th'[u].pc = th[u].pc
  BY <1>1, <1>7, OthersStay
<1>9. /\ \A u \in Threads : Running(th[u]) /\ th[u].fp \in Blocks => heap[th[u].fp] = "used"
      /\ \A u \in Threads : Own(th[u]) => /\ th[u].fp \notin handles
                                          /\ \A v \in Threads \ {u} : Running(th[v]) => th[v].fp # th[u].fp
  BY <1>1, <1>4 DEF HeapInv
<1>10. \A b \in Blocks : heap'[b] # heap[b] => b = f.fp
  BY <1>1, <1>2, TurnMemory
<1>11. Own(f) => Own(th[t]) /\ f.fp \notin handles
  BY <1>7, <1>9 DEF Own
<1>12. \A u \in Threads \ {t} : Own(th'[u]) => Own(th[u]) /\ th[u].fp # f.fp
  BY <1>7, <1>8, <1>9 DEF Own, Running
<1>13. ListedAreLive'
  <2>1. ASSUME NEW x \in Live'
        PROVE  IF x \in Threads THEN th'[x].fp = x /\ th'[x].pc # "return" ELSE heap'[x] = "used"
    <3>1. x \in Blocks \cup Threads
      <4>1. list' \in Seq(Blocks \cup Threads)
        BY <1>1 DEF TypeOK
      <4> QED
        BY <2>1, <4>1 DEF Live, ToSet
    <3>2. CASE x = f.fp
      <4>1. x \in Threads => x = t
        BY <1>7, <3>2, FilesConstants DEF Good, Placed, Running
      <4> QED
        BY <1>6, <1>7, <1>9, <2>1, <3>1, <3>2, <4>1
    <3>3. CASE x # f.fp
      <4>1. x \in Live
        BY <1>6, <2>1, <3>3
      <4>2. IF x \in Threads THEN th[x].fp = x /\ th[x].pc # "return" ELSE heap[x] = "used"
        BY <1>4, <4>1 DEF ListInv, ListedAreLive, Live, At
      <4> QED
        BY <1>7, <1>8, <1>10, <3>1, <3>3, <4>2
    <3> QED
      BY <3>2, <3>3
  <2> QED
    BY <2>1 DEF ListedAreLive, Live, At
<1>14. ASSUME NEW u \in Threads, Fresh(th'[u])
       PROVE  th'[u].fp \notin Live'
  <2>1. CASE u = t
    <3>1. f.op \in OnBlock \cup OnStack /\ Own(f)
      BY <1>7, <1>14, <2>1 DEF Fresh, Own, OnBlock
    <3>2. f.pc \in Before
      BY <1>7, <1>14, <2>1, <3>1 DEF Fresh, ForkOrder, Before
    <3>3. Fresh(th[t])
      BY <1>7, <1>11, <3>1, <3>2 DEF Fresh
    <3>4. f.fp \notin Live /\ f.pc # "add"
      BY <1>4, <1>7, <3>2, <3>3 DEF ListInv, Before
    <3> QED
      BY <1>6, <1>7, <2>1, <3>4
  <2>2. CASE u # t
    <3>1. Fresh(th[u]) /\ th[u].fp # f.fp
      BY <1>8, <1>12, <1>14, <2>2 DEF Fresh
    <3> QED
      BY <1>4, <1>6, <1>8, <2>2, <3>1 DEF ListInv
  <2> QED
    BY <2>1, <2>2
<1>15. ASSUME NEW u \in Threads, Listing(th'[u])
       PROVE  th'[u].fp \in Live'
  <2>1. CASE u = t
    <3>1. f.op \in OnBlock \cup OnStack /\ Own(f) /\ g.op \notin Ranged /\ Running(g)
      BY <1>7, <1>15, <2>1 DEF Listing, Own, OnBlock, OnStack, Opening, Ranged
    <3>2. g.pc = "io" => g.op \in OnStack
      BY <1>7, <1>15, <2>1, <3>1 DEF Good, Placed, PcsOf, Listing, Own, OnStack, Opening
    <3>3. f.pc \in {"add", "zero", "io", "close"} /\ g.pc \notin {"return"} /\ f.pc # "unlist"
      BY <1>7, <1>15, <2>1, <3>1, <3>2 DEF Listing, ForkOrder
    <3>4. f.pc # "add" => f.fp \in Live
      BY <1>4, <1>7, <1>11, <3>1, <3>3 DEF ListInv, Listing
    <3> QED
      BY <1>6, <1>7, <2>1, <3>3, <3>4
  <2>2. CASE u # t
    <3>1. Listing(th[u]) /\ th[u].fp # f.fp
      BY <1>8, <1>12, <1>15, <2>2 DEF Listing
    <3> QED
      BY <1>4, <1>6, <1>8, <2>2, <3>1 DEF ListInv
  <2> QED
    BY <2>1, <2>2
<1>16. handles' \subseteq Live'
  <2>1. handles \subseteq Live'
    BY <1>4, <1>6, <1>11 DEF ListInv
  <2>2. OpenDone(f, g) /\ f.op = "open" => f.pc = "add"
    BY <1>7 DEF OpenDone, Good, Placed, PcsOf
  <2>3. handles' = IF OpenDone(f, g) /\ f.op = "open" THEN handles \cup {f.fp} ELSE handles
    BY <1>7 DEF Keep
  <2> QED
    BY <1>6, <2>1, <2>2, <2>3
<1> QED
  BY <1>6, <1>13, <1>14, <1>15, <1>16 DEF ListInv

LEMMA CallLive ==
  ASSUME FilesInv, MemInv, NEW t \in Threads, Call(t), Intact'
  PROVE  ListInv'
<1>1. TypeOK /\ GoodFrames
  BY DEF FilesInv
<1>2. PICK g : NewFrame(t, g) /\ (Uses(g) \/ Allocates(g) \/ Releases(g) \/ UsesId(g) \/ Unmounts(g))
  BY <1>1, CallIs
<1>3. /\ th[t].pc = "idle" /\ th'[t] = g /\ Good(t, g) /\ Running(g) /\ \A u \in Threads \ {t} : th'[u] = th[u]
      /\ trouble' = trouble /\ (g.op = "release" => g.pc = "close")
  BY <1>1, <1>2 DEF NewFrame, TypeOK
<1>4. Intact /\ ListInv
  BY <1>3 DEF MemInv, Intact
<1>5. th[t].fp = Null
  BY <1>1, <1>3, FrameOf, IdleIs DEF Good, Placed, StartOf
<1>6. /\ list' = list /\ orphans' = orphans /\ Live' = Live
      /\ handles' \subseteq handles
      /\ \A b \in Blocks : heap'[b] = heap[b] \/ heap'[b] = "used"
  BY <1>1, <1>2 DEF Uses, Allocates, Releases, UsesId, Unmounts, memory, Live, TypeOK
<1>7. \A x \in Live : IF x \in Threads THEN th[x].fp = x /\ th[x].pc # "return" ELSE x \in Blocks /\ heap[x] = "used"
  BY <1>1, <1>4 DEF ListInv, ListedAreLive, Live, At, TypeOK, ToSet
<1>8. t \notin Live
  BY <1>5, <1>7, FilesConstants
<1>9. ListedAreLive'
  <2>1. \A x \in Live : IF x \in Threads THEN th'[x].fp = x /\ th'[x].pc # "return" ELSE heap'[x] = "used"
    BY <1>3, <1>6, <1>7, <1>8
  <2> QED
    BY <1>6, <2>1 DEF ListedAreLive, Live, At
<1>10. Fresh(g) => g.fp \notin Live
  <2> HAVE Fresh(g)
  <2>1. g.op \notin {"release", "read", "write", "unmount"} \cup OnId
    BY <1>3 DEF Fresh, Own, Before, OnId, Opening, OnStack
  <2>2. CASE Allocates(g)
    <3>1. g.fp \in Blocks /\ heap[g.fp] = "free"
      BY <1>3, <2>2 DEF Allocates, Good, Placed, OnBlock
    <3> QED
      BY <1>7, <3>1, FilesConstants
  <2>3. CASE Uses(g)
    <3>1. g.op \in OnStack
      BY <2>1, <2>3 DEF Uses, Fresh, Own, OnBlock
    <3> QED
      BY <1>3, <1>8, <3>1 DEF Good, Placed
  <2> QED
    BY <1>2, <2>1, <2>2, <2>3 DEF Releases, UsesId, Unmounts
<1>11. Listing(g) => g.fp \in Live
  <2> HAVE Listing(g)
  <2>1. g.pc \notin Before /\ g.op \notin {"read", "write", "unmount"} \cup OnId
    BY DEF Listing, Own, Before, OnId, Opening, OnStack
  <2>2. ~Uses(g) /\ ~Allocates(g)
    BY <2>1 DEF Uses, Allocates, Listing, Own, OnBlock, Before
  <2> QED
    BY <1>2, <1>4, <2>1, <2>2 DEF Releases, UsesId, Unmounts, ListInv
<1> QED
  BY <1>3, <1>4, <1>6, <1>9, <1>10, <1>11 DEF ListInv

LEMMA ReturnLive ==
  ASSUME FilesInv, MemInv, NEW t \in Threads, Return(t), Intact'
  PROVE  ListInv'
<1>1. TypeOK /\ GoodFrames
  BY DEF FilesInv
<1>2. /\ th[t].pc = "return" /\ th'[t] = Idle /\ \A u \in Threads \ {t} : th'[u] = th[u]
      /\ UNCHANGED memory /\ trouble' = trouble
  BY <1>1 DEF Return, At, Goto, TypeOK
<1>3. ListInv
  BY <1>2 DEF MemInv, Intact
<1>4. Idle.pc = "idle"
  BY DEF Idle
<1>5. list' = list /\ orphans' = orphans /\ Live' = Live /\ handles' = handles /\ heap' = heap
  BY <1>2 DEF memory, Live
<1>6. \A x \in Live : IF x \in Threads THEN th[x].fp = x /\ th[x].pc # "return" ELSE heap[x] = "used"
  BY <1>3 DEF ListInv, ListedAreLive, Live, At
<1>7. ListedAreLive'
  <2>1. \A x \in Live : IF x \in Threads THEN th'[x].fp = x /\ th'[x].pc # "return" ELSE heap[x] = "used"
    BY <1>2, <1>6
  <2> QED
    BY <1>5, <2>1 DEF ListedAreLive, Live, At
<1>8. ~Fresh(Idle) /\ ~Listing(Idle)
  BY <1>4 DEF Fresh, Listing, Own, Running
<1> QED
  BY <1>2, <1>3, <1>5, <1>7, <1>8 DEF ListInv

\* Unmounting empties the list.  When nothing on it was in use, no structure of an open
\* file or of a call was on it.
LEMMA UnmountLive ==
  ASSUME FilesInv, MemInv, NEW t \in Threads, VolClose(t) \/ RemoveForkList(t), Intact'
  PROVE  ListInv'
<1>1. TypeOK /\ GoodFrames
  BY DEF FilesInv
<1>2. PICK g : /\ th'[t] = g /\ g.op = "unmount" /\ g.fp = Null /\ th[t].op = "unmount"
               /\ \A u \in Threads \ {t} : th'[u] = th[u]
  <2>1. UnmountGoes(t, "freelist") \/ UnmountGoes(t, "return")
    BY <1>1, VolCloseGoes, RemoveForkListGoes
  <2> QED
    BY <1>1, <2>1 DEF UnmountGoes, TypeOK
<1>3. trouble \subseteq trouble'
  BY DEF VolClose, RemoveForkList, Now
<1>4. ListInv
  BY <1>3 DEF MemInv, Intact
<1>5. ~Fresh(g) /\ ~Listing(g)
  BY <1>2 DEF Fresh, Listing, Own, Opening, OnStack
<1>6. \A x \in Live : IF x \in Threads THEN th[x].fp = x /\ th[x].pc # "return" ELSE heap[x] = "used"
  BY <1>4 DEF ListInv, ListedAreLive, Live, At
<1>7. th[t].fp = Null
  BY <1>1, <1>2, FrameOf DEF Good, Placed, OnBlock, OnStack, Opening
<1>8. CASE VolClose(t)
  <2>1. list' = list /\ orphans' = orphans /\ Live' = Live /\ handles' = handles /\ heap' = heap
    BY <1>8 DEF VolClose, memory, Live
  <2>2. t \notin Live
    BY <1>6, <1>7, FilesConstants
  <2>3. \A x \in Live : IF x \in Threads THEN th'[x].fp = x /\ th'[x].pc # "return" ELSE heap[x] = "used"
    BY <1>2, <1>6, <2>2
  <2>4. ListedAreLive'
    BY <2>1, <2>3 DEF ListedAreLive, Live, At
  <2> QED
    BY <1>2, <1>4, <1>5, <2>1, <2>4 DEF ListInv
<1>9. CASE RemoveForkList(t)
  <2>1. /\ ToSet(list) \cap orphans = {}
        /\ ToSet(list) \cap (handles \cup {th[u].fp : u \in Threads}) = {}
    BY <1>9 DEF RemoveForkList, Now, Intact
  <2>2. list' = <<>> /\ orphans' = orphans /\ handles' = handles
    BY <1>9 DEF RemoveForkList
  <2>3. orphans = {} /\ handles = {}
    BY <1>4, <2>1 DEF ListInv, Live
  <2>4. ToSet(list') = {} /\ IsInjective(list')
    BY <2>2 DEF ToSet, IsInjective
  <2>5. Live' = {}
    BY <2>4 DEF Live
  <2>6. ListedAreLive'
    BY <2>4 DEF ListedAreLive
  <2>7. \A u \in Threads : ~Listing(th'[u])
    BY <1>2, <1>4, <1>5, <2>1 DEF ListInv, Live
  <2> QED
    BY <2>2, <2>3, <2>4, <2>5, <2>6, <2>7 DEF ListInv
<1> QED
  BY <1>8, <1>9

LEMMA GoDownLive ==
  ASSUME FilesInv, MemInv, GoDown \/ UNCHANGED vars, Intact'
  PROVE  ListInv'
<1>1. UNCHANGED <<memory, th, trouble>>
  BY DEF GoDown, vars, server, memory
<1>2. list' = list /\ orphans' = orphans /\ handles' = handles /\ heap' = heap /\ th' = th /\ Live' = Live
  BY <1>1 DEF memory, Live
<1>3. ListInv
  BY <1>1 DEF MemInv, Intact
<1> QED
  BY <1>2, <1>3 DEF ListInv, ListedAreLive, Live, Fresh, Listing, Own, Running, At

LEMMA InitLive ==
  ASSUME Init
  PROVE  ListInv
<1>1. PICK open \in SUBSET Blocks :
        /\ IsFiniteSet(open) /\ list = SetToSeq(open) /\ handles = open
        /\ heap = [b \in Blocks |-> IF b \in open THEN "used" ELSE "free"]
        /\ orphans = {} /\ th = [t \in Threads |-> Idle]
  BY DEF Init
<1>2. IsInjective(list) /\ ToSet(list) = open
  BY <1>1, SetToSeqIs
<1>3. Live = open
  BY <1>1, <1>2 DEF Live
<1>4. ListedAreLive
  BY <1>1, <1>2, FilesConstants DEF ListedAreLive
<1>5. ~Fresh(Idle) /\ ~Listing(Idle)
  BY DEF Fresh, Listing, Own, Running, Idle
<1> QED
  BY <1>1, <1>2, <1>3, <1>4, <1>5 DEF ListInv

LEMMA LiveStep ==
  ASSUME FilesInv, MemInv, [Next]_vars
  PROVE  MemInv'
<1> SUFFICES ASSUME Intact'
             PROVE  ListInv'
  BY DEF MemInv
<1>1. CASE GoDown \/ UNCHANGED vars
  BY <1>1, GoDownLive
<1>2. ASSUME NEW t \in Threads, Call(t)
      PROVE  ListInv'
  BY <1>2, CallLive
<1>3. ASSUME NEW t \in Threads, Step(t)
      PROVE  ListInv'
  <2>1. Turning(t) \/ Return(t) \/ VolClose(t) \/ RemoveForkList(t)
    BY <1>3 DEF Step, Turning
  <2> QED
    BY <2>1, TurningLive, ReturnLive, UnmountLive
<1> QED
  BY <1>1, <1>2, <1>3 DEF Next

\* What is on the list of open forks can be walked and freed: every structure on it is
\* allocated, or on the stack of a call that has not returned, but for those the code
\* frees or leaves behind while they are listed.  This is claimed until memory is used
\* that is not the call's, after which nothing is.
THEOREM ListedStructuresLive == Spec => [](Intact => ListedAreLive)
<1>1. Init => FilesInv /\ MemInv
  BY FilesInitInv, InitLive DEF MemInv
<1>2. FilesInv /\ MemInv /\ [Next]_vars => FilesInv' /\ MemInv'
  BY FilesStep, LiveStep
<1>3. MemInv => (Intact => ListedAreLive)
  BY DEF MemInv, ListInv
<1> QED
  BY <1>1, <1>2, <1>3, PTL DEF Spec

-----------------------------------------------------------------------------
(* Nothing the server has open is forgotten. *)

\* What a request does to the forks
ForksGo(t, f, r) ==
  \/ /\ f.pc \notin {"open", "close"} /\ forks' = forks /\ fork' = fork
     /\ f.pc = "zero" /\ OpenFailed(f, After(f, r)) => ~Intact'
  \/ f.pc = "open" /\ OpenForkDoes(t, f, r)
  \/ /\ f.pc = "close" /\ fork' = fork
     /\ \/ r = "ok" /\ forks' = [forks EXCEPT ![ForkOf(f)] = Null] /\ (InUse(ForkOf(f)) => ~Intact')
        \/ r # "ok" /\ "close_refused" \in trouble' /\ forks' = forks

\* and to ranges and what is in them
RangesGo(t, f, r) ==
  /\ \/ f.pc \notin {"lock", "unlock", "close"} /\ locks' = locks
     \/ f.pc = "lock" /\ LockDoes(f, r)
     \/ f.pc = "unlock" /\ UnlockDoes(f, r)
     \/ f.pc = "close" /\ locks' = locks
     \/ f.pc = "close" /\ r = "ok" /\ CloseForkDoes(ForkOf(f))
  /\ IF f.op = "write" /\ f.pc = "io" THEN WriteDoes(t, f, r) ELSE Tidies

LEMMA TurningForks ==
  ASSUME TypeOK, GoodFrames, NEW t \in Threads, Turning(t)
  PROVE  \E f, r : Turn(t, f, r) /\ ForksGo(t, f, r) /\ RangesGo(t, f, r)
<1>1. \A f, r : Turn(t, f, r) => f.pc = th[t].pc
  BY DEF Turn, Asked
<1>2. CASE OpenFork(t)
  BY <1>2, OpenForkTurn DEF ForksGo, RangesGo, Tidies
<1>3. CASE CloseFork(t)
  BY <1>3, CloseForkTurn DEF ForksGo, RangesGo, CloseForkDoes, Tidies, Intact
<1>4. CASE SetForkParms(t)
  <2>1. PICK r : Turn(t, th[t], r) /\ Tidies /\ (OpenFailed(th[t], After(th[t], r)) /\ th[t].op \in Daemons => "freed_twice" \in trouble')
    BY <1>4, SetForkParmsTurn DEF Tidies
  <2>2. th[t].pc = "zero" /\ forks' = forks /\ fork' = fork /\ locks' = locks
    BY <1>4, SetForkParmsTurn
  <2>3. OpenFailed(th[t], After(th[t], r)) => th[t].op \in Daemons
    <3>1. th[t].op \in AllOps /\ th[t].pc \in PcsOf(th[t].op)
      BY <2>2, FrameOf DEF Good, Placed, Running
    <3>2. th[t].op # "open"
      BY <2>2, <3>1 DEF PcsOf
    <3> QED
      BY <2>2, <3>2 DEF OpenFailed, Opening, Daemons
  <2>4. ForksGo(t, th[t], r) /\ RangesGo(t, th[t], r)
    <3> HIDE DEF Turn
    <3> QED
      BY <2>1, <2>2, <2>3 DEF ForksGo, RangesGo, Intact
  <2> QED
    BY <2>1, <2>4
<1>5. CASE Lock(t)
  BY <1>5, LockTurn DEF ForksGo, RangesGo, Tidies
<1>6. CASE Unlock(t)
  BY <1>6, UnlockTurn DEF ForksGo, RangesGo, Tidies
<1>7. CASE WriteExt(t)
  BY <1>7, WriteExtTurn DEF ForksGo, RangesGo, WriteDoes, Tidies
<1>8. CASE ReadExt(t)
  BY <1>8, ReadExtTurn DEF ForksGo, RangesGo, Tidies, server
<1>9. CASE CreateFile(t) \/ CreateDir(t) \/ GetFileDirParms(t) \/ SetFileDirParms(t) \/ MoveAndRename(t)
  BY <1>9, CreateFileTurn, CreateDirTurn, GetFileDirParmsTurn, SetFileDirParmsTurn, MoveAndRenameTurn DEF ForksGo, RangesGo, NamedDoes
<1>10. CASE IsDir(t) \/ Delete(t)
  BY <1>1, <1>10, IsDirTurn, DeleteTurn DEF ForksGo, RangesGo, NamedDoes
<1>11. CASE AddOpenedFork(t) \/ RemoveOpenedFork(t)
  BY <1>11, AddOpenedForkTurn, RemoveOpenedForkTurn DEF ForksGo, RangesGo, Tidies, server
<1> QED
  BY <1>2, <1>3, <1>4, <1>5, <1>6, <1>7, <1>8, <1>9, <1>10, <1>11 DEF Turning

\* Once the volume is closed or the connection gone the server has nothing open.
Shut == down \/ Closed => \A k \in ForkIds : forks[k] = Null

LEMMA ShutStep ==
  ASSUME FilesInv, Shut, [Next]_vars
  PROVE  Shut'
<1>1. TypeOK /\ GoodFrames /\ OneUnmount
  BY DEF FilesInv
<1>2. CASE GoDown \/ UNCHANGED vars
  BY <1>2 DEF GoDown, vars, server, Shut, Closed
<1>3. ASSUME NEW t \in Threads, Call(t)
      PROVE  Shut'
  <2>1. PICK g : NewFrame(t, g) /\ (Uses(g) \/ Allocates(g) \/ Releases(g) \/ UsesId(g) \/ Unmounts(g))
    BY <1>1, <1>3, CallIs
  <2>2. /\ th[t].pc = "idle" /\ th'[t] = g /\ (g.pc = "volclose" <=> g.op = "unmount")
        /\ forks' = forks /\ down' = down /\ \A u \in Threads \ {t} : th'[u] = th[u]
    BY <1>1, <2>1 DEF NewFrame, TypeOK, server
  <2>3. Closed' => Closed
    <3>1. CASE mounted' = mounted
      BY <2>2, <3>1 DEF Closed
    <3>2. CASE Unmounts(g)
      BY <2>2, <3>2 DEF Closed, Unmounts
    <3> QED
      BY <2>1, <3>1, <3>2 DEF Uses, Allocates, Releases, UsesId
  <2> QED
    BY <2>2, <2>3 DEF Shut
<1>4. ASSUME NEW t \in Threads, Return(t)
      PROVE  Shut'
  <2>1. /\ th[t].pc = "return" /\ th'[t] = Idle /\ \A u \in Threads \ {t} : th'[u] = th[u]
        /\ forks' = forks /\ down' = down /\ mounted' = mounted
    BY <1>1, <1>4 DEF Return, At, Goto, TypeOK, server
  <2> QED
    BY <2>1 DEF Shut, Closed
<1>5. ASSUME NEW t \in Threads, VolClose(t)
      PROVE  Shut'
  <2>1. \A k \in ForkIds : forks'[k] = Null
    BY <1>5 DEF VolClose, Shut
  <2> QED
    BY <2>1 DEF Shut
<1>6. ASSUME NEW t \in Threads, RemoveForkList(t)
      PROVE  Shut'
  <2>1. th[t].pc = "freelist" /\ \A u \in Threads \ {t} : th'[u] = th[u]
    BY <1>1, <1>6 DEF RemoveForkList, At, Goto, TypeOK
  <2>2. forks' = forks /\ down' = down /\ mounted' = mounted
    BY <1>6 DEF RemoveForkList, server
  <2> QED
    BY <2>1, <2>2 DEF Shut, Closed
<1>7. ASSUME NEW t \in Threads, Turning(t)
      PROVE  Shut'
  <2>1. PICK f, r : Turn(t, f, r) /\ ForksGo(t, f, r)
    BY <1>1, <1>7, TurningForks
  <2>2. mounted' = mounted /\ down' = down
    BY <1>1, <1>7, TurningIs
  <2>3. PICK g : g = After(f, r)
    OBVIOUS
  <2>4. Moves(t, g) /\ f.pc = th[t].pc /\ f.pc # "volclose"
    BY <2>1, <2>3, TurnFrame DEF Turn
  <2>5. Closed' => Closed
    <3>1. \A u \in Threads \ {t} : th'[u].pc = th[u].pc
      BY <1>1, <2>4, OthersStay
    <3> QED
      BY <2>2, <2>4, <3>1 DEF Closed
  <2>6. \A k \in ForkIds : forks[k] = Null => forks'[k] = Null \/ ~(down \/ Closed)
    <3>1. CASE f.pc = "close"
      BY <1>1, <2>1, <3>1 DEF ForksGo, TypeOK
    <3>2. CASE f.pc # "close"
      BY <2>1, <3>2 DEF ForksGo, OpenForkDoes
    <3> QED
      BY <3>1, <3>2
  <2> QED
    BY <2>2, <2>5, <2>6 DEF Shut
<1> QED
  <2>1. ASSUME NEW t \in Threads, Step(t)
        PROVE  Turning(t) \/ Return(t) \/ VolClose(t) \/ RemoveForkList(t)
    BY <2>1 DEF Step, Turning
  <2> QED
    BY <1>2, <1>3, <1>4, <1>5, <1>6, <1>7, <2>1 DEF Next

\* A structure is being taken off the list.
Unlisting(x) == \E t \in Threads : th[t].fp = x /\ th[t].pc = "unlist"

\* Who will close fork k: a live structure of the list has it, or a daemon client, or a
\* call that has just opened it or is about to close it.
Accounted(k) ==
  \/ \E x \in Live : fork[x] = k /\ ~Unlisting(x)
  \/ k \in fileids
  \/ \E t \in Threads : th[t].pc = "add" /\ fork[th[t].fp] = k
  \/ \E t \in Threads : th[t].op = "daemon_close" /\ th[t].pc = "close" /\ th[t].id = k

Kept == Intact /\ "close_refused" \notin trouble /\ orphans \cap Threads = {}

AccountInv == Kept => \A k \in ForkIds : forks[k] # Null => Accounted(k)

LEMMA AddEnds ==
  ASSUME NEW t \in Threads, NEW f, Good(t, f), f.pc = "add", NEW r, After(f, r).pc = "return"
  PROVE  f.op \in Opening /\ After(f, r).res = "ok"
<1>1. PICK g : g = After(f, r)
  OBVIOUS
<1>2. f \in Frame /\ f.op \in AllOps /\ f.pc \in PcsOf(f.op) /\ f.res = "ok"
  BY DEF Good, Placed, Running
<1>3. f.op \in Opening \cup {"truncate"} \cup OnStack
  BY <1>2 DEF PcsOf, AllOps, OnStack, Opening
<1>4. f.op \notin Opening => g = Next_(f, "zero") \/ g = Next_(f, "io")
  BY <1>1, <1>3 DEF After, AfterTruncate, AfterReadlink, AfterSymlink, OnStack, Opening
<1>5. f.op \in Opening => g = Next_(f, "zero") \/ g = Done(f)
  BY <1>1 DEF After, AfterOpen, Opening
<1>6. "zero" \in PCs /\ "io" \in PCs
  BY DEF PCs
<1>7. f.op \in Opening
  BY <1>1, <1>2, <1>4, <1>6, NextIs DEF IsNext
<1>8. g = Done(f)
  BY <1>1, <1>2, <1>5, <1>6, <1>7, NextIs DEF IsNext
<1> QED
  BY <1>1, <1>2, <1>7, <1>8, DoneIs DEF IsDone

\* A structure is lost from the list before it was taken off when its call ends: to a
\* daemon client's open, or on the stack of a readlink or symlink.
LEMMA LiveLost ==
  ASSUME FilesInv, ListInv, NEW t \in Threads, NEW f, NEW r, Turn(t, f, r), ListGoes(t), ForksGo(t, f, r), Intact',
         f.fp \in Live, f.fp \notin Live', f.pc # "unlist"
  PROVE  t \in orphans' \/ (OpenDone(f, After(f, r)) /\ f.op \in Daemons)
<1>1. PICK g : g = After(f, r)
  OBVIOUS
<1>2. /\ Keep(f, g, list') /\ f.pc = th[t].pc /\ f.fp = th[t].fp /\ f.op = th[t].op /\ Good(t, f) /\ Running(f)
  BY <1>1, TurnFrame DEF Turn
<1>3. ~Fresh(f)
  BY <1>2 DEF ListInv, Fresh, Own, Running
<1>4. f.pc # "add"
  <2>1. f.pc = "add" => Own(f)
    BY <1>2 DEF Good, Placed, PcsOf, AllOps, Own, OnStack, Opening, Running
  <2> QED
    BY <1>3, <2>1 DEF Fresh
<1>5. list' = list
  BY <1>2, <1>4 DEF ListGoes
<1>6. f.fp \in ToSet(list) /\ f.fp \notin orphans /\ f.fp \in orphans'
  BY <1>5 DEF Live
<1> DEFINE free == OpenFailed(f, g) \/ (OpenDone(f, g) /\ f.op \in Daemons) \/ (f.op = "truncate" /\ f.pc = "unlist")
           ends == g.pc = "return" /\ f.fp \in Threads
<1>7. orphans' = CASE free \/ ends -> (orphans \ {f.fp}) \cup ({f.fp} \cap ToSet(list'))
                   [] f.pc = "add" /\ ~free -> orphans \ {f.fp}
                   [] OTHER -> orphans
  BY <1>2 DEF Keep
<1>8. free \/ ends
  <2> HIDE DEF free, ends
  <2> QED
    BY <1>4, <1>6, <1>7
<1>9. ends => f.fp = t
  BY <1>2, FilesConstants DEF Good, Placed, Running
<1>10. ~OpenFailed(f, g)
  <2>1. OpenFailed(f, g) /\ f.pc = "zero" => ~Intact'
    BY <1>1 DEF ForksGo
  <2>2. OpenFailed(f, g) /\ f.pc # "zero" => Fresh(f)
    BY <1>2 DEF OpenFailed, Fresh, Own, Before
  <2> QED
    BY <1>3, <2>1, <2>2
<1> QED
  BY <1>1, <1>6, <1>8, <1>9, <1>10

LEMMA TurningAccounts ==
  ASSUME FilesInv, MemInv, AccountInv, NEW t \in Threads, Turning(t), Kept', NEW k \in ForkIds, forks'[k] # Null
  PROVE  Accounted(k)'
<1>1. TypeOK /\ GoodFrames /\ HeapInv /\ Opened /\ ListGoes(t)
  BY TurningList DEF FilesInv
<1>2. PICK f, r : Turn(t, f, r) /\ ForksGo(t, f, r)
  BY <1>1, TurningForks
<1>3. trouble \subseteq trouble' /\ Intact'
  BY <1>1, TurningIs DEF Kept
<1>4. Intact /\ ListInv /\ Sane
  BY <1>3 DEF MemInv, Intact, Sane
<1>5. PICK g : g = After(f, r)
  OBVIOUS
<1>6. /\ orphans \subseteq orphans'
      /\ Live \subseteq Live' \/ (Live \subseteq Live' \cup {f.fp} /\ Own(f))
      /\ f.pc = "add" /\ (g.pc # "return" \/ f.op = "open") => f.fp \in Live'
  BY <1>1, <1>2, <1>4, <1>5, <1>3, TurnLive
<1>7. /\ th'[t] = g /\ Good(t, f) /\ Good(t, g) /\ Running(f) /\ Running(th[t])
      /\ f.op = th[t].op /\ f.fp = th[t].fp /\ f.pc = th[t].pc /\ f.id = th[t].id /\ g.op = f.op /\ g.fp = f.fp /\ g.id = f.id
      /\ ForkOrder(f, r, g) /\ Keep(f, g, list') /\ Moves(t, g)
  BY <1>2, <1>5, TurnFrame DEF Turn, Same
<1>8. \A u \in Threads \ {t} : th'[u].op = th[u].op /\ th'[u].fp = th[u].fp /\ th'[u].pc = th[u].pc /\ th'[u].id = th[u].id
  BY <1>1, <1>7, OthersStay
<1>9. /\ \A u \in Threads : Own(th[u]) => \A v \in Threads \ {u} : Running(th[v]) => th[v].fp # th[u].fp
      /\ "close_refused" \notin trouble' /\ "wild_fork" \notin trouble' /\ orphans' \cap Threads = {}
  BY <1>1, <1>3, <1>4 DEF HeapInv, Kept, Intact
<1>10. fileids \subseteq fileids' /\ (OpenDone(f, g) /\ f.op \in Daemons => ForkOf(f) \in fileids')
  BY <1>7 DEF Keep
<1>11. f.op \in Opening => ForkOf(f) = fork[f.fp] /\ Own(f)
  BY <1>7, FilesConstants DEF ForkOf, Good, Placed, OnBlock, Own
<1>12. f.pc \in {"open", "add"} => Own(f)
  BY <1>7 DEF Good, Placed, PcsOf, AllOps, Own, OnStack, Opening, Running
<1>13. \A x \in Blocks \cup Threads : fork'[x] = fork[x] \/ (x = f.fp /\ f.pc = "open")
  <2>1. CASE f.pc = "open"
    <3>1. fork' = fork \/ \E j : fork' = [fork EXCEPT ![f.fp] = j]
      BY <1>2, <1>5, <1>7, <1>9, <2>1 DEF ForksGo, OpenForkDoes
    <3>2. fork \in [Blocks \cup Threads -> ForkIds \cup {Null}]
      BY <1>1 DEF TypeOK
    <3> QED
      BY <2>1, <3>1, <3>2
  <2> QED
    BY <1>2, <2>1 DEF ForksGo
<1>14. f.pc = "open" => f.fp \notin Live
  BY <1>4, <1>7, <1>12 DEF ListInv, Fresh, Before, Own
<1>15. CASE forks[k] = Null
  <2>1. f.pc = "open" /\ r = "ok" /\ fork'[f.fp] = k
    <3>1. f.pc = "open"
      BY <1>1, <1>2, <1>15, FilesConstants DEF ForksGo, TypeOK
    <3>2. PICK i \in Inodes, j \in UnusedForks :
            r = "ok" /\ forks' = [forks EXCEPT ![j] = i] /\ fork' = [fork EXCEPT ![f.fp] = j]
      BY <1>2, <1>15, <3>1 DEF ForksGo, OpenForkDoes
    <3>3. k = j
      BY <1>1, <1>15, <3>2 DEF TypeOK
    <3>4. f.fp \in Blocks \cup Threads
      BY <1>7, <1>12, <3>1 DEF Own, Good, Placed, OnBlock
    <3> QED
      BY <1>1, <3>1, <3>2, <3>3, <3>4 DEF TypeOK
  <2>2. g.pc = "add"
    BY <1>7, <2>1 DEF ForkOrder
  <2> QED
    BY <1>7, <2>1, <2>2 DEF Accounted
<1>16. CASE forks[k] # Null
  <2>1. Accounted(k)
    BY <1>3, <1>4, <1>6, <1>16 DEF AccountInv, Kept
  <2>2. f.pc = "close" => r = "ok" /\ k # ForkOf(f)
    BY <1>1, <1>2, <1>9 DEF ForksGo, TypeOK
  <2>3. ASSUME NEW x \in Live, fork[x] = k, ~Unlisting(x)
        PROVE  Accounted(k)'
    <3>1. fork'[x] = k
      <4>1. x \in Blocks \cup Threads
        BY <1>1 DEF Live, ToSet, TypeOK
      <4> QED
        BY <1>13, <1>14, <2>3, <4>1
    <3>2. ~Unlisting(x)'
      <4> SUFFICES ASSUME NEW u \in Threads, th'[u].fp = x, th'[u].pc = "unlist"
                   PROVE  FALSE
        BY DEF Unlisting
      <4>1. u = t
        BY <1>8, <2>3 DEF Unlisting
      <4>2. f.pc = "close" /\ f.fp = x
        BY <1>7, <4>1 DEF ForkOrder
      <4>3. x # Null
        BY <1>1, FilesConstants DEF Live, ToSet, TypeOK
      <4> QED
        BY <2>2, <2>3, <4>2, <4>3 DEF ForkOf
    <3>3. CASE x \in Live'
      BY <3>1, <3>2, <3>3 DEF Accounted
    <3>4. CASE x \notin Live'
      <4>1. x = f.fp
        BY <1>6, <3>4
      <4>2. f.pc # "unlist"
        BY <1>7, <2>3, <4>1 DEF Unlisting
      <4>3. t \in orphans' \/ (OpenDone(f, g) /\ f.op \in Daemons)
        BY <1>1, <1>2, <1>3, <1>4, <1>5, <2>3, <3>4, <4>1, <4>2, LiveLost
      <4>4. OpenDone(f, g) /\ f.op \in Daemons
        BY <1>9, <4>3
      <4>5. k \in fileids'
        BY <1>10, <1>11, <2>3, <4>1, <4>4 DEF Daemons, Opening
      <4> QED
        BY <4>5 DEF Accounted
    <3> QED
      BY <3>3, <3>4
  <2>4. ASSUME k \in fileids
        PROVE  Accounted(k)'
    BY <1>10, <2>4 DEF Accounted
  <2>5. ASSUME NEW u \in Threads, th[u].pc = "add", fork[th[u].fp] = k
        PROVE  Accounted(k)'
    <3>1. CASE u # t
      <4>1. Own(th[u])
        BY <1>1, <2>5, FrameOf DEF Good, Placed, PcsOf, AllOps, Own, OnStack, Opening, Running
      <4>2. th[u].fp # f.fp /\ th[u].fp \in Blocks \cup Threads
        BY <1>1, <1>7, <1>9, <3>1, <4>1, FrameOf DEF Own, Good, Placed, OnBlock
      <4>3. th'[u].pc = "add" /\ fork'[th'[u].fp] = k
        BY <1>8, <1>13, <2>5, <3>1, <4>2
      <4> QED
        BY <4>3 DEF Accounted
    <3>2. CASE u = t
      <4>1. f.pc = "add" /\ fork[f.fp] = k /\ fork'[f.fp] = k /\ Own(f)
        <5>1. f.pc = "add" /\ fork[f.fp] = k /\ Own(f)
          BY <1>7, <1>12, <2>5, <3>2
        <5>2. f.fp \in Blocks \cup Threads
          BY <1>7, <5>1 DEF Own, Good, Placed, OnBlock
        <5> QED
          BY <1>13, <5>1, <5>2
      <4>2. CASE g.pc # "return" \/ f.op = "open"
        <5>1. f.fp \in Live'
          BY <1>6, <4>1, <4>2
        <5>2. ~Unlisting(f.fp)'
          <6> SUFFICES ASSUME NEW v \in Threads, th'[v].fp = f.fp, th'[v].pc = "unlist"
                       PROVE  FALSE
            BY DEF Unlisting
          <6>1. v # t
            BY <1>7, <4>1 DEF ForkOrder
          <6>2. th[v].fp = f.fp /\ th[v].pc = "unlist"
            BY <1>8, <6>1
          <6> QED
            BY <1>7, <1>9, <4>1, <6>1, <6>2 DEF Own, Running
        <5> QED
          BY <4>1, <5>1, <5>2 DEF Accounted
      <4>3. CASE g.pc = "return" /\ f.op # "open"
        <5>1. f.op \in Opening /\ g.res = "ok"
          BY <1>5, <1>7, <4>1, <4>3, AddEnds
        <5>2. OpenDone(f, g) /\ f.op \in Daemons
          BY <4>1, <4>3, <5>1 DEF OpenDone, Daemons, Opening
        <5>3. k \in fileids'
          BY <1>10, <1>11, <4>1, <5>1, <5>2
        <5> QED
          BY <5>3 DEF Accounted
      <4> QED
        BY <4>2, <4>3
    <3> QED
      BY <3>1, <3>2
  <2>6. ASSUME NEW u \in Threads, th[u].op = "daemon_close", th[u].pc = "close", th[u].id = k
        PROVE  Accounted(k)'
    <3>1. u # t
      <4> SUFFICES ASSUME u = t
                   PROVE  FALSE
        OBVIOUS
      <4>1. f.fp = Null /\ f.pc = "close" /\ f.id = k
        BY <1>7, <2>6 DEF Good, Placed, OnBlock, OnStack, Opening
      <4> QED
        BY <2>2, <4>1 DEF ForkOf
    <3> QED
      BY <1>8, <2>6, <3>1 DEF Accounted
  <2> QED
    BY <2>1, <2>3, <2>4, <2>5, <2>6 DEF Accounted
<1> QED
  BY <1>15, <1>16

LEMMA CallAccounts ==
  ASSUME FilesInv, MemInv, AccountInv, NEW t \in Threads, Call(t), Kept', NEW k \in ForkIds, forks'[k] # Null
  PROVE  Accounted(k)'
<1>1. TypeOK /\ GoodFrames /\ HeapInv
  BY DEF FilesInv
<1>2. PICK g : NewFrame(t, g) /\ (Uses(g) \/ Allocates(g) \/ Releases(g) \/ UsesId(g) \/ Unmounts(g))
  BY <1>1, CallIs
<1>3. /\ th[t].pc = "idle" /\ th'[t] = g /\ Good(t, g) /\ g.pc # "unlist" /\ \A u \in Threads \ {t} : th'[u] = th[u]
      /\ trouble' = trouble /\ forks' = forks /\ (g.op = "daemon_close" => g.pc = "close")
  BY <1>1, <1>2 DEF NewFrame, TypeOK, server
<1>4. /\ list' = list /\ orphans' = orphans /\ Live' = Live
      /\ fileids' = fileids \/ (g.op = "daemon_close" /\ fileids' = fileids \ {g.id})
      /\ fork' = fork \/ (mounted /\ heap[g.fp] = "free" /\ g.fp \in Blocks /\ fork' = [fork EXCEPT ![g.fp] = Null])
  BY <1>1, <1>2, <1>3 DEF Uses, Allocates, Releases, UsesId, Unmounts, memory, Live, Good, Placed, OnBlock
<1>5. Intact /\ ListInv /\ Accounted(k)
  BY <1>3, <1>4 DEF MemInv, Intact, AccountInv, Kept
<1>6. fork \in [Blocks \cup Threads -> ForkIds \cup {Null}] /\ Live \subseteq Blocks \cup Threads
  BY <1>1 DEF TypeOK, Live, ToSet
<1>7. \A x \in Live : fork'[x] = fork[x]
  <2>1. \A x \in Live : x \in Blocks => heap[x] = "used"
    BY <1>5, FilesConstants DEF ListInv, ListedAreLive, Live
  <2> QED
    BY <1>4, <1>6, <2>1
<1>8. ASSUME NEW x \in Live, fork[x] = k, ~Unlisting(x)
      PROVE  Accounted(k)'
  <2>1. ~Unlisting(x)'
    BY <1>3, <1>8 DEF Unlisting
  <2> QED
    BY <1>4, <1>7, <1>8, <2>1 DEF Accounted
<1>9. ASSUME k \in fileids
      PROVE  Accounted(k)'
  BY <1>3, <1>4, <1>9 DEF Accounted
<1>10. ASSUME NEW u \in Threads, th[u].pc = "add", fork[th[u].fp] = k
       PROVE  Accounted(k)'
  <2>1. u # t /\ th'[u] = th[u]
    BY <1>3, <1>10
  <2>2. th[u].fp \in Blocks \cup Threads /\ Running(th[u])
    BY <1>1, <1>10, FrameOf DEF Good, Placed, PcsOf, AllOps, Running, OnBlock, OnStack, Opening
  <2>3. mounted /\ th[u].fp \in Blocks => heap[th[u].fp] = "used"
    BY <1>1, <2>2 DEF HeapInv, Sane
  <2>4. fork'[th[u].fp] = k
    BY <1>4, <1>6, <1>10, <2>2, <2>3
  <2> QED
    BY <1>10, <2>1, <2>4 DEF Accounted
<1>11. ASSUME NEW u \in Threads, th[u].op = "daemon_close", th[u].pc = "close", th[u].id = k
       PROVE  Accounted(k)'
  BY <1>3, <1>11 DEF Accounted
<1> QED
  BY <1>5, <1>8, <1>9, <1>10, <1>11 DEF Accounted

LEMMA ReturnAccounts ==
  ASSUME FilesInv, AccountInv, NEW t \in Threads, Return(t), Kept', NEW k \in ForkIds, forks'[k] # Null
  PROVE  Accounted(k)'
<1>1. /\ th[t].pc = "return" /\ th'[t] = Idle /\ \A u \in Threads \ {t} : th'[u] = th[u]
      /\ UNCHANGED memory /\ trouble' = trouble /\ forks' = forks
  BY DEF Return, At, Goto, TypeOK, FilesInv, server
<1>2. list' = list /\ orphans' = orphans /\ Live' = Live /\ fork' = fork /\ fileids' = fileids
  BY <1>1 DEF memory, Live
<1>3. Accounted(k)
  BY <1>1, <1>2 DEF AccountInv, Kept, Intact
<1>4. \A x : Unlisting(x)' => Unlisting(x)
  <2>1. Idle.pc # "unlist"
    BY DEF Idle
  <2> QED
    BY <1>1, <2>1 DEF Unlisting
<1> QED
  BY <1>1, <1>2, <1>3, <1>4 DEF Accounted

LEMMA AccountStep ==
  ASSUME FilesInv, MemInv, Shut, AccountInv, [Next]_vars
  PROVE  AccountInv'
<1> SUFFICES ASSUME Kept', NEW k \in ForkIds, forks'[k] # Null
             PROVE  Accounted(k)'
  BY DEF AccountInv
<1>1. CASE UNCHANGED vars
  <2>1. UNCHANGED <<list, orphans, fork, fileids, th, trouble, forks>> /\ Live' = Live
    BY <1>1 DEF vars, memory, server, Live
  <2>2. Accounted(k)
    BY <2>1 DEF AccountInv, Kept, Intact
  <2>3. \A x : Unlisting(x)' => Unlisting(x)
    BY <2>1 DEF Unlisting
  <2> QED
    BY <2>1, <2>2, <2>3 DEF Accounted
<1>2. ~GoDown
  BY DEF GoDown
<1>3. \A t \in Threads : ~VolClose(t)
  BY DEF VolClose, Shut
<1>4. ASSUME NEW t \in Threads, RemoveForkList(t)
      PROVE  FALSE
  <2>1. th[t].pc = "freelist" /\ forks' = forks
    BY <1>4 DEF RemoveForkList, At, server
  <2>2. Closed
    BY <2>1 DEF FilesInv, OneUnmount, Closed
  <2> QED
    BY <2>1, <2>2 DEF Shut
<1>5. ASSUME NEW t \in Threads, Call(t)
      PROVE  Accounted(k)'
  BY <1>5, CallAccounts
<1>6. ASSUME NEW t \in Threads, Step(t)
      PROVE  Accounted(k)'
  <2>1. Turning(t) \/ Return(t) \/ VolClose(t) \/ RemoveForkList(t)
    BY <1>6 DEF Step, Turning
  <2> QED
    BY <1>3, <1>4, <2>1, TurningAccounts, ReturnAccounts
<1> QED
  BY <1>1, <1>2, <1>5, <1>6 DEF Next

LEMMA AccountInit ==
  ASSUME Init
  PROVE  Shut /\ AccountInv
<1>1. PICK f \in Inodes, open \in SUBSET Blocks :
        /\ IsFiniteSet(open) /\ list = SetToSeq(open)
        /\ \E id \in [open -> ForkIds] :
             /\ forks = [k \in ForkIds |-> IF k \in Range(id) THEN f ELSE Null]
             /\ fork = [x \in Blocks \cup Threads |-> IF x \in open THEN id[x] ELSE Null]
        /\ orphans = {} /\ th = [t \in Threads |-> Idle] /\ down = FALSE /\ mounted = TRUE
  BY DEF Init
<1>2. PICK id \in [open -> ForkIds] :
        /\ forks = [k \in ForkIds |-> IF k \in Range(id) THEN f ELSE Null]
        /\ fork = [x \in Blocks \cup Threads |-> IF x \in open THEN id[x] ELSE Null]
  BY <1>1
<1>3. Live = open
  BY <1>1, SetToSeqIs DEF Live
<1>4. \A x : ~Unlisting(x)
  BY <1>1 DEF Unlisting, Idle
<1>5. ASSUME NEW k \in ForkIds, forks[k] # Null
      PROVE  Accounted(k)
  <2>1. k \in Range(id)
    BY <1>2, <1>5
  <2>2. PICK x \in open : id[x] = k
    BY <2>1 DEF Range
  <2> QED
    BY <1>2, <1>3, <1>4, <2>2 DEF Accounted
<1> QED
  BY <1>5, <1>1 DEF AccountInv, Shut, Closed

\* Every fork the server has open will be closed by somebody: its structure is on the list,
\* or a daemon client has its number, or a call has it at this moment.  This is claimed
\* with the exceptions of ForksAccounted, and until memory is used that is not the call's.
THEOREM OpenForksAccounted == Spec => [](Intact => ForksAccounted)
<1> DEFINE Inv == FilesInv /\ MemInv /\ Shut /\ AccountInv
<1>1. Init => Inv
  BY FilesInitInv, InitLive, AccountInit DEF MemInv
<1>2. Inv /\ [Next]_vars => Inv'
  BY FilesStep, LiveStep, ShutStep, AccountStep
<1>3. Inv => (Intact => ForksAccounted)
  <2> SUFFICES ASSUME Inv, Intact, "close_refused" \notin trouble, orphans \cap Threads = {},
                      NEW k \in ForkIds, forks[k] # Null
               PROVE  \/ \E x \in ToSet(list) : fork[x] = k
                      \/ k \in fileids
                      \/ \E t \in Threads : th[t].pc # "idle" /\ ForkOf(th[t]) = k
    BY DEF ForksAccounted, At
  <2>1. Accounted(k)
    BY DEF AccountInv, Kept
  <2>2. ASSUME NEW t \in Threads, th[t].pc = "add", fork[th[t].fp] = k
        PROVE  th[t].pc # "idle" /\ ForkOf(th[t]) = k
    <3>1. th[t].fp # Null
      BY <2>2, FrameOf, FilesConstants DEF FilesInv, Good, Placed, PcsOf, AllOps, Running, OnBlock, OnStack, Opening
    <3> QED
      BY <2>2, <3>1 DEF ForkOf
  <2>3. ASSUME NEW t \in Threads, th[t].op = "daemon_close", th[t].pc = "close", th[t].id = k
        PROVE  th[t].pc # "idle" /\ ForkOf(th[t]) = k
    <3>1. th[t].fp = Null
      BY <2>3, FrameOf DEF FilesInv, Good, Placed, OnBlock, OnStack, Opening
    <3> QED
      BY <2>3, <3>1 DEF ForkOf
  <2> QED
    BY <2>1, <2>2, <2>3 DEF Accounted, Live
<1> HIDE DEF Inv
<1> QED
  BY <1>1, <1>2, <1>3, PTL DEF Spec

-----------------------------------------------------------------------------
(* Every fork has one owner. *)

\* The call has a fork open that is in its structure.
Claims(f) == Own(f) /\ f.pc \in {"add", "zero", "io", "close"}

\* Structures with an open fork, and the numbers daemon clients use or have
Structs == handles \cup {th[t].fp : t \in {u \in Threads : Claims(th[u])}}
Reading(f) == f.op = "daemon_read" /\ Running(f)
Closing(f) == f.op = "daemon_close" /\ Running(f)
Ids == fileids \cup {th[t].id : t \in {u \in Threads : Reading(th[u]) \/ Closing(th[u])}}

\* While the volume is served: these forks are open, each in one structure or with
\* daemon clients; and one call at most closes a number, which is nobody else's then.
Served == Intact /\ mounted /\ ~down
OwnersInv ==
  /\ \A x \in Structs : fork[x] # Null /\ forks[fork[x]] # Null /\ fork[x] \notin Ids
  /\ \A x, y \in Structs : fork[x] = fork[y] => x = y
  /\ \A k \in Ids : forks[k] # Null
  /\ \A t \in Threads : Closing(th[t]) => /\ th[t].id \notin fileids
                                          /\ \A u \in Threads \ {t} : Closing(th[u]) => th[u].id # th[t].id
ClaimInv == Served => OwnersInv

LEMMA ClaimTypes ==
  ASSUME TypeOK, GoodFrames
  PROVE  /\ Structs \subseteq Blocks \cup Threads /\ Ids \subseteq ForkIds
         /\ fork \in [Blocks \cup Threads -> ForkIds \cup {Null}] /\ forks \in [ForkIds -> Inodes \cup {Null}]
<1>1. \A t \in Threads : Claims(th[t]) => th[t].fp \in Blocks \cup Threads
  BY FrameOf DEF Claims, Own, Good, Placed, OnBlock
<1>2. \A t \in Threads : Reading(th[t]) \/ Closing(th[t]) => th[t].id \in ForkIds
  BY FrameOf DEF Reading, Closing, Good, Placed, OnId
<1> QED
  BY <1>1, <1>2 DEF Structs, Ids, TypeOK

\* What a request does to the owners
LEMMA TurningOwners ==
  ASSUME FilesInv, ClaimInv, NEW t \in Threads, Turning(t), Served',
         NEW f, NEW r, Turn(t, f, r), ForksGo(t, f, r)
  PROVE  /\ Structs' \subseteq Structs \cup (IF f.pc = "open" /\ r = "ok" THEN {f.fp} ELSE {})
         /\ f.pc = "open" => f.fp \notin Structs
         /\ f.pc = "close" /\ f.op # "daemon_close" => f.fp \in Structs \ Structs'
         /\ f.op = "daemon_close" => Closing(th[t]) /\ ~Closing(th'[t])
         /\ fileids' \subseteq fileids \cup (IF f.pc # "close" /\ f.fp \in Structs \ Structs' THEN {fork[f.fp]} ELSE {})
         /\ \A u \in Threads : /\ (Reading(th'[u]) => Reading(th[u])) /\ (Closing(th'[u]) => Closing(th[u]))
                               /\ th'[u].id = th[u].id
<1>1. TypeOK /\ GoodFrames /\ HeapInv
  BY DEF FilesInv
<1>2. trouble \subseteq trouble' /\ mounted' = mounted /\ down' = down
  BY <1>1, TurningIs
<1>3. OwnersInv /\ Sane
  BY <1>2 DEF ClaimInv, Served, Intact, Sane
<1>4. PICK g : g = After(f, r)
  OBVIOUS
<1>5. /\ th'[t] = g /\ Good(t, f) /\ Good(t, g) /\ Running(f) /\ Running(th[t])
      /\ f.op = th[t].op /\ f.fp = th[t].fp /\ f.pc = th[t].pc /\ f.id = th[t].id /\ g.op = f.op /\ g.fp = f.fp /\ g.id = f.id
      /\ ForkOrder(f, r, g) /\ Keep(f, g, list') /\ Moves(t, g)
  BY <1>4, TurnFrame DEF Turn, Same
<1>6. \A u \in Threads \ {t} : th'[u].op = th[u].op /\ th'[u].fp = th[u].fp /\ th'[u].pc = th[u].pc /\ th'[u].id = th[u].id
  BY <1>1, <1>5, OthersStay
<1>7. /\ \A u \in Threads : Own(th[u]) => /\ th[u].fp \notin handles
                                          /\ \A v \in Threads \ {u} : Running(th[v]) => th[v].fp # th[u].fp
  BY <1>1, <1>3 DEF HeapInv
<1>8. \A u \in Threads \ {t} : Claims(th'[u]) <=> Claims(th[u])
  BY <1>6 DEF Claims, Own, Running
<1>9. Claims(f) <=> Claims(th[t])
  BY <1>5 DEF Claims, Own, Running
<1>10. Claims(g) => Claims(f) \/ (f.pc = "open" /\ r = "ok")
  <2> HAVE Claims(g)
  <2>1. f.op \in OnBlock \cup OnStack /\ Own(f)
    BY <1>5 DEF Claims, Own, OnBlock
  <2>2. CASE g.pc = "add"
    <3>1. f.pc = "open"
      BY <1>5, <2>2 DEF ForkOrder
    <3>2. r # "ok" => "wild_fork" \in trouble'
      BY <1>4, <2>2, <3>1 DEF ForksGo, OpenForkDoes
    <3> QED
      BY <3>1, <3>2 DEF Served, Intact
  <2>3. CASE g.pc \in {"zero", "close"}
    BY <1>5, <2>1, <2>3 DEF ForkOrder, Claims
  <2>4. CASE g.pc = "io"
    <3>1. g.op \in OnStack
      BY <1>5, <2>1, <2>4 DEF Own, Good, Placed, PcsOf, OnStack, Opening, Running
    <3> QED
      BY <1>5, <2>1, <2>4, <3>1 DEF ForkOrder, Claims
  <2> QED
    BY <2>2, <2>3, <2>4 DEF Claims
<1>11. handles' \subseteq handles \cup {f.fp} /\ (handles' # handles => OpenDone(f, g) /\ f.op = "open")
  BY <1>5 DEF Keep
<1>12. OpenDone(f, g) => Claims(f)
  BY <1>5 DEF OpenDone, Claims, Own
<1>13. Structs' \subseteq Structs \cup (IF f.pc = "open" /\ r = "ok" THEN {f.fp} ELSE {})
  BY <1>5, <1>6, <1>8, <1>9, <1>10, <1>11, <1>12 DEF Structs
<1>14. Claims(f) => f.fp \in Structs
  BY <1>5, <1>9 DEF Structs
<1>15. f.fp \in Structs' /\ Own(f) => f.fp \in handles' \/ Claims(g)
  <2> HAVE f.fp \in Structs' /\ Own(f)
  <2>1. \A u \in Threads \ {t} : Claims(th'[u]) => th'[u].fp # f.fp
    BY <1>5, <1>6, <1>7, <1>8 DEF Claims, Own, Running
  <2> QED
    BY <1>5, <2>1 DEF Structs
<1>16. f.pc = "close" /\ f.op # "daemon_close" => f.fp \in Structs \ Structs'
  <2> HAVE f.pc = "close" /\ f.op # "daemon_close"
  <2>1. Own(f) /\ Claims(f) /\ f.op \in OnBlock \cup OnStack
    BY <1>5 DEF Good, Placed, PcsOf, AllOps, Own, Claims, OnBlock, OnStack, Opening, Running
  <2>2. ~Claims(g)
    <3>1. g.pc \notin {"add", "zero", "close"}
      BY <1>5, <2>1 DEF ForkOrder
    <3>2. g.pc = "io" => g.op \in OnStack
      BY <1>5, <2>1 DEF Own, Good, Placed, PcsOf, OnStack, Opening, Running
    <3>3. g.pc # "io"
      BY <1>5, <3>2 DEF ForkOrder
    <3> QED
      BY <3>1, <3>3 DEF Claims
  <2>3. f.fp \notin handles /\ ~OpenDone(f, g)
    BY <1>5, <1>7, <2>1 DEF OpenDone, Own, Running
  <2> QED
    BY <1>11, <1>14, <1>15, <2>1, <2>2, <2>3
<1>17. fileids' \subseteq fileids \cup (IF f.pc # "close" /\ f.fp \in Structs \ Structs' THEN {fork[f.fp]} ELSE {})
  <2>1. CASE OpenDone(f, g) /\ f.op \in Daemons
    <3>1. ForkOf(f) = fork[f.fp] /\ fileids' = fileids \cup {ForkOf(f)} /\ handles' = handles
      BY <1>5, <1>11, <2>1, FilesConstants DEF Keep, ForkOf, Good, Placed, OnBlock, Opening, Daemons
    <3>2. Own(f) /\ ~Claims(g) /\ f.fp \notin handles
      BY <1>5, <1>7, <1>12, <2>1 DEF OpenDone, Claims, Own, Running
    <3> QED
      BY <1>12, <1>14, <1>15, <2>1, <3>1, <3>2 DEF OpenDone
  <2>2. CASE ~(OpenDone(f, g) /\ f.op \in Daemons)
    BY <1>5, <2>2 DEF Keep
  <2> QED
    BY <2>1, <2>2
<1>18. \A u \in Threads : (Reading(th'[u]) => Reading(th[u])) /\ (Closing(th'[u]) => Closing(th[u])) /\ th'[u].id = th[u].id
  BY <1>5, <1>6 DEF Reading, Closing, Running
<1>19. f.op = "daemon_close" => Closing(th[t]) /\ ~Closing(th'[t])
  BY <1>5 DEF ForkOrder, Closing, Running
<1>20. f.pc = "open" => f.fp \notin Structs
  <2> HAVE f.pc = "open"
  <2>1. Own(th[t]) /\ ~Claims(th[t])
    BY <1>5 DEF Good, Placed, PcsOf, AllOps, Own, Claims, OnStack, Opening, Running
  <2>2. f.fp \notin handles /\ \A u \in Threads \ {t} : Claims(th[u]) => th[u].fp # f.fp
    BY <1>5, <1>7, <2>1 DEF Claims, Own
  <2> QED
    BY <2>1, <2>2 DEF Structs
<1> QED
  BY <1>13, <1>16, <1>17, <1>18, <1>19, <1>20

LEMMA TurningClaims ==
  ASSUME FilesInv, ClaimInv, NEW t \in Threads, Turning(t), Served',
         NEW f, NEW r, Turn(t, f, r), ForksGo(t, f, r)
  PROVE  OwnersInv'
<1>1. TypeOK /\ GoodFrames
  BY DEF FilesInv
<1>2. /\ Structs' \subseteq Structs \cup (IF f.pc = "open" /\ r = "ok" THEN {f.fp} ELSE {})
      /\ f.pc = "open" => f.fp \notin Structs
      /\ f.pc = "close" /\ f.op # "daemon_close" => f.fp \in Structs \ Structs'
      /\ f.op = "daemon_close" => Closing(th[t]) /\ ~Closing(th'[t])
      /\ fileids' \subseteq fileids \cup (IF f.pc # "close" /\ f.fp \in Structs \ Structs' THEN {fork[f.fp]} ELSE {})
      /\ \A u \in Threads : /\ (Reading(th'[u]) => Reading(th[u])) /\ (Closing(th'[u]) => Closing(th[u]))
                            /\ th'[u].id = th[u].id
  BY TurningOwners
<1>3. OwnersInv /\ "wild_fork" \notin trouble' /\ Intact'
  <2>1. trouble \subseteq trouble' /\ mounted' = mounted /\ down' = down
    BY <1>1, TurningIs
  <2> QED
    BY <2>1 DEF ClaimInv, Served, Intact
<1>4. /\ Structs \subseteq Blocks \cup Threads /\ Ids \subseteq ForkIds
      /\ fork \in [Blocks \cup Threads -> ForkIds \cup {Null}] /\ forks \in [ForkIds -> Inodes \cup {Null}]
  BY <1>1, ClaimTypes
<1>5. /\ f.pc = th[t].pc /\ f.op = th[t].op /\ f.fp = th[t].fp /\ f.id = th[t].id /\ Good(t, f) /\ Running(f)
  BY TurnFrame
<1>6. Ids' \subseteq Ids \cup (IF f.pc # "close" /\ f.fp \in Structs \ Structs' THEN {fork[f.fp]} ELSE {})
  BY <1>2 DEF Ids
<1>7. /\ \A x \in Structs : fork[x] \in ForkIds /\ forks[fork[x]] # Null /\ fork[x] \notin Ids
      /\ \A x, y \in Structs : fork[x] = fork[y] => x = y
      /\ \A k \in Ids : forks[k] # Null
  BY <1>3, <1>4 DEF OwnersInv
<1>8. \A u \in Threads : Closing(th'[u]) => /\ th'[u].id \notin fileids'
                                            /\ \A v \in Threads \ {u} : Closing(th'[v]) => th'[v].id # th'[u].id
  <2> SUFFICES ASSUME NEW u \in Threads, Closing(th'[u])
               PROVE  /\ th'[u].id \notin fileids'
                      /\ \A v \in Threads \ {u} : Closing(th'[v]) => th'[v].id # th'[u].id
    OBVIOUS
  <2>1. th[u].id \in Ids /\ Closing(th[u]) /\ th'[u].id = th[u].id
    BY <1>2 DEF Ids
  <2>2. /\ th[u].id \notin fileids
        /\ \A v \in Threads \ {u} : Closing(th[v]) => th[v].id # th[u].id
    BY <1>3, <2>1 DEF OwnersInv
  <2> QED
    BY <1>2, <1>7, <2>1, <2>2
<1>9. CASE f.pc = "open" /\ r = "ok"
  <2>1. PICK i \in Inodes, j \in UnusedForks : forks' = [forks EXCEPT ![j] = i] /\ fork' = [fork EXCEPT ![f.fp] = j]
    BY <1>9 DEF ForksGo, OpenForkDoes
  <2>2. j \in ForkIds /\ forks[j] = Null /\ i # Null /\ j # Null
    BY <2>1, FilesConstants DEF UnusedForks
  <2>3. f.fp \in Blocks \cup Threads
    BY <1>5, <1>9 DEF Good, Placed, PcsOf, AllOps, OnBlock, OnStack, Opening, Running
  <2>4. f.fp \notin Structs /\ Structs' \subseteq Structs \cup {f.fp} /\ Ids' \subseteq Ids
    BY <1>2, <1>6, <1>9
  <2>5. fork'[f.fp] = j /\ forks'[j] # Null /\ j \notin Ids
    BY <1>4, <1>7, <2>1, <2>2, <2>3
  <2>6. \A x \in Structs : fork'[x] = fork[x] /\ fork'[x] # j /\ forks'[fork[x]] # Null
    BY <1>4, <1>7, <2>1, <2>2, <2>4
  <2>7. \A k \in Ids : forks'[k] # Null
    BY <1>4, <1>7, <2>1, <2>2
  <2>8. \A x \in Structs' : fork'[x] # Null /\ forks'[fork'[x]] # Null /\ fork'[x] \notin Ids'
    BY <1>7, <2>2, <2>4, <2>5, <2>6, FilesConstants
  <2>9. \A x, y \in Structs' : fork'[x] = fork'[y] => x = y
    BY <1>7, <2>4, <2>5, <2>6
  <2> QED
    BY <1>8, <2>4, <2>7, <2>8, <2>9 DEF OwnersInv
<1>10. CASE ~(f.pc = "open" /\ r = "ok") /\ ~(f.pc = "close" /\ r = "ok")
  <2>1. forks' = forks /\ fork' = fork
    BY <1>3, <1>10 DEF ForksGo, OpenForkDoes
  <2>2. Structs' \subseteq Structs
    BY <1>2, <1>10
  <2>3. \A x \in Structs' : fork[x] \notin Ids'
    BY <1>6, <1>7, <2>2
  <2>4. \A k \in Ids' : forks[k] # Null
    BY <1>6, <1>7
  <2> QED
    BY <1>3, <1>8, <2>1, <2>2, <2>3, <2>4 DEF OwnersInv
<1>11. CASE f.pc = "close" /\ r = "ok"
  <2>1. /\ forks' = [forks EXCEPT ![ForkOf(f)] = Null] /\ fork' = fork /\ ~InUse(ForkOf(f))
        /\ Structs' \subseteq Structs /\ Ids' \subseteq Ids /\ fileids' \subseteq fileids
    BY <1>2, <1>3, <1>6, <1>11 DEF ForksGo
  <2>2. (\A x \in Structs' : fork[x] # ForkOf(f)) /\ ForkOf(f) \notin Ids'
    <3>1. CASE f.op # "daemon_close"
      <4>1. f.fp \in Structs \ Structs' /\ f.fp # Null
        BY <1>2, <1>4, <1>11, <3>1, FilesConstants
      <4>2. ForkOf(f) = fork[f.fp]
        BY <4>1 DEF ForkOf
      <4> QED
        BY <1>7, <2>1, <4>1, <4>2
    <3>2. CASE f.op = "daemon_close"
      <4>1. ForkOf(f) = f.id
        BY <1>5, <3>2 DEF ForkOf, Good, Placed, OnBlock, OnStack, Opening
      <4>2. Closing(th[t]) /\ ~Closing(th'[t]) /\ f.id \in Ids
        BY <1>2, <1>5, <3>2 DEF Ids
      <4>3. f.id \notin fileids /\ \A u \in Threads : Closing(th'[u]) => th'[u].id # f.id
        BY <1>2, <1>3, <1>5, <4>2 DEF OwnersInv
      <4>4. \A u \in Threads : Reading(th[u]) => th[u].pc \in {"lock", "io", "unlock"}
        BY <1>1, FrameOf DEF Reading, Good, Placed, PcsOf, Running
      <4>5. \A u \in Threads : Reading(th'[u]) => th'[u].id # f.id
        BY <1>2, <2>1, <4>1, <4>4 DEF InUse
      <4>6. f.id \notin Ids'
        BY <2>1, <4>3, <4>5 DEF Ids
      <4> QED
        BY <1>7, <2>1, <4>1, <4>2, <4>6
    <3> QED
      BY <3>1, <3>2
  <2>3. \A x \in Structs' : fork'[x] # Null /\ forks'[fork'[x]] # Null /\ fork'[x] \notin Ids'
    BY <1>4, <1>7, <2>1, <2>2, FilesConstants
  <2>4. \A k \in Ids' : forks'[k] # Null
    BY <1>4, <1>7, <2>1, <2>2
  <2> QED
    BY <1>7, <1>8, <2>1, <2>3, <2>4 DEF OwnersInv
<1> QED
  BY <1>9, <1>10, <1>11

LEMMA CallClaims ==
  ASSUME FilesInv, ClaimInv, NEW t \in Threads, Call(t), Served'
  PROVE  OwnersInv' /\ \A x \in Structs : fork'[x] = fork[x]
<1>1. TypeOK /\ GoodFrames /\ HeapInv
  BY DEF FilesInv
<1>2. PICK g : NewFrame(t, g) /\ (Uses(g) \/ Allocates(g) \/ Releases(g) \/ UsesId(g) \/ Unmounts(g))
  BY <1>1, CallIs
<1>3. /\ th[t].pc = "idle" /\ th'[t] = g /\ Good(t, g) /\ \A u \in Threads \ {t} : th'[u] = th[u]
      /\ trouble' = trouble /\ forks' = forks /\ down' = down
  BY <1>1, <1>2 DEF NewFrame, TypeOK, server
<1>4. Uses(g) \/ Allocates(g) \/ Releases(g) \/ UsesId(g)
  BY <1>2 DEF Unmounts, Served
<1>5. mounted' = mounted
  BY <1>4 DEF Uses, Allocates, Releases, UsesId
<1>6. OwnersInv /\ Sane
  BY <1>3, <1>5 DEF ClaimInv, Served, Intact, Sane
<1>7. /\ Structs \subseteq Blocks \cup Threads /\ Ids \subseteq ForkIds
      /\ fork \in [Blocks \cup Threads -> ForkIds \cup {Null}] /\ forks \in [ForkIds -> Inodes \cup {Null}]
  BY <1>1, ClaimTypes
<1>8. /\ \A u \in Threads : Running(th[u]) /\ th[u].fp \in Blocks => heap[th[u].fp] = "used"
      /\ \A b \in handles : heap[b] = "used"
  BY <1>1, <1>6 DEF HeapInv
<1>9. \A x \in Structs \cap Blocks : heap[x] = "used"
  BY <1>8 DEF Structs, Claims, Own
<1>10. \A x \in Structs : fork'[x] = fork[x]
  <2>1. fork' = fork \/ (heap[g.fp] = "free" /\ g.fp \in Blocks /\ fork' = [fork EXCEPT ![g.fp] = Null])
    BY <1>3, <1>4 DEF Uses, Allocates, Releases, UsesId, memory, Good, Placed, OnBlock
  <2> QED
    BY <1>7, <1>9, <2>1
<1>11. Claims(g) => Releases(g)
  <2>1. Claims(g) => g.pc \notin Before /\ g.op \notin OnId /\ Own(g)
    BY DEF Claims, Before, Own, OnId, Opening, OnStack
  <2>2. Claims(g) => g.op \notin {"read", "write"}
    BY DEF Claims, Own, Opening, OnStack
  <2> QED
    BY <1>4, <2>1, <2>2 DEF Uses, Allocates, UsesId, Own, OnBlock, Before
<1>12. Structs' \subseteq Structs
  <2>1. handles' \subseteq handles /\ (Claims(g) => g.fp \in handles)
    BY <1>4, <1>11 DEF Uses, Allocates, Releases, UsesId, memory
  <2> QED
    BY <1>3, <2>1 DEF Structs
<1>13. /\ Reading(g) \/ Closing(g) => UsesId(g)
       /\ UsesId(g) => g.id \in fileids
       /\ fileids' \subseteq fileids /\ (Closing(g) => fileids' = fileids \ {g.id})
  BY <1>4 DEF Uses, Allocates, Releases, UsesId, memory, Reading, Closing, OnId, OnBlock, Opening
<1>14. Ids' \subseteq Ids
  BY <1>3, <1>13 DEF Ids
<1>15. ~Closing(th[t])
  BY <1>3 DEF Closing, Running
<1>16. ASSUME NEW u \in Threads, Closing(th'[u])
       PROVE  /\ th'[u].id \notin fileids'
              /\ \A v \in Threads \ {u} : Closing(th'[v]) => th'[v].id # th'[u].id
  <2>1. \A v \in Threads : Closing(th[v]) => /\ th[v].id \notin fileids
                                             /\ \A w \in Threads \ {v} : Closing(th[w]) => th[w].id # th[v].id
    BY <1>6 DEF OwnersInv
  <2>2. CASE u = t
    BY <1>3, <1>13, <1>16, <2>1, <2>2
  <2>3. CASE u # t
    BY <1>3, <1>13, <1>16, <2>1, <2>3
  <2> QED
    BY <2>2, <2>3
<1>17. OwnersInv'
  <2>1. \A x \in Structs' : fork'[x] # Null /\ forks'[fork'[x]] # Null /\ fork'[x] \notin Ids'
    BY <1>3, <1>6, <1>10, <1>12, <1>14 DEF OwnersInv
  <2>2. \A x, y \in Structs' : fork'[x] = fork'[y] => x = y
    BY <1>6, <1>10, <1>12 DEF OwnersInv
  <2>3. \A k \in Ids' : forks'[k] # Null
    BY <1>3, <1>6, <1>14 DEF OwnersInv
  <2> QED
    BY <1>16, <2>1, <2>2, <2>3 DEF OwnersInv
<1> QED
  BY <1>10, <1>17

LEMMA ReturnClaims ==
  ASSUME FilesInv, ClaimInv, NEW t \in Threads, Return(t), Served'
  PROVE  OwnersInv'
<1>1. /\ th[t].pc = "return" /\ th'[t] = Idle /\ \A u \in Threads \ {t} : th'[u] = th[u]
      /\ UNCHANGED <<memory, mounted, down, trouble>> /\ forks' = forks
  BY DEF Return, At, Goto, TypeOK, FilesInv, server
<1>2. OwnersInv
  BY <1>1 DEF ClaimInv, Served, Intact
<1>3. ~Claims(Idle) /\ ~Reading(Idle) /\ ~Closing(Idle)
  BY DEF Idle, Claims, Own, Reading, Closing, Running
<1>4. handles' = handles /\ fork' = fork /\ fileids' = fileids
  BY <1>1 DEF memory
<1>5. Structs' \subseteq Structs /\ Ids' \subseteq Ids
  BY <1>1, <1>3, <1>4 DEF Structs, Ids
<1>6. \A u \in Threads : Closing(th'[u]) => th'[u] = th[u]
  BY <1>1, <1>3
<1> QED
  BY <1>1, <1>2, <1>4, <1>5, <1>6 DEF OwnersInv

\* While the volume is served nobody unmounts it and the connection has not gone.
LEMMA ServedStep ==
  ASSUME FilesInv, [Next]_vars, Served'
  PROVE  /\ Served
         /\ UNCHANGED vars \/ \E t \in Threads : Call(t) \/ Return(t) \/ Turning(t)
<1>1. TypeOK /\ GoodFrames /\ OneUnmount
  BY DEF FilesInv
<1>2. ~GoDown
  BY DEF GoDown, Served
<1>3. ASSUME NEW t \in Threads
      PROVE  ~VolClose(t) /\ ~RemoveForkList(t)
  BY <1>1, VolCloseGoes, RemoveForkListGoes DEF OneUnmount, VolClose, RemoveForkList, Served
<1>4. UNCHANGED vars \/ \E t \in Threads : Call(t) \/ Return(t) \/ Turning(t)
  BY <1>2, <1>3 DEF Next, Step, Turning
<1>5. CASE UNCHANGED vars
  BY <1>5 DEF vars, Served, Intact
<1>6. ASSUME NEW t \in Threads, Call(t)
      PROVE  Served
  <2>1. trouble' = trouble /\ down' = down
    BY <1>6 DEF Call, RemoveOrRead, Mknod, Mkdir, Attributes, Getattr, Link, ReadWrite, Release, Open, Fileid, Unmount,
       Begin, NewCall
  <2>2. mounted' => mounted
    BY <1>6 DEF Call, RemoveOrRead, Mknod, Mkdir, Attributes, Getattr, Link, ReadWrite, Release, Open, Fileid, Unmount
  <2> QED
    BY <2>1, <2>2 DEF Served, Intact
<1>7. ASSUME NEW t \in Threads, Return(t)
      PROVE  Served
  BY <1>7 DEF Return, Served, Intact
<1>8. ASSUME NEW t \in Threads, Turning(t)
      PROVE  Served
  <2>1. mounted' = mounted /\ down' = down /\ trouble \subseteq trouble'
    BY <1>1, <1>8, TurningIs
  <2> QED
    BY <2>1 DEF Served, Intact
<1> QED
  BY <1>4, <1>5, <1>6, <1>7, <1>8

LEMMA ClaimStep ==
  ASSUME FilesInv, ClaimInv, [Next]_vars
  PROVE  ClaimInv'
<1> SUFFICES ASSUME Served'
             PROVE  OwnersInv'
  BY DEF ClaimInv
<1>1. CASE UNCHANGED vars
  <2>1. th' = th /\ fork' = fork /\ forks' = forks /\ fileids' = fileids /\ handles' = handles
    BY <1>1 DEF vars, server, memory
  <2>2. OwnersInv
    BY <1>1 DEF vars, ClaimInv, Served, Intact
  <2>3. Structs' = Structs /\ Ids' = Ids
    BY <2>1 DEF Structs, Ids
  <2> QED
    BY <2>1, <2>2, <2>3 DEF OwnersInv
<1>2. ASSUME NEW t \in Threads, Turning(t)
      PROVE  OwnersInv'
  <2>1. PICK f, r : Turn(t, f, r) /\ ForksGo(t, f, r)
    BY <1>2, TurningForks DEF FilesInv
  <2> QED
    BY <1>2, <2>1, TurningClaims
<1> QED
  BY <1>1, <1>2, ServedStep, CallClaims, ReturnClaims

-----------------------------------------------------------------------------
(* Two writes of the same file do not mix. *)

Ranging(f) == f.op \in Ranged /\ Running(f)

\* The call has locked the range, or has gone on without.
Holds(f) == f.op \in Ranged /\ f.pc \in {"io", "unlock"}

Ordered == Served /\ ~NoLocking /\ trouble \cap {"no_lock", "part_refused"} = {}

\* One call holds the range of a file, for its fork.
HoldersInv ==
  \A t \in Threads : Holds(th[t]) =>
    /\ locks[FileOf(th[t])] = ForkOf(th[t])
    /\ \A u \in Threads \ {t} : Holds(th[u]) => FileOf(th[u]) # FileOf(th[t])

\* A read or write has its fork open
LEMMA RangingFork ==
  ASSUME FilesInv, ClaimInv, Served, NEW t \in Threads, Ranging(th[t])
  PROVE  /\ ForkOf(th[t]) \in ForkIds /\ FileOf(th[t]) = forks[ForkOf(th[t])] /\ FileOf(th[t]) \in Inodes
         /\ IF th[t].op = "daemon_read" THEN th[t].fp = Null /\ ForkOf(th[t]) = th[t].id /\ th[t].id \in Ids
            ELSE th[t].fp \in handles /\ th[t].fp \in Structs /\ th[t].fp # Null /\ ForkOf(th[t]) = fork[th[t].fp]
<1>1. TypeOK /\ GoodFrames /\ HeapInv /\ OwnersInv /\ Sane
  BY DEF FilesInv, ClaimInv, Served, Sane
<1>2. /\ Structs \subseteq Blocks \cup Threads /\ Ids \subseteq ForkIds
      /\ fork \in [Blocks \cup Threads -> ForkIds \cup {Null}] /\ forks \in [ForkIds -> Inodes \cup {Null}]
  BY <1>1, ClaimTypes
<1>3. CASE th[t].op = "daemon_read"
  <2>1. th[t].fp = Null /\ th[t].id \in Ids
    BY <1>1, <1>3, FrameOf DEF Ranging, Reading, Ids, Good, Placed, OnBlock, OnStack, Opening
  <2>2. ForkOf(th[t]) = th[t].id
    BY <2>1 DEF ForkOf
  <2>3. th[t].id \in ForkIds /\ forks[th[t].id] # Null
    BY <1>1, <1>2, <2>1 DEF OwnersInv
  <2> QED
    BY <1>2, <1>3, <2>1, <2>2, <2>3, FilesConstants DEF FileOf
<1>4. CASE th[t].op # "daemon_read"
  <2>1. th[t].fp \in handles
    BY <1>1, <1>4 DEF Ranging, Ranged, HeapInv
  <2>2. th[t].fp \in Structs /\ th[t].fp # Null
    BY <1>2, <2>1, FilesConstants DEF Structs
  <2>3. fork[th[t].fp] \in ForkIds /\ forks[fork[th[t].fp]] # Null
    BY <1>1, <1>2, <2>2 DEF OwnersInv
  <2>4. ForkOf(th[t]) = fork[th[t].fp]
    BY <2>2 DEF ForkOf
  <2> QED
    BY <1>2, <1>4, <2>1, <2>2, <2>3, <2>4, FilesConstants DEF FileOf
<1> QED
  BY <1>3, <1>4

\* and keeps it, whatever another call asks for.
LEMMA RangingStays ==
  ASSUME FilesInv, ClaimInv, NEW t \in Threads, Turning(t), Served, Served',
         NEW f, NEW r, Turn(t, f, r), ForksGo(t, f, r), NEW u \in Threads, Ranging(th[u])
  PROVE  /\ ForkOf(th[u])' = ForkOf(th[u]) /\ FileOf(th[u])' = FileOf(th[u])
         /\ f.pc = "close" /\ r = "ok" => ForkOf(f) # ForkOf(th[u])
<1>1. TypeOK /\ GoodFrames /\ HeapInv /\ OwnersInv /\ Sane /\ Intact'
  BY DEF FilesInv, ClaimInv, Served, Sane
<1>2. PICK k : k = ForkOf(th[u])
  OBVIOUS
<1>3. /\ k \in ForkIds /\ FileOf(th[u]) = forks[k] /\ FileOf(th[u]) \in Inodes
      /\ IF th[u].op = "daemon_read" THEN th[u].fp = Null /\ k = th[u].id /\ th[u].id \in Ids
         ELSE th[u].fp \in handles /\ th[u].fp \in Structs /\ th[u].fp # Null /\ k = fork[th[u].fp]
  BY <1>2, RangingFork
<1>4. PICK g : g = After(f, r)
  OBVIOUS
<1>5. /\ f.pc = th[t].pc /\ f.op = th[t].op /\ f.fp = th[t].fp /\ f.id = th[t].id /\ Good(t, f) /\ Running(f)
      /\ th'[t] = g /\ g.fp = f.fp /\ g.id = f.id /\ Moves(t, g)
  BY <1>4, TurnFrame DEF Turn, Same
<1>6. th'[u].fp = th[u].fp /\ th'[u].id = th[u].id
  BY <1>1, <1>5, OthersStay
<1>7. /\ Structs \subseteq Blocks \cup Threads /\ Ids \subseteq ForkIds
      /\ fork \in [Blocks \cup Threads -> ForkIds \cup {Null}] /\ forks \in [ForkIds -> Inodes \cup {Null}]
  BY <1>1, ClaimTypes
<1>8. /\ f.pc = "open" => f.fp \notin Structs
      /\ f.pc = "close" /\ f.op # "daemon_close" => f.fp \in Structs
      /\ f.op = "daemon_close" => Closing(th[t])
  BY TurningOwners
<1>9. f.pc = "close" /\ r = "ok" => ForkOf(f) # k
  <2> HAVE f.pc = "close" /\ r = "ok"
  <2>1. ~InUse(ForkOf(f))
    BY <1>1 DEF ForksGo
  <2>2. CASE f.op = "daemon_close"
    <3>1. ForkOf(f) = f.id /\ f.id \in Ids
      BY <1>5, <1>8, <2>2 DEF Ids, ForkOf, Good, Placed, OnBlock, OnStack, Opening
    <3>2. th[u].op = "daemon_read" => th[u].pc \in {"lock", "io", "unlock"}
      BY <1>1, FrameOf DEF Ranging, Good, Placed, PcsOf, Running
    <3> QED
      BY <1>1, <1>3, <2>1, <3>1, <3>2 DEF InUse, OwnersInv
  <2>3. CASE f.op # "daemon_close"
    <3>1. f.fp \in Structs /\ f.fp # Null
      BY <1>7, <1>8, <2>3, FilesConstants
    <3>2. ForkOf(f) = fork[f.fp]
      BY <3>1 DEF ForkOf
    <3>3. Own(th[t])
      BY <1>5, <2>3 DEF Good, Placed, PcsOf, AllOps, Own, OnStack, Opening, Running
    <3>4. f.fp \notin handles
      BY <1>1, <1>5, <3>3 DEF HeapInv
    <3> QED
      BY <1>1, <1>3, <3>1, <3>2, <3>4 DEF OwnersInv
  <2> QED
    BY <2>2, <2>3
<1>10. fork'[th[u].fp] = fork[th[u].fp] \/ th[u].fp = Null
  <2>1. th[u].fp # Null => th[u].fp \in Blocks \cup Threads /\ th[u].fp \in Structs
    BY <1>3, <1>7
  <2>2. f.pc # "open" => fork' = fork
    BY DEF ForksGo
  <2>3. f.pc = "open" => fork' = fork \/ \E j : fork' = [fork EXCEPT ![f.fp] = j]
    BY <1>1 DEF ForksGo, OpenForkDoes, Intact
  <2> QED
    BY <1>7, <1>8, <2>1, <2>2, <2>3
<1>11. forks'[k] = forks[k]
  <2>1. CASE f.pc = "open"
    <3>1. forks' = forks \/ \E j \in UnusedForks, i \in Inodes : forks' = [forks EXCEPT ![j] = i]
      BY <2>1 DEF ForksGo, OpenForkDoes
    <3>2. k \notin UnusedForks
      BY <1>3, FilesConstants DEF UnusedForks
    <3> QED
      BY <1>3, <1>7, <3>1, <3>2 DEF UnusedForks
  <2>2. CASE f.pc = "close"
    BY <1>3, <1>7, <1>9, <2>2 DEF ForksGo
  <2> QED
    BY <2>1, <2>2 DEF ForksGo
<1>12. ForkOf(th[u])' = k
  BY <1>2, <1>3, <1>6, <1>10 DEF ForkOf
<1>13. FileOf(th[u])' = FileOf(th[u])
  <2>1. k # Null
    BY <1>3, FilesConstants
  <2> QED
    BY <1>3, <1>11, <1>12, <2>1 DEF FileOf
<1> QED
  BY <1>2, <1>9, <1>12, <1>13

LEMMA OrderedStep ==
  ASSUME FilesInv, [Next]_vars, Ordered'
  PROVE  Ordered
<1>1. Served /\ (UNCHANGED vars \/ \E t \in Threads : Call(t) \/ Return(t) \/ Turning(t))
  BY ServedStep DEF Ordered
<1>2. trouble \subseteq trouble'
  <2>1. \A t \in Threads : Turning(t) => trouble \subseteq trouble'
    BY TurningIs DEF FilesInv
  <2>2. \A t \in Threads : Call(t) => trouble' = trouble
    BY DEF Call, RemoveOrRead, Mknod, Mkdir, Attributes, Getattr, Link, ReadWrite, Release, Open, Fileid, Unmount,
       Begin, NewCall
  <2> QED
    BY <1>1, <2>1, <2>2 DEF Return, vars
<1> QED
  BY <1>1, <1>2 DEF Ordered

LEMMA TurningHolders ==
  ASSUME FilesInv, ClaimInv, HoldersInv, NEW t \in Threads, Turning(t), Ordered, Ordered',
         NEW f, NEW r, Turn(t, f, r), ForksGo(t, f, r), RangesGo(t, f, r)
  PROVE  HoldersInv'
<1>1. TypeOK /\ GoodFrames /\ Served /\ Served'
  BY DEF FilesInv, Ordered
<1>2. PICK g : g = After(f, r)
  OBVIOUS
<1>3. /\ f.pc = th[t].pc /\ f.op = th[t].op /\ f.fp = th[t].fp /\ f.id = th[t].id
      /\ th'[t] = g /\ g.op = f.op /\ Moves(t, g) /\ LockOrder(f, r, g)
  BY <1>2, TurnFrame DEF Turn, Same
<1>4. \A u \in Threads \ {t} : Holds(th'[u]) <=> Holds(th[u])
  BY <1>1, <1>3, OthersStay DEF Holds
<1>5. \A u \in Threads : Ranging(th[u]) =>
        /\ ForkOf(th[u]) \in ForkIds /\ FileOf(th[u]) \in Inodes
        /\ ForkOf(th[u])' = ForkOf(th[u]) /\ FileOf(th[u])' = FileOf(th[u])
        /\ f.pc = "close" /\ r = "ok" => ForkOf(f) # ForkOf(th[u])
  BY <1>1, RangingFork, RangingStays
<1>6. \A u \in Threads : Holds(th[u]) => Ranging(th[u])
  BY DEF Holds, Ranging, Running
<1>7. ForkOf(f) = ForkOf(th[t]) /\ FileOf(f) = FileOf(th[t])
  BY <1>3 DEF ForkOf, FileOf
<1>8. locks \in [Inodes -> ForkIds \cup {Null}]
  BY <1>1 DEF TypeOK
\* Who holds a range keeps it, unless it is t that unlocks it.
<1>9. ASSUME NEW u \in Threads, Holds(th[u]), u = t => f.pc # "unlock"
      PROVE  locks'[FileOf(th[u])] = ForkOf(th[u])
  <2>1. /\ locks[FileOf(th[u])] = ForkOf(th[u]) /\ FileOf(th[u]) \in Inodes /\ ForkOf(th[u]) # Null
        /\ u # t /\ Holds(th[t]) => FileOf(th[t]) # FileOf(th[u])
    BY <1>5, <1>6, <1>9, FilesConstants DEF HoldersInv
  <2>2. CASE f.pc = "lock"
    BY <1>8, <2>1, <2>2 DEF RangesGo, LockDoes
  <2>3. CASE f.pc = "unlock"
    <3>1. u # t
      BY <1>9, <2>3
    <3>2. r = "ok" => Holds(th[t])
      <4>1. Good(t, f) /\ Running(f)
        BY TurnFrame
      <4> QED
        BY <1>3, <2>3, <4>1 DEF Holds, Good, Placed, PcsOf, AllOps, Ranged, Running
    <3> QED
      BY <1>7, <1>8, <2>1, <2>3, <3>1, <3>2 DEF RangesGo, UnlockDoes
  <2>4. CASE f.pc = "close"
    BY <1>5, <1>6, <1>8, <1>9, <2>1, <2>4 DEF RangesGo, CloseForkDoes
  <2> QED
    BY <2>1, <2>2, <2>3, <2>4 DEF RangesGo
\* t holds a range from its lock on.
<1>10. Holds(g) => \/ f.pc = "io" /\ Holds(th[t])
                   \/ f.pc = "lock" /\ r = "ok" /\ Ranging(th[t])
  <2> HAVE Holds(g)
  <2>1. f.op \in Ranged
    BY <1>3 DEF Holds
  <2>2. CASE g.pc = "unlock"
    BY <1>3, <2>1, <2>2 DEF LockOrder, Holds
  <2>3. CASE g.pc = "io" /\ f.pc = "io"
    BY <1>3, <2>1, <2>3 DEF Holds
  <2>4. CASE g.pc = "io" /\ f.pc # "io"
    <3>1. f.pc = "lock" /\ r \in {"ok", "lockerr"}
      BY <1>3, <2>1, <2>4 DEF LockOrder, Ordered
    <3>2. r # "lockerr"
      BY <1>2, <2>4, <3>1 DEF RangesGo, LockDoes, Ordered
    <3> QED
      BY <1>3, <2>1, <3>1, <3>2 DEF Ranging, Running
  <2> QED
    BY <2>2, <2>3, <2>4 DEF Holds
<1>11. CASE f.pc = "lock" /\ r = "ok"
  <2>1. /\ FileOf(th[t]) # Null /\ locks[FileOf(th[t])] = Null
        /\ locks' = [locks EXCEPT ![FileOf(th[t])] = ForkOf(th[t])]
    BY <1>7, <1>11 DEF RangesGo, LockDoes
  <2>2. \A u \in Threads \ {t} : Holds(th[u]) => FileOf(th[u]) # FileOf(th[t])
    BY <1>5, <1>6, <2>1, FilesConstants DEF HoldersInv
  <2>3. Holds(g) => locks'[FileOf(th[t])] = ForkOf(th[t])
    BY <1>5, <1>8, <1>10, <1>11, <2>1
  <2>4. \A u \in Threads : Holds(th'[u]) => locks'[FileOf(th[u])] = ForkOf(th[u]) /\ Ranging(th[u])
    BY <1>3, <1>4, <1>6, <1>9, <1>10, <1>11, <2>3
  <2>5. \A u, v \in Threads : u # v /\ Holds(th'[u]) /\ Holds(th'[v]) => FileOf(th[v]) # FileOf(th[u])
    BY <1>4, <2>2 DEF HoldersInv
  <2> QED
    BY <1>5, <2>4, <2>5 DEF HoldersInv
<1>12. CASE ~(f.pc = "lock" /\ r = "ok")
  <2>1. \A u \in Threads : Holds(th'[u]) => Holds(th[u]) /\ (u = t => f.pc # "unlock")
    BY <1>3, <1>4, <1>10, <1>12
  <2>2. \A u \in Threads : Holds(th'[u]) => locks'[FileOf(th[u])] = ForkOf(th[u])
    BY <1>9, <2>1
  <2> QED
    BY <1>5, <1>6, <2>1, <2>2 DEF HoldersInv
<1> QED
  BY <1>11, <1>12

\* A write of t is in the middle of its parts.
Writes(f) == f.op = "write" /\ f.pc = "io"

\* These parts of a file come from one write at most.
OneWriter(i, S) == \E w \in Threads \cup {Null} : \A p \in S : content[i][p] \in {w, Null}

\* The parts of a file are of one write, or a write has got as far as its parts k, and
\* what follows is of one other write.
PartsInv ==
  /\ \A t \in Threads : Writes(th[t]) =>
       /\ \A p \in 1..th[t].k : content[FileOf(th[t])][p] \in {t, Null}
       /\ OneWriter(FileOf(th[t]), (th[t].k + 1)..Packets)
  /\ \A i \in Inodes : OneWriter(i, 1..Packets) \/ \E t \in Threads : Writes(th[t]) /\ FileOf(th[t]) = i

WholeInv == Ordered => HoldersInv /\ PartsInv

\* Parts that are emptied were of no other write.
LEMMA TidiesParts ==
  ASSUME TypeOK, Tidies, NEW i \in Inodes, NEW S \in SUBSET (1..Packets)
  PROVE  /\ OneWriter(i, S) => OneWriter(i, S)'
         /\ \A t \in Threads : (\A p \in S : content[i][p] \in {t, Null}) => \A p \in S : content'[i][p] \in {t, Null}
<1>1. \A p \in S : content'[i][p] \in {content[i][p], Null}
  <2>1. content \in [Inodes -> [1..Packets -> Threads \cup {Null}]] /\ \A p \in S : Blank[p] = Null
    BY DEF TypeOK, Blank
  <2> QED
    BY <2>1 DEF Tidies
<1> QED
  BY <1>1 DEF OneWriter

\* A request of a call that is not writing a part
LEMMA TidyParts ==
  ASSUME FilesInv, ClaimInv, HoldersInv, PartsInv, NEW t \in Threads, Turning(t), Ordered, Ordered',
         NEW f, NEW r, Turn(t, f, r), ForksGo(t, f, r), RangesGo(t, f, r), ~Writes(f)
  PROVE  PartsInv'
<1>1. TypeOK /\ GoodFrames /\ Served /\ Served' /\ Packets \in Nat
  BY FilesConstants DEF FilesInv, Ordered
<1>2. PICK g : g = After(f, r)
  OBVIOUS
<1>3. /\ f.pc = th[t].pc /\ f.op = th[t].op /\ f.fp = th[t].fp /\ f.id = th[t].id /\ f.k = th[t].k
      /\ th'[t] = g /\ g.op = f.op /\ Moves(t, g) /\ LockOrder(f, r, g) /\ Good(t, f) /\ Good(t, g)
  BY <1>2, TurnFrame DEF Turn, Same
<1>4. \A u \in Threads \ {t} : th'[u].op = th[u].op /\ th'[u].pc = th[u].pc /\ th'[u].k = th[u].k
  BY <1>1, <1>3, OthersStay
<1>5. \A u \in Threads : Ranging(th[u]) =>
        ForkOf(th[u]) \in ForkIds /\ FileOf(th[u]) \in Inodes /\ FileOf(th[u])' = FileOf(th[u])
  BY <1>1, RangingFork, RangingStays
<1>6. \A u \in Threads : Writes(th[u]) => Ranging(th[u]) /\ Holds(th[u]) /\ th[u].k \in 0..Packets
  BY <1>1, FrameOf DEF Writes, Ranging, Running, Holds, Ranged, Good, Frame
<1>7. Tidies
  BY DEF RangesGo, Writes
<1>8. ~Writes(th[t])
  BY <1>3 DEF Writes
<1>9. Writes(g) => /\ Ranging(th[t]) /\ g.k = 0 /\ \A u \in Threads : Writes(th[u]) => FileOf(th[u]) # FileOf(th[t])
  <2> HAVE Writes(g)
  <2>1. f.pc = "lock" /\ r \in {"ok", "lockerr"} /\ f.op = "write" /\ g.k = f.k
    BY <1>3 DEF Writes, LockOrder, Ranged, Ordered
  <2>2. r # "lockerr"
    BY <1>2, <2>1 DEF RangesGo, LockDoes, Ordered, Writes
  <2>3. locks[FileOf(th[t])] = Null
    BY <1>3, <2>1, <2>2 DEF RangesGo, LockDoes, ForkOf, FileOf
  <2>4. \A u \in Threads : Writes(th[u]) => FileOf(th[u]) # FileOf(th[t])
    BY <1>5, <1>6, <2>3, FilesConstants DEF HoldersInv
  <2>5. f.k = 0
    BY <1>3, <2>1 DEF Good, Placed
  <2> QED
    BY <1>3, <2>1, <2>4, <2>5 DEF Ranging, Running, Ranged
<1>10. ASSUME NEW u \in Threads, Writes(th'[u])
       PROVE  /\ \A p \in 1..th'[u].k : content'[FileOf(th[u])'][p] \in {u, Null}
              /\ OneWriter(FileOf(th[u]), (th[u].k + 1)..Packets)'
  <2> PICK i : i = FileOf(th[u])
    OBVIOUS
  <2>1. CASE u # t
    <3>1. Writes(th[u]) /\ th'[u].k = th[u].k
      BY <1>4, <1>10, <2>1 DEF Writes
    <3>2. i \in Inodes /\ th[u].k \in 0..Packets /\ i = FileOf(th[u])'
      BY <1>5, <1>6, <3>1
    <3>3. 1..th[u].k \in SUBSET (1..Packets) /\ (th[u].k + 1)..Packets \in SUBSET (1..Packets)
      BY <1>1, <3>2
    <3>4. (\A p \in 1..th[u].k : content[i][p] \in {u, Null}) /\ OneWriter(i, (th[u].k + 1)..Packets)
      BY <3>1 DEF PartsInv
    <3>5. OneWriter(i, (th[u].k + 1)..Packets)'
      <4>1. PICK S : S = (th[u].k + 1)..Packets
        OBVIOUS
      <4>2. OneWriter(i, S)'
        BY <1>1, <1>7, <3>2, <3>3, <3>4, <4>1, TidiesParts
      <4> QED
        BY <3>1, <4>1, <4>2 DEF OneWriter
    <3>6. \A p \in 1..th[u].k : content'[i][p] \in {u, Null}
      BY <1>1, <1>7, <3>2, <3>3, <3>4, TidiesParts
    <3> QED
      BY <3>1, <3>2, <3>5, <3>6 DEF OneWriter
  <2>2. CASE u = t
    <3>1. i \in Inodes /\ i = FileOf(th[u])' /\ th'[u].k = 0 /\ ~\E v \in Threads : Writes(th[v]) /\ FileOf(th[v]) = i
      BY <1>3, <1>5, <1>9, <1>10, <2>2
    <3>2. OneWriter(i, 1..Packets)
      BY <3>1 DEF PartsInv
    <3>3. OneWriter(i, 1..Packets)'
      BY <1>1, <1>7, <3>1, <3>2, TidiesParts
    <3> QED
      BY <3>1, <3>3 DEF OneWriter
  <2> QED
    BY <2>1, <2>2
<1>11. ASSUME NEW i \in Inodes
       PROVE  OneWriter(i, 1..Packets)' \/ \E u \in Threads : Writes(th'[u]) /\ FileOf(th[u])' = i
  <2>1. CASE OneWriter(i, 1..Packets)
    BY <1>1, <1>7, <2>1, TidiesParts
  <2>2. CASE \E u \in Threads : Writes(th[u]) /\ FileOf(th[u]) = i
    <3>1. PICK u \in Threads : Writes(th[u]) /\ FileOf(th[u]) = i
      BY <2>2
    <3>2. Writes(th'[u]) /\ FileOf(th[u])' = i
      BY <1>4, <1>5, <1>6, <1>8, <3>1 DEF Writes
    <3> QED
      BY <3>2
  <2> QED
    BY <2>1, <2>2 DEF PartsInv
<1> QED
  BY <1>10, <1>11 DEF PartsInv, OneWriter

\* A part is written: its write holds the range, so that what was written before it
\* is its own.
LEMMA WriteParts ==
  ASSUME FilesInv, ClaimInv, HoldersInv, PartsInv, NEW t \in Threads, Turning(t), Ordered, Ordered',
         NEW f, NEW r, Turn(t, f, r), ForksGo(t, f, r), RangesGo(t, f, r), Writes(f)
  PROVE  PartsInv'
<1>1. TypeOK /\ GoodFrames /\ Served /\ Served' /\ Packets \in Nat
  BY FilesConstants DEF FilesInv, Ordered
<1>2. PICK g : g = After(f, r)
  OBVIOUS
<1>3. /\ f.pc = th[t].pc /\ f.op = th[t].op /\ f.fp = th[t].fp /\ f.id = th[t].id /\ f.k = th[t].k
      /\ th'[t] = g /\ g.op = f.op /\ Moves(t, g) /\ LockOrder(f, r, g) /\ Good(t, f) /\ Good(t, g)
  BY <1>2, TurnFrame DEF Turn, Same
<1>4. \A u \in Threads \ {t} : th'[u].op = th[u].op /\ th'[u].pc = th[u].pc /\ th'[u].k = th[u].k
  BY <1>1, <1>3, OthersStay
<1>5. \A u \in Threads : Writes(th[u]) => Ranging(th[u]) /\ Holds(th[u])
  BY DEF Writes, Ranging, Running, Holds, Ranged
<1>6. \A u \in Threads : Writes(th[u]) => FileOf(th[u]) \in Inodes /\ FileOf(th[u])' = FileOf(th[u])
  BY <1>1, <1>5, RangingFork, RangingStays
<1>7. PICK j, k : j = FileOf(th[t]) /\ k = th[t].k
  OBVIOUS
<1>8. Writes(th[t]) /\ j \in Inodes /\ FileOf(th[t])' = j
  BY <1>3, <1>6, <1>7 DEF Writes
<1>9. k \in Nat /\ k < Packets /\ g.k = k + 1 /\ g.pc = IF k + 1 < Packets THEN "io" ELSE "unlock"
  BY <1>3, <1>7 DEF Writes, Good, Placed, Frame, LockOrder, Ranged, Ordered
<1>10. content' = [content EXCEPT ![j] = [content[j] EXCEPT ![k + 1] = t]]
  BY <1>3, <1>7 DEF RangesGo, Writes, WriteDoes, Ordered, FileOf, ForkOf
<1>11. content \in [Inodes -> [1..Packets -> Threads \cup {Null}]]
  BY <1>1 DEF TypeOK
<1>12. /\ \A i \in Inodes \ {j} : content'[i] = content[i]
       /\ content'[j][k + 1] = t
       /\ \A p \in (1..Packets) \ {k + 1} : content'[j][p] = content[j][p]
  <2>1. k + 1 \in 1..Packets /\ content[j] \in [1..Packets -> Threads \cup {Null}]
    BY <1>1, <1>8, <1>9, <1>11
  <2>2. PICK c : c = [content[j] EXCEPT ![k + 1] = t]
    OBVIOUS
  <2>3. c[k + 1] = t /\ \A p \in (1..Packets) \ {k + 1} : c[p] = content[j][p]
    BY <2>1, <2>2
  <2>4. content'[j] = c /\ \A i \in Inodes \ {j} : content'[i] = content[i]
    BY <1>8, <1>10, <1>11, <2>2
  <2> QED
    BY <2>3, <2>4
<1>13. /\ \A p \in 1..k : content[j][p] \in {t, Null}
       /\ OneWriter(j, (k + 1)..Packets)
  BY <1>7, <1>8 DEF PartsInv
<1>14. \A p \in 1..(k + 1) : content'[j][p] \in {t, Null}
  <2>1. \A p \in 1..(k + 1) : p = k + 1 \/ (p \in 1..k /\ p \in (1..Packets) \ {k + 1})
    BY <1>1, <1>9
  <2> QED
    BY <1>12, <1>13, <2>1
<1>15. \E w \in Threads \cup {Null} : \A p \in (k + 2)..Packets : content'[j][p] \in {w, Null}
  <2>1. PICK w \in Threads \cup {Null} : \A p \in (k + 1)..Packets : content[j][p] \in {w, Null}
    BY <1>13 DEF OneWriter
  <2> QED
    BY <1>9, <1>12, <2>1
<1>16. ASSUME NEW u \in Threads, Writes(th'[u])
       PROVE  /\ \A p \in 1..th'[u].k : content'[FileOf(th[u])'][p] \in {u, Null}
              /\ OneWriter(FileOf(th[u]), (th[u].k + 1)..Packets)'
  <2>1. CASE u = t
    BY <1>1, <1>3, <1>8, <1>9, <1>14, <1>15, <2>1 DEF OneWriter
  <2>2. CASE u # t
    <3>1. Writes(th[u]) /\ th'[u].k = th[u].k
      BY <1>4, <1>16, <2>2 DEF Writes
    <3>2. FileOf(th[u]) # j /\ FileOf(th[u]) \in Inodes /\ FileOf(th[u])' = FileOf(th[u])
      BY <1>5, <1>6, <1>7, <1>8, <2>2, <3>1 DEF HoldersInv
    <3>3. content'[FileOf(th[u])'] = content[FileOf(th[u])]
      BY <1>12, <3>2
    <3> QED
      BY <3>1, <3>3 DEF PartsInv, OneWriter
  <2> QED
    BY <2>1, <2>2
<1>17. ASSUME NEW i \in Inodes
       PROVE  OneWriter(i, 1..Packets)' \/ \E u \in Threads : Writes(th'[u]) /\ FileOf(th[u])' = i
  <2>1. CASE i = j
    <3>1. CASE k + 1 < Packets
      BY <1>3, <1>8, <1>9, <2>1, <3>1 DEF Writes
    <3>2. CASE ~(k + 1 < Packets)
      <4>1. Packets = k + 1
        BY <1>1, <1>9, <3>2
      <4> QED
        BY <1>14, <2>1, <4>1 DEF OneWriter
    <3> QED
      BY <3>1, <3>2
  <2>2. CASE i # j /\ OneWriter(i, 1..Packets)
    BY <1>12, <2>2 DEF OneWriter
  <2>3. CASE i # j /\ \E u \in Threads : Writes(th[u]) /\ FileOf(th[u]) = i
    <3>1. PICK u \in Threads : Writes(th[u]) /\ FileOf(th[u]) = i
      BY <2>3
    <3>2. Writes(th'[u]) /\ FileOf(th[u])' = i
      BY <1>4, <1>6, <1>7, <2>3, <3>1 DEF Writes
    <3> QED
      BY <3>2
  <2> QED
    BY <2>1, <2>2, <2>3 DEF PartsInv
<1> QED
  BY <1>16, <1>17 DEF PartsInv, OneWriter

\* A step that leaves ranges, what is in them and who holds them as they are
LEMMA StillWhole ==
  ASSUME HoldersInv, PartsInv, content' = content, locks' = locks,
         \A u \in Threads : Holds(th'[u]) \/ Holds(th[u]) => th'[u] = th[u],
         \A u \in Threads : Holds(th[u]) => ForkOf(th[u])' = ForkOf(th[u]) /\ FileOf(th[u])' = FileOf(th[u])
  PROVE  HoldersInv' /\ PartsInv'
<1>1. HoldersInv'
  BY DEF HoldersInv
<1>2. \A f : Writes(f) => Holds(f)
  BY DEF Writes, Holds, Ranged
<1>3. \A u \in Threads : Writes(th'[u]) => th'[u] = th[u] /\ FileOf(th[u])' = FileOf(th[u])
  BY <1>2
<1>4. \A u \in Threads : Writes(th[u]) => th'[u] = th[u] /\ FileOf(th[u])' = FileOf(th[u])
  BY <1>2
<1>5. ASSUME NEW u \in Threads, Writes(th'[u])
      PROVE  /\ \A p \in 1..th'[u].k : content'[FileOf(th[u])'][p] \in {u, Null}
             /\ OneWriter(FileOf(th[u]), (th[u].k + 1)..Packets)'
  BY <1>3, <1>5 DEF PartsInv, OneWriter
<1>6. ASSUME NEW i \in Inodes
      PROVE  OneWriter(i, 1..Packets)' \/ \E u \in Threads : Writes(th'[u]) /\ FileOf(th[u])' = i
  BY <1>4 DEF PartsInv, OneWriter
<1> QED
  BY <1>1, <1>5, <1>6 DEF PartsInv, OneWriter

LEMMA WholeStep ==
  ASSUME FilesInv, ClaimInv, WholeInv, [Next]_vars
  PROVE  WholeInv'
<1> SUFFICES ASSUME Ordered'
             PROVE  HoldersInv' /\ PartsInv'
  BY DEF WholeInv
<1>1. Ordered /\ Served /\ Served' /\ HoldersInv /\ PartsInv /\ TypeOK /\ GoodFrames
  BY OrderedStep DEF WholeInv, Ordered, FilesInv
<1>2. \A u \in Threads : Holds(th[u]) => Ranging(th[u])
  BY DEF Holds, Ranging, Running
<1>3. CASE UNCHANGED vars
  <2>1. th' = th /\ content' = content /\ locks' = locks /\ forks' = forks /\ fork' = fork
    BY <1>3 DEF vars, server, memory
  <2>2. \A u \in Threads : ForkOf(th[u])' = ForkOf(th[u]) /\ FileOf(th[u])' = FileOf(th[u])
    BY <2>1 DEF ForkOf, FileOf
  <2> QED
    BY <1>1, <2>1, <2>2, StillWhole
<1>4. ASSUME NEW t \in Threads, Turning(t)
      PROVE  HoldersInv' /\ PartsInv'
  <2>1. PICK f, r : Turn(t, f, r) /\ ForksGo(t, f, r) /\ RangesGo(t, f, r)
    BY <1>1, <1>4, TurningForks
  <2>2. HoldersInv'
    BY <1>1, <1>4, <2>1, TurningHolders
  <2>3. PartsInv'
    BY <1>1, <1>4, <2>1, TidyParts, WriteParts
  <2> QED
    BY <2>2, <2>3
<1>5. ASSUME NEW t \in Threads, Call(t)
      PROVE  HoldersInv' /\ PartsInv'
  <2>1. PICK g : NewFrame(t, g)
    BY <1>1, <1>5, CallIs
  <2>2. /\ th[t].pc = "idle" /\ th'[t] = g /\ \A u \in Threads \ {t} : th'[u] = th[u]
        /\ content' = content /\ locks' = locks /\ forks' = forks
    BY <1>1, <2>1 DEF NewFrame, TypeOK, server
  <2>3. ~Holds(th[t]) /\ ~Holds(g)
    BY <1>1, <2>1, <2>2 DEF Holds, NewFrame, Ordered
  <2>4. \A x \in Structs : fork'[x] = fork[x]
    BY <1>1, <1>5, CallClaims
  <2>5. ASSUME NEW u \in Threads, Holds(th[u])
        PROVE  ForkOf(th[u])' = ForkOf(th[u]) /\ FileOf(th[u])' = FileOf(th[u])
    <3>1. th'[u] = th[u] /\ (th[u].fp # Null => th[u].fp \in Structs)
      BY <1>1, <1>2, <2>2, <2>3, <2>5, RangingFork
    <3>2. ForkOf(th[u])' = ForkOf(th[u])
      BY <2>4, <3>1 DEF ForkOf
    <3> QED
      BY <2>2, <3>2 DEF FileOf
  <2> QED
    BY <1>1, <2>2, <2>3, <2>5, StillWhole
<1>6. ASSUME NEW t \in Threads, Return(t)
      PROVE  HoldersInv' /\ PartsInv'
  <2>1. /\ th[t].pc = "return" /\ th'[t] = Idle /\ \A u \in Threads \ {t} : th'[u] = th[u]
        /\ content' = content /\ locks' = locks /\ forks' = forks /\ fork' = fork
    BY <1>1, <1>6 DEF Return, At, Goto, TypeOK, server, memory
  <2>2. ~Holds(th[t]) /\ ~Holds(Idle)
    BY <2>1 DEF Holds, Idle
  <2>3. \A u \in Threads : Holds(th[u]) => ForkOf(th[u])' = ForkOf(th[u]) /\ FileOf(th[u])' = FileOf(th[u])
    BY <2>1, <2>2 DEF ForkOf, FileOf
  <2> QED
    BY <1>1, <2>1, <2>2, <2>3, StillWhole
<1> QED
  BY <1>3, <1>4, <1>5, <1>6, ServedStep, <1>1

LEMMA ClaimsInit ==
  ASSUME Init
  PROVE  ClaimInv /\ WholeInv
<1>1. PICK f \in Inodes, open \in SUBSET Blocks :
        /\ \E id \in [open -> ForkIds] :
             /\ IsInjective(id)
             /\ forks = [k \in ForkIds |-> IF k \in Range(id) THEN f ELSE Null]
             /\ fork = [x \in Blocks \cup Threads |-> IF x \in open THEN id[x] ELSE Null]
        /\ handles = open
  BY DEF Init
<1>2. content = [i \in Inodes |-> Blank] /\ fileids = {} /\ th = [t \in Threads |-> Idle]
  BY DEF Init
<1>3. \A t \in Threads : ~Claims(th[t]) /\ ~Reading(th[t]) /\ ~Closing(th[t]) /\ ~Holds(th[t]) /\ ~Writes(th[t])
  BY <1>2 DEF Idle, Claims, Own, Reading, Closing, Running, Holds, Writes
<1>4. Structs = open /\ Ids = {}
  BY <1>1, <1>2, <1>3 DEF Structs, Ids
<1>5. OwnersInv
  <2>1. PICK id \in [open -> ForkIds] :
             /\ IsInjective(id)
             /\ forks = [k \in ForkIds |-> IF k \in Range(id) THEN f ELSE Null]
             /\ fork = [x \in Blocks \cup Threads |-> IF x \in open THEN id[x] ELSE Null]
    BY <1>1
  <2>2. \A x \in open : fork[x] = id[x] /\ id[x] \in ForkIds /\ id[x] \in Range(id)
    BY <2>1 DEF Range
  <2>3. \A x \in open : fork[x] # Null /\ forks[fork[x]] # Null
    BY <2>1, <2>2, FilesConstants
  <2>4. \A x, y \in open : fork[x] = fork[y] => x = y
    BY <2>1, <2>2 DEF IsInjective
  <2> QED
    BY <1>3, <1>4, <2>3, <2>4 DEF OwnersInv
<1>6. HoldersInv /\ PartsInv
  BY <1>2, <1>3 DEF HoldersInv, PartsInv, OneWriter, Blank
<1> QED
  BY <1>5, <1>6 DEF ClaimInv, WholeInv

\* Two writes of the same range of a file do not mix (ll_write() and its byte range
\* lock, lib/lowlevel.c), whatever opens, closes and truncates other calls make in
\* between, unless one went on without the lock or a part was refused.
THEOREM WritesAreWhole == Spec => [](Intact => WholeWrites)
<1> DEFINE Inv == FilesInv /\ ClaimInv /\ WholeInv
<1>1. Init => Inv
  BY FilesInitInv, ClaimsInit
<1>2. Inv /\ [Next]_vars => Inv'
  BY FilesStep, ClaimStep, WholeStep
<1>3. Inv => (Intact => WholeWrites)
  <2> SUFFICES ASSUME Inv, Intact, ~NoLocking, ~down, mounted, trouble \cap {"no_lock", "part_refused"} = {},
                      NEW i \in Inodes, ~\E t \in Threads : th[t].op = "write" /\ th[t].pc = "io" /\ FileOf(th[t]) = i
               PROVE  Cardinality({content[i][p] : p \in 1..Packets} \ {Null}) <= 1
    BY DEF WholeWrites
  <2>1. PartsInv
    BY DEF WholeInv, Ordered, Served
  <2>2. OneWriter(i, 1..Packets)
    BY <2>1 DEF PartsInv, Writes
  <2>3. PICK w : \A p \in 1..Packets : content[i][p] \in {w, Null}
    BY <2>2 DEF OneWriter
  <2> DEFINE S == {content[i][p] : p \in 1..Packets} \ {Null}
  <2>4. S \subseteq {w}
    BY <2>3
  <2>5. S = {} \/ S = {w}
    BY <2>4
  <2>6. Cardinality(S) \in {0, 1}
    BY <2>5, FS_EmptySet, FS_Singleton
  <2> QED
    BY <2>6
<1> HIDE DEF Inv
<1> QED
  BY <1>1, <1>2, <1>3, PTL DEF Spec
=============================================================================
