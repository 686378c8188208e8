------------------------------- MODULE Files -------------------------------
(***************************************************************************)
(* File operations of libafpclient (lib/midlevel.c, lib/lowlevel.c,        *)
(* lib/forklist.c) on one mounted volume, called by FUSE's threads         *)
(* (daemon/fuse_int.c) and by the daemon's command threads (process_open,  *)
(* process_read, process_close of daemon/commands.c).                      *)
(*                                                                         *)
(* A call is a sequence of AFP requests; the server performs a request and *)
(* answers it in one step, and what other threads do comes between two     *)
(* requests.  Paths are names in one directory: the ids of directories are *)
(* the business of DidCache.                                               *)
(***************************************************************************)
EXTENDS Integers, Sequences, FiniteSets, SequencesExt, Functions

CONSTANTS
  Threads,     \* threads that make calls
  Names,       \* paths
  Inodes,      \* objects on the server
  ForkIds,     \* the server's fork reference numbers
  Blocks,      \* memory for struct afp_file_info
  Ops,         \* the calls that are made
  Packets,     \* requests one write takes: its size over tx_quantum
  Tries,       \* MAX_LOCKTRYCOUNT, 10 in the code
  UnixPrivs,   \* VOLUME_EXTRA_FLAGS_VOL_SUPPORTS_UNIX
  NoLocking,   \* VOLUME_EXTRA_FLAGS_NO_LOCKING
  MaxCalls,    \* bound: calls in a behaviour
  MaxRefusals, \* bound: requests the server refuses of its own accord
  Null

AllOps == {"open", "daemon_open", "daemon_creat", "daemon_trunc", "read", "write", "release",
           "daemon_read", "daemon_close", "creat", "mkdir", "unlink", "rmdir", "rename",
           "truncate", "symlink", "readlink", "chmod", "chown", "utime", "getattr", "unmount"}

ASSUME FilesConstants ==
  /\ Packets \in Nat \ {0} /\ Tries \in Nat \ {0}
  /\ MaxCalls \in Nat /\ MaxRefusals \in Nat
  /\ UnixPrivs \in BOOLEAN /\ NoLocking \in BOOLEAN
  /\ Null \notin Names \cup Inodes \cup ForkIds \cup Blocks \cup Threads \cup AllOps
  /\ Blocks \cap Threads = {} /\ Names \cap Inodes = {}

VARIABLES
  place,    \* per inode: its name, the directory it was moved into, or Null
  kind,     \* per inode: what it is
  content,  \* per inode: who wrote each part
  forks,    \* the server's open forks: the inode of each, or Null
  locks,    \* per inode: the fork that holds the byte range, or Null
  heap,     \* per block: "free", "used", or "leaked" when nobody will free it
  fork,     \* per block and, for structures on the stack, per thread: fp->forkid
  list,     \* volume->open_forks: blocks, and threads for their stacks
  handles,  \* FUSE's open files: their fi->fh
  fileids,  \* forks that daemon clients have open
  mounted,  \* the volume has not been unmounted
  th,       \* per thread: program counter and locals of its call
  calls, refusals, \* how many so far
  down,     \* the connection is gone for good
  orphans,  \* history: listed structures whose memory is not theirs any more
  trouble   \* history: which of TroubleKinds have occurred

server == <<place, kind, content, forks, locks>>
memory == <<heap, fork, list, handles, fileids, orphans>>
vars == <<server, memory, mounted, th, calls, refusals, down, trouble>>

\* A structure is used after it was freed or its function has returned; it is
\* freed twice; it is listed twice; a request names a fork nobody opened for
\* it; FUSE holds a file whose structure unmounting has freed; a write or read goes
\* on without its lock; a part of a write is refused; a fork could not be closed.
TroubleKinds == {"uses_freed", "freed_twice", "listed_twice", "wild_fork", "freed_handle",
                 "no_lock", "part_refused", "close_refused"}

Replies == {"ok", "denied", "full", "exists", "missing", "busy", "vollocked", "locked", "type",
            "notempty", "misc", "param", "bitmap", "lockerr", "overlap", "notlocked", "noanswer",
            "same", "notowner"}

PCs == {"idle", "isdir", "delete", "create", "getprivs", "set", "open", "add", "zero", "lock",
        "io", "unlock", "close", "unlist", "mkdir", "move", "delete2", "move2", "finder", "attr",
        "volclose", "freelist", "return"}

\* fp: the structure the call works on; k: parts written; fault: the last
\* request that was not performed, and the reply; acted: the server did what the
\* call is for; hit: kind of the object that a delete removed; moved: somebody
\* else changed what the name stands for since is_dir() looked.
Frame == [pc : PCs, op : AllOps \cup {Null}, name : Names \cup {Null}, to : Names \cup {Null},
          fp : Blocks \cup Threads \cup {Null}, id : ForkIds \cup {Null}, k : 0..Packets,
          tries : 0..Tries, locked : BOOLEAN, isdir : BOOLEAN, moved : BOOLEAN,
          hit : {"file", "dir", "link", Null}, fault : (PCs \X Replies) \cup {<<>>},
          acted : BOOLEAN, res : {"ok", "error"}]

Idle == [pc |-> "idle", op |-> Null, name |-> Null, to |-> Null, fp |-> Null, id |-> Null,
         k |-> 0, tries |-> 0, locked |-> FALSE, isdir |-> FALSE, moved |-> FALSE,
         hit |-> Null, fault |-> <<>>, acted |-> FALSE, res |-> "ok"]

TypeOK ==
  /\ place \in [Inodes -> Names \cup Inodes \cup {Null}]
  /\ kind \in [Inodes -> {"file", "dir", "link"}]
  /\ content \in [Inodes -> [1..Packets -> Threads \cup {Null}]]
  /\ forks \in [ForkIds -> Inodes \cup {Null}]
  /\ locks \in [Inodes -> ForkIds \cup {Null}]
  /\ heap \in [Blocks -> {"free", "used", "leaked"}]
  /\ fork \in [Blocks \cup Threads -> ForkIds \cup {Null}]
  /\ list \in Seq(Blocks \cup Threads)
  /\ handles \subseteq Blocks /\ fileids \subseteq ForkIds
  /\ mounted \in BOOLEAN /\ down \in BOOLEAN
  /\ th \in [Threads -> Frame]
  /\ calls \in 0..MaxCalls /\ refusals \in 0..MaxRefusals
  /\ orphans \subseteq Blocks \cup Threads /\ trouble \subseteq TroubleKinds

Blank == [p \in 1..Packets |-> Null]

\* A file and a directory to begin with, and FUSE has opened the file so many times
Init ==
  \E f, d \in Inodes, n, m \in Names, open \in SUBSET Blocks :
  /\ f # d /\ n # m /\ IsFiniteSet(open) /\ Cardinality(open) <= 2
  /\ place = [i \in Inodes |-> IF i = f THEN n ELSE IF i = d THEN m ELSE Null]
  /\ kind = [i \in Inodes |-> IF i = d THEN "dir" ELSE "file"]
  /\ \E id \in [open -> ForkIds] :
       /\ IsInjective(id)
       /\ forks = [k \in ForkIds |-> IF k \in Range(id) THEN f ELSE Null]
       /\ fork = [x \in Blocks \cup Threads |-> IF x \in open THEN id[x] ELSE Null]
  /\ list = SetToSeq(open) /\ handles = open
  /\ heap = [b \in Blocks |-> IF b \in open THEN "used" ELSE "free"]
  /\ content = [i \in Inodes |-> Blank]
  /\ locks = [i \in Inodes |-> Null]
  /\ fileids = {} /\ orphans = {}
  /\ mounted = TRUE /\ down = FALSE
  /\ th = [t \in Threads |-> Idle]
  /\ calls = 0 /\ refusals = 0 /\ trouble = {}

-----------------------------------------------------------------------------
(* Names and objects *)

\* What a path stands for, when objects are where p says
Named(p, n) == IF \E i \in Inodes : p[i] = n THEN CHOOSE i \in Inodes : p[i] = n ELSE Null

Here(n) == Named(place, n)

OpenOn(i) == \E k \in ForkIds : forks[k] = i

\* Inodes and forks the server can give out
Unused == {i \in Inodes : place[i] = Null /\ ~OpenOn(i)}
UnusedForks == {k \in ForkIds : forks[k] = Null}

\* The server has closed the volume: it refuses what names it.
Closed == ~mounted /\ ~\E t \in Threads : th[t].pc = "volclose"

ForkOf(f) == IF f.fp = Null THEN f.id ELSE fork[f.fp]

\* The file a call's fork is open on
FileOf(f) == IF ForkOf(f) = Null THEN Null ELSE forks[ForkOf(f)]

-----------------------------------------------------------------------------
(* What the functions of lib/midlevel.c and lib/lowlevel.c do with a reply r: f is their   *)
(* frame, f.pc the request that was answered.                              *)

At(t, pc) == th[t].pc = pc

Next_(f, pc) == [f EXCEPT !.pc = pc]
Success(f) == [f EXCEPT !.pc = "return", !.acted = TRUE]
Failure(f, r) == [f EXCEPT !.pc = "return", !.res = "error", !.fault = <<f.pc, r>>]

\* The reply r is taken for success.
Ignore(f, r, pc) == [f EXCEPT !.pc = pc, !.fault = <<f.pc, r>>]

\* 0 is returned.
Done(f) == IF f.fault = <<>> THEN Success(f) ELSE Next_(f, "return")

\* ll_zero_file(): what is not listed, -1 included, counts as success.
ZeroErrors == {"denied", "vollocked", "lockerr", "full", "misc", "param"}

AfterZero(f, r) ==
  IF r \in ZeroErrors THEN Failure(f, r)
  ELSE LET next == IF f.op = "truncate" THEN "close" ELSE "return"
           g == IF r = "ok" THEN Next_(f, next) ELSE Ignore(f, r, next)
       IN IF next = "return" THEN Done(g) ELSE g

\* afp_ml_creat(), which ll_open() may have called.  When get_unixprivs() fails it
\* returns the 0 of afp_createfile().
Created(f) == IF f.op = "creat" THEN Done(f) ELSE Next_(f, "open")

AfterCreat(f, r) ==
  CASE f.pc = "create" /\ r = "ok" -> IF UnixPrivs THEN Next_(f, "getprivs") ELSE Created(f)
    [] f.pc = "getprivs" /\ r = "same" -> Created(f)
    [] f.pc = "getprivs" /\ r \in {"ok", "notowner"} -> Next_(f, "set")
    [] f.pc = "getprivs" /\ r \notin {"ok", "same", "notowner"} -> Created(Ignore(f, r, "getprivs"))
    [] f.pc = "set" /\ r = "ok" -> Created(f)
    [] f.pc \in {"create", "set"} /\ r # "ok" -> Failure(f, r)

\* ll_open()
AfterOpen(f, r) ==
  CASE f.pc = "open" /\ r = "ok" -> Next_(f, "add")
    [] f.pc = "open" /\ r = "missing" /\ f.op = "daemon_creat" -> Next_(f, "create")
    [] f.pc = "open" /\ r # "ok" /\ ~(r = "missing" /\ f.op = "daemon_creat") -> Failure(f, r)
    [] f.pc = "add" -> IF f.op = "daemon_trunc" THEN Next_(f, "zero") ELSE Done(f)
    [] f.pc = "zero" -> AfterZero(f, r)
    [] f.pc \in {"create", "getprivs", "set"} -> AfterCreat(f, r)

\* afp_ml_truncate(): a failed open returns the 0 that ret still is, and so does
\* afp_closefork().
AfterTruncate(f, r) ==
  CASE f.pc = "open" -> IF r = "ok" THEN Next_(f, "add") ELSE Ignore(f, r, "return")
    [] f.pc = "add" -> Next_(f, "zero")
    [] f.pc = "zero" -> AfterZero(f, r)
    [] f.pc = "close" -> Next_(f, "unlist")
    [] f.pc = "unlist" -> Done(f)

\* afp_ml_close(): an error leaves the fork listed.
AfterClose(f, r) ==
  CASE f.pc = "close" -> IF r = "ok" THEN Next_(f, "unlist") ELSE Failure(f, r)
    [] f.pc = "unlist" -> Success(f)

\* mutant of DeleteErrors: a locked object counts as deleted
DeleteErrorsButLocked ==
  {"denied", "missing", "vollocked", "type", "notempty", "misc", "param", "noanswer"}

\* afp_ml_unlink() and afp_ml_rmdir(): kFPFileBusy is not among the errors.
DeleteErrors ==
  {"denied", "locked", "missing", "vollocked", "type", "notempty", "misc", "param", "noanswer"}

AfterDelete(f, r) ==
  IF r = "ok" THEN Success(f) ELSE IF r \in DeleteErrors THEN Failure(f, r) ELSE Ignore(f, r, "return")

\* mutant of AfterUnlink: nobody looks whether it is a directory
AfterUnlinkAny(f, r) == IF f.pc = "isdir" THEN Next_(f, "delete") ELSE AfterDelete(f, r)

AfterUnlink(f, r) ==
  CASE f.pc = "isdir" -> IF f.isdir THEN Failure(f, "type") ELSE Next_(f, "delete")
    [] f.pc = "delete" -> AfterDelete(f, r)

AfterRmdir(f, r) ==
  CASE f.pc = "isdir" -> IF f.isdir THEN Next_(f, "delete") ELSE Failure(f, "type")
    [] f.pc = "delete" -> AfterDelete(f, r)

\* afp_ml_mkdir()
AfterMkdir(f, r) == IF r = "ok" THEN Success(f) ELSE Failure(f, r)

\* get_unixprivs() as afp_ml_chmod() and afp_ml_chown() call it, and set_unixprivs(), of
\* whose errors they know only -ENOSYS, for kFPBitmapErr
AfterChmod(f, r) ==
  CASE f.pc = "getprivs" /\ r = "ok" -> Next_(f, "set")
    [] f.pc = "getprivs" /\ r = "same" -> Success(f)
    [] f.pc = "getprivs" /\ r \notin {"ok", "same"} -> Failure(f, r)
    [] f.pc = "set" -> IF r = "ok" THEN Success(f)
                       ELSE IF r = "bitmap" THEN Failure(f, r) ELSE Ignore(f, r, "return")

AfterChown(f, r) ==
  CASE f.pc = "getprivs" -> IF r \in {"ok", "same", "notowner"} THEN Next_(f, "set") ELSE Failure(f, r)
    [] f.pc = "set" -> IF r = "ok" THEN Success(f)
                       ELSE IF r = "bitmap" THEN Failure(f, r) ELSE Ignore(f, r, "return")

\* afp_ml_utime()
AfterUtime(f, r) ==
  CASE f.pc = "isdir" -> Next_(f, "set")
    [] f.pc = "set" -> IF r = "ok" THEN Success(f)
                       ELSE IF r \in {"denied", "missing"} THEN Failure(f, r) ELSE Ignore(f, r, "return")

\* afp_ml_getattr() and ll_getattr()
AfterGetattr(f, r) == IF r = "ok" THEN Success(f) ELSE Failure(f, r)

\* afp_ml_rename().  A missing source falls through to kFPNoErr; what has the new
\* name is deleted and the move tried again, whatever the reply to the deletion;
\* then kFPParamErr and kFPMiscErr fall through to kFPNoErr.
AfterRename(f, r) ==
  CASE f.pc = "isdir" -> Next_(f, "move")
    [] f.pc = "move" /\ r = "ok" -> Success(f)
    [] f.pc = "move" /\ r = "exists" -> Next_(f, "delete2")
    [] f.pc = "move" /\ r = "missing" -> Ignore(f, r, "return")
    [] f.pc = "move" /\ r \notin {"ok", "exists", "missing"} -> Failure(f, r)
    [] f.pc = "delete2" -> Next_(f, "move2")
    [] f.pc = "move2" /\ r = "ok" -> Success(f)
    [] f.pc = "move2" /\ r \in {"denied", "locked", "exists", "missing"} -> Failure(f, r)
    [] f.pc = "move2" /\ r \notin {"ok", "denied", "locked", "exists", "missing"} ->
         Ignore(f, r, "return")

\* What afp_ml_readlink() and ll_read() take for an error of a read
ReadErrors == {"denied", "lockerr", "misc", "param"}

\* mutant of AfterReadlink: the fork is taken off the list and not closed
AfterReadlinkOpen(f, r) ==
  CASE f.pc = "open" -> IF r = "ok" THEN Next_(f, "add") ELSE Failure(f, r)
    [] f.pc = "add" -> Next_(f, "io")
    [] f.pc = "io" -> IF r = "ok" THEN Next_(f, "unlist") ELSE Failure(f, r)
    [] f.pc = "unlist" -> Done(f)

\* afp_ml_readlink(), with fp on its stack: it goes on after kFPMiscErr and its like
\* with a fork nobody has opened, and returns with fp listed when the read or the
\* close fails.
AfterReadlink(f, r) ==
  CASE f.pc = "open" -> IF r = "ok" THEN Next_(f, "add")
                        ELSE IF r = "misc" THEN Ignore(f, r, "add") ELSE Failure(f, r)
    [] f.pc = "add" -> Next_(f, "io")
    [] f.pc = "io" -> IF r \in ReadErrors THEN Failure(f, r)
                      ELSE IF r = "ok" THEN Next_(f, "close") ELSE Ignore(f, r, "close")
    [] f.pc = "close" -> IF r = "ok" THEN Next_(f, "unlist") ELSE Failure(f, r)
    [] f.pc = "unlist" -> Done(f)

\* afp_ml_symlink(), with fp on its stack: after afp_openfork() it looks at ret, which is
\* 0, and at nothing after afp_writeext().
AfterSymlink(f, r) ==
  CASE f.pc = "create" -> IF r = "ok" THEN Next_(f, "open") ELSE Failure(f, r)
    [] f.pc = "open" -> IF r = "ok" THEN Next_(f, "add") ELSE Ignore(f, r, "add")
    [] f.pc = "add" -> Next_(f, "io")
    [] f.pc = "io" -> IF r = "ok" THEN Next_(f, "close") ELSE Ignore(f, r, "close")
    [] f.pc = "close" -> IF r = "ok" THEN Next_(f, "unlist") ELSE Failure(f, r)
    [] f.pc = "unlist" -> Next_(f, "finder")
    [] f.pc = "finder" -> IF r = "ok" THEN Done(f) ELSE Failure(f, r)

\* ll_handle_locking(): Tries refusals, and it goes on without the lock.
AfterLock(f, r) ==
  CASE r = "ok" -> [f EXCEPT !.pc = "io", !.locked = TRUE]
    [] r = "lockerr" -> IF f.tries + 1 < Tries THEN [f EXCEPT !.tries = @ + 1]
                        ELSE [f EXCEPT !.pc = "io", !.tries = Tries]

\* ll_write(): it returns -err, and nothing ever sets err: ret is 0 before the
\* reply to afp_writeext() is looked at.
AfterWrite(f, r) ==
  CASE f.pc = "lock" /\ r \in {"ok", "lockerr"} -> AfterLock(f, r)
    [] f.pc = "lock" /\ r \notin {"ok", "lockerr"} -> Ignore(f, r, "return")
    [] f.pc = "io" -> LET g == [f EXCEPT !.k = @ + 1, !.fault = IF r = "ok" THEN @ ELSE <<"io", r>>]
                      IN IF g.k < Packets THEN g
                         ELSE IF NoLocking THEN Done(g) ELSE Next_(g, "unlock")
    [] f.pc = "unlock" -> Done(f)

\* ll_read(): without an answer nothing has been read, it is not the end of the file, and
\* fuse_read() asks again; process_read() does not look at errors.
ReadFailed(f, r) == IF f.op = "daemon_read" THEN Ignore(f, r, "return") ELSE Failure(f, r)

FuseRead(f) ==
  IF f.fault = <<>> THEN Success(f)
  ELSE [f EXCEPT !.pc = IF NoLocking THEN "io" ELSE "lock", !.tries = 0, !.locked = FALSE,
                 !.fault = <<>>]

ReadResult(f) ==
  IF f.fault # <<>> /\ f.fault[2] \in ReadErrors THEN ReadFailed(Next_(f, "io"), f.fault[2])
  ELSE IF f.op = "read" THEN FuseRead(f) ELSE Done(f)

AfterRead(f, r) ==
  CASE f.pc = "lock" /\ r \in {"ok", "lockerr"} -> AfterLock(f, r)
    [] f.pc = "lock" /\ r \notin {"ok", "lockerr"} -> ReadFailed(f, r)
    [] f.pc = "io" -> LET g == [f EXCEPT !.fault = IF r = "ok" THEN <<>> ELSE <<"io", r>>]
                      IN IF NoLocking THEN ReadResult(g) ELSE Next_(g, "unlock")
    [] f.pc = "unlock" -> IF r = "ok" THEN ReadResult(f) ELSE ReadFailed(f, r)

\* process_close()
AfterDaemonClose(f, r) == IF r = "ok" THEN Success(f) ELSE Failure(f, r)

Opening == {"open", "daemon_open", "daemon_creat", "daemon_trunc"}
Daemons == {"daemon_open", "daemon_creat", "daemon_trunc"}

After(f, r) ==
  CASE f.op \in Opening -> AfterOpen(f, r)
    [] f.op = "creat" -> AfterCreat(f, r)
    [] f.op = "truncate" -> AfterTruncate(f, r)
    [] f.op = "release" -> AfterClose(f, r)
    [] f.op = "unlink" -> AfterUnlink(f, r)
    [] f.op = "rmdir" -> AfterRmdir(f, r)
    [] f.op = "mkdir" -> AfterMkdir(f, r)
    [] f.op = "chmod" -> AfterChmod(f, r)
    [] f.op = "chown" -> AfterChown(f, r)
    [] f.op = "utime" -> AfterUtime(f, r)
    [] f.op = "getattr" -> AfterGetattr(f, r)
    [] f.op = "rename" -> AfterRename(f, r)
    [] f.op = "readlink" -> AfterReadlink(f, r)
    [] f.op = "symlink" -> AfterSymlink(f, r)
    [] f.op = "write" -> AfterWrite(f, r)
    [] f.op \in {"read", "daemon_read"} -> AfterRead(f, r)
    [] f.op = "daemon_close" -> AfterDaemonClose(f, r)

-----------------------------------------------------------------------------
(* Resuming a call *)

Now(what) == trouble' = trouble \cup what

Goto(t, f) == th' = [th EXCEPT ![t] = f]

\* An open has failed: afp_ml_open() frees fp, and process_open() does it again.
OpenFailed(f, g) ==
  /\ f.pc \in {"open", "create", "set", "zero"} /\ g.pc = "return"
  /\ \/ f.op \in Opening /\ g.res = "error"
     \/ f.op = "truncate" /\ f.pc = "open"

\* An open has succeeded.  FUSE keeps fp; process_open() keeps the fork id and
\* frees fp, which stays listed.
OpenDone(f, g) == f.op \in Opening /\ f.pc \in {"add", "zero"} /\ g.pc = "return" /\ g.res = "ok"

\* The memory fp is in when f has become g, lst being the list of open forks.  The
\* structure of a file that is released is not freed; fps on stacks go with a failed
\* call.
Keep(f, g, lst) ==
  LET free == OpenFailed(f, g) \/ (OpenDone(f, g) /\ f.op \in Daemons)
                \/ (f.op = "truncate" /\ f.pc = "unlist")
  IN /\ heap' = CASE free -> [heap EXCEPT ![f.fp] = "free"]
                  [] f.op = "release" /\ f.pc = "unlist" -> [heap EXCEPT ![f.fp] = "leaked"]
                  [] OTHER -> heap
     /\ orphans' = CASE free \/ (g.pc = "return" /\ f.fp \in Threads) ->
                          (orphans \ {f.fp}) \cup ({f.fp} \cap ToSet(lst))
                     [] f.pc = "add" /\ ~free -> orphans \ {f.fp}
                     [] OTHER -> orphans
     /\ handles' = IF OpenDone(f, g) /\ f.op = "open" THEN handles \cup {f.fp} ELSE handles
     /\ fileids' = IF OpenDone(f, g) /\ f.op \in Daemons THEN fileids \cup {ForkOf(f)} ELSE fileids

\* t, which is at f, goes on after the reply r.
Resume(t, f, r) ==
  /\ Goto(t, After(f, r))
  /\ Keep(f, After(f, r), list)

\* So does it, after the objects have moved to where p says.
ResumeMoved(t, f, r, p) ==
  /\ place' = p
  /\ Keep(f, After(f, r), list)
  /\ th' = [u \in Threads |->
              IF u = t THEN After(f, r)
              ELSE IF th[u].pc = "delete" /\ Named(p, th[u].name) # Here(th[u].name)
              THEN [th[u] EXCEPT !.moved = TRUE] ELSE th[u]]

\* The replies to a request: good is what the state of the server demands, errs what a
\* server answers for reasons of its own.
Answers(good, errs) ==
  IF down THEN {"noanswer"} ELSE {good} \cup (IF refusals < MaxRefusals THEN errs ELSE {})

\* The same for a request that names the volume
VolumeAnswers(good, errs) == Answers(IF Closed THEN "param" ELSE good, errs)

Charge(r, good) == refusals' = refusals + (IF r \in {good, "noanswer", "param"} THEN 0 ELSE 1)

-----------------------------------------------------------------------------
(* Calls *)

NewCall(t, op) ==
  /\ At(t, "idle") /\ op \in Ops /\ calls < MaxCalls
  /\ calls' = calls + 1
  /\ UNCHANGED <<server, refusals, down, trouble>>

Begin(t, op, pc, n, x) ==
  /\ NewCall(t, op)
  /\ Goto(t, [Idle EXCEPT !.pc = pc, !.op = op, !.name = n, !.fp = x])

\* Calls with a path, while the volume is mounted: fuse_readlink(), fuse_rmdir() and
\* fuse_unlink(),
RemoveOrRead(t, n) ==
  /\ mounted
  /\ \/ Begin(t, "readlink", "open", n, t)
     \/ \E op \in {"unlink", "rmdir"} : Begin(t, op, "isdir", n, Null)
  /\ UNCHANGED <<memory, mounted>>

\* fuse_mknod(),
Mknod(t, n) == mounted /\ Begin(t, "creat", "create", n, Null) /\ UNCHANGED <<memory, mounted>>

\* fuse_mkdir(),
Mkdir(t, n) == mounted /\ Begin(t, "mkdir", "mkdir", n, Null) /\ UNCHANGED <<memory, mounted>>

\* fuse_chown(), fuse_chmod() and fuse_utime(): there is no chown or chmod without Unix
\* privileges,
Attributes(t, n) ==
  /\ mounted
  /\ \/ UnixPrivs /\ \E op \in {"chmod", "chown"} : Begin(t, op, "getprivs", n, Null)
     \/ Begin(t, "utime", "isdir", n, Null)
  /\ UNCHANGED <<memory, mounted>>

\* fuse_getattr(), and process_stat() of the daemon,
Getattr(t, n) == mounted /\ Begin(t, "getattr", "attr", n, Null) /\ UNCHANGED <<memory, mounted>>

\* fuse_symlink() and fuse_rename().
Link(t, n, m) ==
  /\ mounted
  /\ \/ n = m /\ Begin(t, "symlink", "create", n, t)
     \/ /\ n # m /\ NewCall(t, "rename")
        /\ Goto(t, [Idle EXCEPT !.pc = "isdir", !.op = "rename", !.name = n, !.to = m])
  /\ UNCHANGED <<memory, mounted>>

\* fuse_open(), process_open() and fuse_truncate(): afp_ml_open() allocates fp.
Open(t, n, b) ==
  /\ mounted /\ heap[b] = "free"
  /\ heap' = [heap EXCEPT ![b] = "used"]
  /\ fork' = [fork EXCEPT ![b] = Null]
  /\ \E op \in Opening \cup {"truncate"} : Begin(t, op, "open", n, b)
  /\ UNCHANGED <<list, handles, fileids, orphans, mounted>>

\* mutant of ReadWrite: the range is not locked
ReadWriteUnlocked(t, b) ==
  /\ b \in handles
  /\ \E op \in {"read", "write"} : Begin(t, op, "io", Null, b)
  /\ UNCHANGED <<memory, mounted>>

\* fuse_read() and fuse_write() of an open file
ReadWrite(t, b) ==
  /\ b \in handles
  /\ \E op \in {"read", "write"} : Begin(t, op, IF NoLocking THEN "io" ELSE "lock", Null, b)
  /\ UNCHANGED <<memory, mounted>>

\* fuse_release(): once, after the other calls for the file
Release(t, b) ==
  /\ b \in handles /\ \A u \in Threads : th[u].fp # b
  /\ Begin(t, "release", "close", Null, b)
  /\ handles' = handles \ {b}
  /\ UNCHANGED <<heap, fork, list, fileids, orphans, mounted>>

\* process_read() and process_close() use the fork the client names.
Fileid(t, k) ==
  /\ k \in fileids /\ mounted
  /\ \E op \in {"daemon_read", "daemon_close"} :
       /\ NewCall(t, op)
       /\ Goto(t, [Idle EXCEPT !.op = op, !.id = k,
                     !.pc = IF op = "daemon_close" THEN "close" ELSE IF NoLocking THEN "io" ELSE "lock"])
       /\ fileids' = IF op = "daemon_close" THEN fileids \ {k} ELSE fileids
  /\ UNCHANGED <<heap, fork, list, handles, orphans, mounted>>

\* afp_unmount_volume(): nobody waits for the calls in progress.
Unmount(t) ==
  /\ mounted /\ mounted' = FALSE
  /\ Begin(t, "unmount", "volclose", Null, Null)
  /\ UNCHANGED memory

Call(t) ==
  \/ \E n \in Names : RemoveOrRead(t, n) \/ Mknod(t, n) \/ Mkdir(t, n) \/ Attributes(t, n) \/ Getattr(t, n)
  \/ \E n, m \in Names : Link(t, n, m)
  \/ \E b \in Blocks : ReadWrite(t, b) \/ Release(t, b) \/ (\E n \in Names : Open(t, n, b))
  \/ \E k \in ForkIds : Fileid(t, k)
  \/ Unmount(t)

Return(t) ==
  /\ At(t, "return")
  /\ Goto(t, Idle)
  /\ UNCHANGED <<server, memory, mounted, calls, refusals, down, trouble>>

\* The connection is lost and cannot be made again; the server ends the session.
GoDown ==
  /\ ~down /\ down' = TRUE
  /\ forks' = [k \in ForkIds |-> Null]
  /\ locks' = [i \in Inodes |-> Null]
  /\ UNCHANGED <<place, kind, content, memory, mounted, th, calls, refusals, trouble>>

-----------------------------------------------------------------------------
(* Requests for forks *)

\* afp_openfork().  When a call goes on after a refusal its forkid is what happens to
\* be on the stack.
OpenFork(t) ==
  LET f == th[t]
      i == Here(f.name)
      good == IF i = Null THEN "missing" ELSE IF kind[i] = "dir" THEN "type"
              ELSE IF UnusedForks = {} THEN "full" ELSE "ok"
  IN /\ At(t, "open")
     /\ \E r \in VolumeAnswers(good, {"denied", "misc"}) :
          /\ Charge(r, good)
          /\ Resume(t, f, r)
          /\ IF r = "ok"
             THEN \E k \in UnusedForks :
                    /\ forks' = [forks EXCEPT ![k] = i]
                    /\ fork' = [fork EXCEPT ![f.fp] = k]
                    /\ UNCHANGED trouble
             ELSE /\ UNCHANGED forks
                  /\ IF After(f, r).pc = "add"
                     THEN (\E k \in ForkIds \cup {Null} : fork' = [fork EXCEPT ![t] = k])
                            /\ Now({"wild_fork"})
                     ELSE /\ UNCHANGED fork
                          /\ Now(IF OpenFailed(f, After(f, r)) /\ f.op \in Daemons
                                 THEN {"freed_twice"} ELSE {})
     /\ UNCHANGED <<place, kind, content, locks, list, mounted, calls, down>>

\* add_opened_fork()
AddOpenedFork(t) ==
  LET f == th[t]
  IN /\ At(t, "add")
     /\ list' = <<f.fp>> \o list
     /\ Now(IF f.fp \in ToSet(list) THEN {"listed_twice"} ELSE {})
     /\ Goto(t, After(f, "ok"))
     /\ Keep(f, After(f, "ok"), list')
     /\ UNCHANGED <<server, fork, mounted, calls, refusals, down>>

\* afp_setforkparms(), which empties the file
SetForkParms(t) ==
  LET f == th[t]
      i == FileOf(f)
      good == IF i = Null THEN "misc" ELSE "ok"
  IN /\ At(t, "zero")
     /\ \E r \in Answers(good, {"denied", "lockerr"}) :
          /\ Charge(r, good)
          /\ content' = IF r = "ok" THEN [content EXCEPT ![i] = Blank] ELSE content
          /\ Resume(t, f, r)
          /\ Now(IF OpenFailed(f, After(f, r)) /\ f.op \in Daemons THEN {"freed_twice"} ELSE {})
     /\ UNCHANGED <<place, kind, forks, locks, fork, list, mounted, calls, down>>

\* A daemon client's read is not over that will name fork k again.
InUse(k) == \E u \in Threads : th[u].id = k /\ th[u].pc \in {"lock", "io", "unlock"}

\* afp_closefork(): nothing keeps one daemon client from closing the fork another reads.
CloseFork(t) ==
  LET f == th[t]
      good == IF FileOf(f) = Null THEN "misc" ELSE "ok"
  IN /\ At(t, "close")
     /\ \E r \in Answers(good, {"misc"}) :
          /\ Charge(r, good)
          /\ IF r = "ok"
             THEN /\ forks' = [forks EXCEPT ![ForkOf(f)] = Null]
                  /\ locks' = [i \in Inodes |-> IF locks[i] = ForkOf(f) THEN Null ELSE locks[i]]
             ELSE UNCHANGED <<forks, locks>>
          /\ Resume(t, f, r)
          /\ Now(IF r # "ok" THEN {"close_refused"} ELSE IF InUse(ForkOf(f)) THEN {"wild_fork"} ELSE {})
     /\ UNCHANGED <<place, kind, content, fork, list, mounted, calls, down>>

\* mutant of Unlisted: the list is left as it is
StillListed(x) == list

Unlisted(x) == RemoveFirst(list, x)

\* remove_opened_fork()
RemoveOpenedFork(t) ==
  LET f == th[t]
  IN /\ At(t, "unlist")
     /\ list' = Unlisted(f.fp)
     /\ Goto(t, After(f, "ok"))
     /\ Keep(f, After(f, "ok"), list')
     /\ UNCHANGED <<server, fork, mounted, calls, refusals, down, trouble>>

\* afp_volclose() in afp_unmount_volume(): the server closes the volume's forks.
VolClose(t) ==
  /\ At(t, "volclose")
  /\ IF down THEN UNCHANGED <<forks, locks>>
     ELSE /\ forks' = [k \in ForkIds |-> Null]
          /\ locks' = [i \in Inodes |-> Null]
  /\ Goto(t, Next_(th[t], "freelist"))
  /\ UNCHANGED <<place, kind, content, memory, mounted, calls, refusals, down, trouble>>

\* remove_fork_list(): every listed structure is freed.  Its requests name forks that are
\* closed.
RemoveForkList(t) ==
  LET listed == ToSet(list)
      inUse == handles \cup {th[u].fp : u \in Threads}
  IN /\ At(t, "freelist")
     /\ Now((IF listed \cap orphans # {} THEN {"uses_freed"} ELSE {})
            \cup (IF listed \cap inUse # {} THEN {"freed_handle"} ELSE {}))
     /\ heap' = [b \in Blocks |-> IF b \in listed THEN "free" ELSE heap[b]]
     /\ list' = <<>>
     /\ Goto(t, Success(th[t]))
     /\ UNCHANGED <<server, fork, handles, fileids, orphans, mounted, calls, refusals, down>>

\* afp_byterangelockext(), to lock
Lock(t) ==
  LET f == th[t]
      i == FileOf(f)
      good == IF i = Null THEN "misc"
              ELSE IF locks[i] = Null THEN "ok"
              ELSE IF locks[i] = ForkOf(f) THEN "overlap" ELSE "lockerr"
  IN /\ At(t, "lock")
     /\ \E r \in Answers(good, {"misc"}) :
          /\ Charge(r, good)
          /\ locks' = IF r = "ok" THEN [locks EXCEPT ![i] = ForkOf(f)] ELSE locks
          /\ Resume(t, f, r)
          /\ Now(IF r = "lockerr" /\ After(f, r).pc = "io" THEN {"no_lock"} ELSE {})
     /\ UNCHANGED <<place, kind, content, forks, fork, list, mounted, calls, down>>

\* and to unlock
Unlock(t) ==
  LET f == th[t]
      i == FileOf(f)
      good == IF i = Null THEN "misc" ELSE IF locks[i] = ForkOf(f) THEN "ok" ELSE "notlocked"
  IN /\ At(t, "unlock")
     /\ \E r \in Answers(good, {"misc"}) :
          /\ Charge(r, good)
          /\ locks' = IF r = "ok" THEN [locks EXCEPT ![i] = Null] ELSE locks
          /\ Resume(t, f, r)
     /\ UNCHANGED <<place, kind, content, forks, fork, list, mounted, calls, down, trouble>>

\* afp_writeext(): one part of a write, or the target of a symbolic link
WriteExt(t) ==
  LET f == th[t]
      i == FileOf(f)
      good == IF i = Null THEN "misc" ELSE "ok"
  IN /\ At(t, "io") /\ f.op \in {"write", "symlink"}
     /\ \E r \in Answers(good, {"full"}) :
          /\ Charge(r, good)
          /\ content' = IF r = "ok" /\ f.op = "write" THEN [content EXCEPT ![i][f.k + 1] = t] ELSE content
          /\ Now(IF r = "ok" THEN {} ELSE {"part_refused"})
          /\ Resume(t, f, r)
     /\ UNCHANGED <<place, kind, forks, locks, fork, list, mounted, calls, down>>

\* afp_readext()
ReadExt(t) ==
  LET f == th[t]
      good == IF FileOf(f) = Null THEN "misc" ELSE "ok"
  IN /\ At(t, "io") /\ f.op \in {"read", "daemon_read", "readlink"}
     /\ \E r \in Answers(good, {"denied"}) : Charge(r, good) /\ Resume(t, f, r)
     /\ UNCHANGED <<server, fork, list, mounted, calls, down, trouble>>

-----------------------------------------------------------------------------
(* Requests for names *)

\* afp_createfile(): kFPHardCreate, of symlink, replaces a file.
CreateFile(t) ==
  LET f == th[t]
      i == Here(f.name)
      good == IF i = Null THEN IF Unused = {} THEN "full" ELSE "ok"
              ELSE IF f.op # "symlink" THEN "exists"
              ELSE IF kind[i] = "dir" THEN "type"
              ELSE IF OpenOn(i) THEN "busy" ELSE "ok"
  IN /\ At(t, "create")
     /\ \E r \in VolumeAnswers(good, {"denied"}) :
          /\ Charge(r, good)
          /\ IF r = "ok"
             THEN \E j \in (IF i = Null THEN Unused ELSE {i}) :
                    /\ kind' = [kind EXCEPT ![j] = "file"]
                    /\ content' = [content EXCEPT ![j] = Blank]
                    /\ ResumeMoved(t, f, r, [place EXCEPT ![j] = f.name])
             ELSE Resume(t, f, r) /\ UNCHANGED <<place, kind, content>>
          /\ Now(IF OpenFailed(f, After(f, r)) THEN {"freed_twice"} ELSE {})
     /\ UNCHANGED <<forks, locks, fork, list, mounted, calls, down>>

\* afp_createdir()
CreateDir(t) ==
  LET f == th[t]
      good == IF Here(f.name) # Null THEN "exists" ELSE IF Unused = {} THEN "full" ELSE "ok"
  IN /\ At(t, "mkdir")
     /\ \E r \in VolumeAnswers(good, {"denied"}) :
          /\ Charge(r, good)
          /\ IF r = "ok"
             THEN \E j \in Unused :
                    /\ kind' = [kind EXCEPT ![j] = "dir"]
                    /\ content' = [content EXCEPT ![j] = Blank]
                    /\ ResumeMoved(t, f, r, [place EXCEPT ![j] = f.name])
             ELSE Resume(t, f, r) /\ UNCHANGED <<place, kind, content>>
     /\ UNCHANGED <<forks, locks, fork, list, mounted, calls, down, trouble>>

Exists(n) == IF Here(n) = Null THEN "missing" ELSE "ok"

\* afp_getfiledirparms() for the Unix privileges, or the attributes.  The mode may be the
\* one that is wanted, and the file somebody else's.
GetFileDirParms(t) ==
  LET f == th[t]
  IN /\ At(t, "getprivs") \/ At(t, "attr")
     /\ \E r \in VolumeAnswers(Exists(f.name), {"denied"}) :
          /\ Charge(r, Exists(f.name))
          /\ \E q \in (IF r = "ok" /\ f.pc = "getprivs" THEN {"ok", "same", "notowner"} ELSE {r}) :
               Resume(t, f, q)
     /\ UNCHANGED <<server, fork, list, mounted, calls, down, trouble>>

\* is_dir(): an error means no.
IsDir(t) ==
  LET f == th[t]
      n == IF f.op = "rename" THEN f.to ELSE f.name
  IN /\ At(t, "isdir")
     /\ \E r \in VolumeAnswers(Exists(n), {"denied"}) :
          LET g == [f EXCEPT !.isdir = r = "ok" /\ kind[Here(n)] = "dir",
                             !.fault = IF r \in {"ok", "missing"} THEN @ ELSE <<"isdir", r>>]
          IN Charge(r, Exists(n)) /\ Resume(t, g, r)
     /\ UNCHANGED <<server, fork, list, mounted, calls, down, trouble>>

\* afp_setfiledirparms(): the FinderInfo makes a file a symbolic link.
SetFileDirParms(t) ==
  LET f == th[t]
  IN /\ At(t, "set") \/ At(t, "finder")
     /\ \E r \in VolumeAnswers(Exists(f.name), {"denied", "bitmap"}) :
          /\ Charge(r, Exists(f.name))
          /\ kind' = IF r = "ok" /\ f.pc = "finder" /\ kind[Here(f.name)] = "file"
                     THEN [kind EXCEPT ![Here(f.name)] = "link"] ELSE kind
          /\ Resume(t, f, r)
          /\ Now(IF OpenFailed(f, After(f, r)) THEN {"freed_twice"} ELSE {})
     /\ UNCHANGED <<place, content, forks, locks, fork, list, mounted, calls, down>>

\* afp_delete(): an object that is open is busy.
DeleteReply(i) ==
  IF i = Null THEN "missing"
  ELSE IF kind[i] = "dir" /\ (\E j \in Inodes : place[j] = i) THEN "notempty"
  ELSE IF OpenOn(i) THEN "busy" ELSE "ok"

Delete(t) ==
  LET f == th[t]
      i == Here(IF f.pc = "delete2" THEN f.to ELSE f.name)
      good == DeleteReply(i)
  IN /\ At(t, "delete") \/ At(t, "delete2")
     /\ \E r \in VolumeAnswers(good, {"denied", "locked"}) :
          /\ Charge(r, good)
          /\ IF r = "ok"
             THEN ResumeMoved(t, [f EXCEPT !.hit = kind[i]], r, [place EXCEPT ![i] = Null])
             ELSE Resume(t, f, r) /\ UNCHANGED place
     /\ UNCHANGED <<kind, content, forks, locks, fork, list, mounted, calls, down, trouble>>

\* afp_moveandrename(), into the directory called f.to or to that name
MoveReply(f, into) ==
  LET i == Here(f.name)  j == Here(f.to)
  IN IF i = Null THEN "missing"
     ELSE IF into THEN IF j = Null THEN "missing" ELSE IF kind[j] = "dir" THEN "ok" ELSE "type"
     ELSE IF j = Null THEN "ok" ELSE "exists"

MoveAndRename(t) ==
  LET f == th[t]
      into == f.isdir /\ f.pc = "move"
      good == MoveReply(f, into)
  IN /\ At(t, "move") \/ At(t, "move2")
     /\ \E r \in VolumeAnswers(good, {"denied", "misc"}) :
          /\ Charge(r, good)
          /\ IF r = "ok"
             THEN ResumeMoved(t, f, r, [place EXCEPT ![Here(f.name)] = IF into THEN Here(f.to) ELSE f.to])
             ELSE Resume(t, f, r) /\ UNCHANGED place
     /\ UNCHANGED <<kind, content, forks, locks, fork, list, mounted, calls, down, trouble>>

-----------------------------------------------------------------------------
Step(t) ==
  \/ Return(t) \/ OpenFork(t) \/ AddOpenedFork(t) \/ SetForkParms(t) \/ CloseFork(t)
  \/ RemoveOpenedFork(t) \/ VolClose(t) \/ RemoveForkList(t) \/ Lock(t) \/ Unlock(t)
  \/ WriteExt(t) \/ ReadExt(t) \/ CreateFile(t) \/ CreateDir(t) \/ GetFileDirParms(t) \/ IsDir(t)
  \/ SetFileDirParms(t) \/ Delete(t) \/ MoveAndRename(t)

Next == GoDown \/ \E t \in Threads : Call(t) \/ Step(t)

Spec == Init /\ [][Next]_vars

\* What follows the use of memory that is not the call's, or a request for a fork
\* somebody else opened, is not claimed to be anything.
Intact == trouble \cap {"uses_freed", "freed_twice", "listed_twice", "wild_fork", "freed_handle"} = {}

-----------------------------------------------------------------------------
(* Properties *)

\* lib/forklist.c: what is on a volume's list of open forks can be walked and
\* freed.  Exceptions: structures process_open() and the error path of O_TRUNC free
\* while they are listed, and those on the stacks of readlink and symlink calls
\* that have failed.
ListedAreLive ==
  \A x \in ToSet(list) \ orphans :
    IF x \in Threads THEN th[x].fp = x /\ ~At(x, "return") ELSE heap[x] = "used"

\* A fork the server has open is listed, or a daemon client has its number, or
\* a call has it at this moment: nothing else would ever close it.
\* Exceptions: a readlink that has failed, whose structure is on the list but
\* will be overwritten, and a fork the server would not close, which nobody tries to
\* close again.
ForksAccounted ==
  (trouble \cap {"wild_fork", "listed_twice", "close_refused", "freed_handle"} = {}
     /\ orphans \cap Threads = {}) =>
    \A k \in ForkIds : forks[k] # Null =>
      \/ \E x \in ToSet(list) : fork[x] = k
      \/ k \in fileids
      \/ \E t \in Threads : ~At(t, "idle") /\ ForkOf(th[t]) = k

Returning(t) == At(t, "return") /\ th[t].res = "ok"

\* Failures that afp_ml_*() does not report
Unreported(f) ==
  \/ f.op = "unlink" /\ f.fault = <<"delete", "busy">>
  \/ f.op = "rmdir" /\ f.fault = <<"delete", "busy">>
  \/ f.op = "rename" /\ (f.fault = <<"move", "missing">> \/ f.fault[1] = "move2")
  \/ f.op \in {"creat", "daemon_creat"} /\ f.fault[1] = "getprivs"
  \/ f.op \in {"chmod", "chown", "utime"} /\ f.fault[1] = "set"
  \/ f.op = "truncate" /\ f.fault[1] = "open"
  \/ f.op \in {"truncate", "daemon_trunc"} /\ f.fault = <<"zero", "noanswer">>
  \/ f.op = "write" /\ f.fault[1] \in {"lock", "io"}
  \/ f.op = "daemon_read"
  \/ f.op \in {"readlink", "symlink"} /\ f.fault[1] \in {"open", "io"}

\* A call that returns success did what it was asked, whatever the server refused and
\* whatever others did in between.
SuccessIsReal ==
  \A t \in Threads : Returning(t) => th[t].acted \/ Unreported(th[t])

\* unlink never removes a directory nor rmdir anything else, unless the name
\* came to stand for something else between is_dir() and afp_delete(), or the server
\* refused to tell is_dir().
RemovesTheRightKind ==
  \A t \in Threads : Returning(t) /\ th[t].acted /\ ~th[t].moved /\ th[t].fault = <<>> =>
    /\ th[t].op = "unlink" => th[t].hit # "dir"
    /\ th[t].op = "rmdir" => th[t].hit = "dir"

\* With the byte range lock of ll_write(), two writes of the same range of a file
\* do not mix, unless one went on without the lock, a part of it was refused, or the
\* volume or the connection went away in the middle.
WholeWrites ==
  (~NoLocking /\ ~down /\ mounted /\ trouble \cap {"no_lock", "part_refused"} = {}) =>
    \A i \in Inodes :
      \/ \E t \in Threads : th[t].op = "write" /\ th[t].pc = "io" /\ FileOf(th[t]) = i
      \/ Cardinality({content[i][p] : p \in 1..Packets} \ {Null}) <= 1
=============================================================================
