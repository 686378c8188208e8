------------------------------- MODULE Shell -------------------------------
(***************************************************************************)
(* afpcmd, the command-line client (cmdline/cmdline_afp.c and              *)
(* cmdline/cmdline_main.c): one user, one server, one volume, commands one *)
(* after the other.  A step is a request to the server, with what the      *)
(* command does up to the next one; between two requests the main loop can *)
(* be told that the server closes the session, and other clients can       *)
(* change the volume.                                                      *)
(*                                                                         *)
(* A path is the sequence of its names, <<>> being the top directory, and  *)
(* a tree a function from the paths that exist to what is there.  What a   *)
(* call of the library does inside is the business of Files.               *)
(***************************************************************************)
EXTENDS Integers, Sequences, FiniteSets, SequencesExt

CONSTANTS
  Order,       \* all names of files, in the order a server lists them
  Unquoted,    \* per name: what escape_paths() makes of it when nobody quotes it
  Trees,       \* volumes to begin with
  LocalTrees,  \* local directories to begin with
  Home,        \* the local directory that afpcmd is started in
  Batch,       \* entries in an answer to a listing, 20 in the code
  Ops,         \* the commands that are typed
  MaxCalls,    \* bound: commands
  MaxRefusals, \* bound: requests refused for reasons of the server's own
  MaxOthers,   \* bound: changes by other clients
  Null

Names == Range(Order)

\* The names of the local files besides
LocalNames == Names \cup UNION {Range(p) : p \in UNION {DOMAIN t : t \in LocalTrees}}

Dir == [kind |-> "dir", data |-> <<>>]
File(d) == [kind |-> "file", data |-> d]
Has(t, p, k) == p \in DOMAIN t /\ t[p].kind = k

\* A file has blocks of data; what is not the top directory is in one.
IsTree(t, names) ==
  /\ DOMAIN t \subseteq Seq(names)
  /\ \A p \in DOMAIN t :
       /\ t[p] = Dir \/ (t[p].data \in Seq(Nat) /\ t[p] = File(t[p].data))
       /\ p # <<>> => Has(t, Front(p), "dir")
  /\ Has(t, <<>>, "dir")

AllOps == {"connect", "disconnect", "cd", "mkdir", "rmdir", "delete", "touch", "chmod", "df",
           "dir", "mv", "put", "get", "getr", "view"}

ASSUME ShellConstants ==
  /\ Batch \in Nat \ {0} /\ MaxCalls \in Nat /\ MaxRefusals \in Nat /\ MaxOthers \in Nat
  /\ Order \in Seq(Names) /\ Unquoted \in [Names -> Names]
  /\ Null \notin Names
  /\ Ops \subseteq AllOps
  /\ \A t \in Trees : IsTree(t, Names)
  /\ Home \in Seq(LocalNames)
  /\ \A t \in LocalTrees : IsTree(t, LocalNames) /\ Has(t, Home, "dir")

VARIABLES
  remote,   \* the volume
  local,    \* the local files
  lcwd,     \* the local working directory
  curdir,   \* the shell's directory on the volume
  conn,     \* its pointers, and what they point to
  pc,       \* what it does next
  frames,   \* the calls of get_dir() in progress
  job,      \* the locals of the command in progress, or of the last one
  misuse,   \* history: how the volume was used when it could not be
  causes,   \* history: what had gone wrong before
  calls, refusals, others

vars == <<remote, local, lcwd, curdir, conn, pc, frames, job, misuse, causes, calls, refusals,
          others>>
place == <<lcwd, curdir>>
bounds == <<refusals, others>>

\* server, vol: whether these pointers of the shell are set; named: url.volumename
\* is not empty; session: the library's server, which is freed by the main loop
\* when the server closes; mounted: the volume is open; dangling: a freed structure
\* is on its list of open forks.
Conn == [server : BOOLEAN, vol : BOOLEAN, named : BOOLEAN,
         session : {"none", "open", "freed"}, mounted : BOOLEAN, dangling : BOOLEAN]

Requests == {"start", "simple", "mv_from", "mv_to", "mv_move", "cd", "list", "get", "attr", "open",
             "read", "close", "put_open", "put_chmod", "put_write", "put_close"}
Misuses == {"null", "unopened", "freed", "fork_list", "wild_fp", "null_stat"}
Excuses == {"refused", "other", "in_the_way"}

\* arg: the path on the volume that the command is about, base: the local one;
\* start: lcwd when it began; src, dst, off: the file being copied and how
\* far; old: what put found; excuses: what has happened to this command;
\* lost: it has removed a file that it was not asked to remove.
NoJob == [op |-> "none", name |-> Null, arg |-> <<>>, to |-> <<>>, base |-> <<>>, start |-> Home,
          src |-> <<>>, dst |-> <<>>, off |-> 0, old |-> <<>>, excuses |-> {}, lost |-> FALSE]

Job == [op : AllOps \cup {"none", "startup"}, name : Names \cup {Null},
        arg : Seq(Names), to : Seq(Names), base : Seq(LocalNames), start : Seq(LocalNames),
        src : Seq(Names), dst : Seq(LocalNames), off : Nat, old : Seq(Nat),
        excuses : SUBSET Excuses, lost : BOOLEAN]

TypeOK ==
  /\ IsTree(remote, Names) /\ IsTree(local, LocalNames)
  /\ Has(local, lcwd, "dir") /\ curdir \in Seq(Names)
  /\ conn \in Conn
  /\ pc \in Requests \cup {"startup", "ready", "each", "leaving", "ended"}
  /\ frames \in Seq([dir : Seq(Names), todo : Seq(Names \X {"dir", "file"}), index : Nat])
  /\ job \in Job
  /\ misuse \subseteq Misuses /\ causes \subseteq Misuses
  /\ calls \in 0..MaxCalls /\ refusals \in 0..MaxRefusals /\ others \in 0..MaxOthers

-----------------------------------------------------------------------------
(* Trees *)

Under(t, p) == {q \in DOMAIN t : IsPrefix(p, q)}
Without(t, p) == [q \in DOMAIN t \ Under(t, p) |-> t[q]]
With(t, p, n) == IF p # <<>> /\ Has(t, Front(p), "dir")
                 THEN [q \in DOMAIN t \cup {p} |-> IF q = p THEN n ELSE t[q]] ELSE t
Rest(p, q) == SubSeq(q, Len(p) + 1, Len(q))
\* p is moved to q, where nothing is.
Moved(t, p, q) ==
  [x \in DOMAIN Without(t, p) \cup {q \o Rest(p, y) : y \in Under(t, p)} |->
     IF IsPrefix(q, x) THEN t[p \o Rest(q, x)] ELSE t[x]]
Up(p) == IF p = <<>> THEN p ELSE Front(p)

\* The slots of Order whose names are in directory p, and the number of slot i among
\* them, by which the server lists them.
Listed(t, p) == {i \in DOMAIN Order : Append(p, Order[i]) \in DOMAIN t}
Ordinal(slots, i) == Cardinality({j \in slots : j <= i})

\* get_server_path(): the names of commands are relative.  The user can quote them,
\* which get_dir() and main() do not when they pass a name on.
ServerPath(n) == Append(curdir, n)
Plain(n) == Unquoted[n] = n

Init ==
  /\ remote \in Trees /\ local \in LocalTrees
  /\ lcwd = Home /\ curdir = <<>>
  /\ conn = [server |-> FALSE, vol |-> FALSE, named |-> FALSE, session |-> "none",
             mounted |-> FALSE, dangling |-> FALSE]
  /\ pc = "startup" /\ frames = <<>> /\ job = NoJob
  /\ misuse = {} /\ causes = {}
  /\ calls = 0 /\ refusals = 0 /\ others = 0

-----------------------------------------------------------------------------
(* The connection *)

\* What becomes of a request on vol
Volume == CASE ~conn.vol -> "null"
            [] conn.vol /\ conn.session = "freed" -> "freed"
            [] conn.vol /\ conn.session # "freed" /\ ~conn.mounted -> "unopened"
            [] OTHER -> "fine"

\* A request, which is refused when ok is FALSE, and always when the volume is not
\* open; a pointer to nothing or to freed memory gets no further (Crash).
AskAnd(ok, bad) ==
  /\ Volume \in {"fine", "unopened"}
  /\ Volume = "unopened" => ~ok
  /\ misuse' = misuse \cup ({Volume} \ {"fine"}) \cup bad
  /\ refusals' = IF ok \/ Volume = "unopened" THEN refusals ELSE refusals + 1
  /\ refusals' <= MaxRefusals
  /\ UNCHANGED <<others, calls>>

Ask(ok) == AskAnd(ok, {})

Excused(ok, why) == [job EXCEPT !.excuses = @ \cup (IF ok THEN {} ELSE {why})]

\* connect_volume(): vol is set before the volume is opened, and to NULL when no
\* volume has this name.  how: "opened", "refused" or "unknown"
connect_volume(c, how) == [c EXCEPT !.vol = how # "unknown", !.mounted = how = "opened"]
Hows == {"opened", "refused", "unknown"}
CauseOf(how) == CASE how = "opened" -> {} [] how = "refused" -> {"unopened"} [] OTHER -> {"null"}

\* afp_unmount_volume(): a volume that is not mounted is left alone, and with it
\* the session; else the server goes with its only mounted volume.
afp_unmount_volume ==
  IF Volume = "fine" THEN [conn EXCEPT !.session = "none", !.mounted = FALSE, !.dangling = FALSE]
                     ELSE conn
UnmountMisuse == CASE Volume = "freed" -> {"freed"}
                   [] Volume = "fine" /\ conn.dangling -> {"fork_list"}
                   [] OTHER -> {}

Typed(op) ==
  /\ pc = "ready" /\ op \in Ops
  /\ calls < MaxCalls /\ calls' = calls + 1

\* A server that is still on the library's list is used again; the result of
\* connect_volume() is not looked at.
com_connect ==
  /\ Typed("connect") /\ ~conn.server
  /\ \E named \in BOOLEAN, how \in Hows :
       LET c == [conn EXCEPT !.server = TRUE, !.session = "open", !.named = named]
       IN /\ conn' = IF named THEN connect_volume(c, how) ELSE c
          /\ causes' = causes \cup (IF named THEN CauseOf(how) ELSE {})
  /\ job' = NoJob
  /\ UNCHANGED <<remote, local, place, pc, frames, misuse, bounds>>

com_disconnect ==
  /\ Typed("disconnect") /\ conn.server
  /\ conn' = [afp_unmount_volume EXCEPT !.server = FALSE, !.vol = FALSE]
  /\ misuse' = misuse \cup UnmountMisuse
  /\ pc' = IF UnmountMisuse = {} THEN "ready" ELSE "ended"
  /\ curdir' = <<>> /\ job' = NoJob
  /\ UNCHANGED <<remote, local, lcwd, frames, causes, bounds>>

\* com_quit(), ending() and cmdline_afp_exit()
Quit ==
  /\ pc \in {"ready", "leaving"}
  /\ conn' = afp_unmount_volume /\ misuse' = misuse \cup UnmountMisuse
  /\ pc' = "ended"
  /\ UNCHANGED <<remote, local, place, frames, job, causes, calls, bounds>>

\* dsi_incoming_closesession(), in the main loop: the volume and its server are
\* freed, whatever the shell is doing with them.
ServerCloses ==
  /\ pc \notin {"startup", "ended"} /\ conn.mounted
  /\ conn' = [conn EXCEPT !.session = "freed", !.mounted = FALSE, !.dangling = FALSE]
  /\ misuse' = misuse \cup UnmountMisuse
  /\ causes' = causes \cup {"freed"}
  /\ UNCHANGED <<remote, local, place, pc, frames, job, calls, bounds>>

Crash ==
  /\ pc \in Requests /\ Volume \in {"null", "freed"}
  /\ misuse' = misuse \cup {Volume} /\ pc' = "ended"
  /\ UNCHANGED <<remote, local, place, conn, frames, job, causes, calls, bounds>>

-----------------------------------------------------------------------------
(* Commands of one request, and cd *)

\* mutant of HasVolume: the server is enough.
HasServer == conn.server

HasVolume == conn.server /\ conn.vol

\* com_mkdir(), com_rmdir(), com_delete(), com_touch(), com_chmod(), com_statvfs();
\* com_dir() looks at the server and at url.volumename only.
SimpleStart(op, n) ==
  /\ Typed(op) /\ op \in {"mkdir", "rmdir", "delete", "touch", "chmod", "df", "dir"}
  /\ IF op = "dir" THEN conn.server /\ conn.named ELSE HasVolume
  /\ pc' = "simple"
  /\ job' = [NoJob EXCEPT !.op = op, !.arg = ServerPath(n), !.start = lcwd]
  /\ UNCHANGED <<remote, local, place, conn, frames, misuse, causes, bounds>>

Effect(op, t, p) ==
  CASE op = "mkdir" /\ p \notin DOMAIN t -> With(t, p, Dir)
    [] op = "touch" /\ p \notin DOMAIN t -> With(t, p, File(<<>>))
    [] op = "rmdir" /\ Has(t, p, "dir") /\ Under(t, p) = {p} -> Without(t, p)
    [] op = "delete" /\ Has(t, p, "file") -> Without(t, p)
    [] OTHER -> t

Simple(ok) ==
  /\ pc = "simple" /\ Ask(ok)
  /\ remote' = IF ok THEN Effect(job.op, remote, job.arg) ELSE remote
  /\ pc' = "ready"
  /\ UNCHANGED <<local, place, conn, frames, job, causes>>

\* Without a volume the argument names one, and a directory on it perhaps; ".."
\* is not looked up, the rest is the name of a directory.
CdStart ==
  /\ Typed("cd") /\ conn.server
  /\ \E n \in Names \cup {Null}, how \in Hows :
       LET c == IF conn.named THEN conn
                ELSE [connect_volume(conn, how) EXCEPT !.named = how = "opened"]
           goes == c.named /\ (conn.named \/ n # Null)
       IN /\ conn.named => how = "opened"
          /\ conn' = c
          /\ causes' = causes \cup (IF conn.named THEN {} ELSE CauseOf(how))
          /\ pc' = IF goes /\ n # Null THEN "cd" ELSE "ready"
          /\ curdir' = IF goes /\ n = Null THEN Up(curdir) ELSE curdir
          /\ job' = [NoJob EXCEPT !.op = "cd", !.start = lcwd,
                       !.arg = IF n = Null THEN <<>> ELSE ServerPath(n)]
  /\ UNCHANGED <<remote, local, lcwd, frames, misuse, bounds>>

CdLookup(ok) ==
  /\ pc = "cd" /\ Ask(ok)
  /\ curdir' = IF ok /\ Has(remote, job.arg, "dir") THEN job.arg ELSE curdir
  /\ pc' = "ready"
  /\ UNCHANGED <<remote, local, lcwd, conn, frames, job, causes>>

-----------------------------------------------------------------------------
(* mv *)

\* Of two names the first cannot have a space: neither a quote nor a backslash ends
\* for escape_paths(), so that it finds no second name.
com_rename(n, m) ==
  /\ Typed("mv") /\ HasVolume
  /\ Plain(n)
  /\ pc' = "mv_from"
  /\ job' = [NoJob EXCEPT !.op = "mv", !.start = lcwd, !.arg = ServerPath(n),
                          !.to = ServerPath(m)]
  /\ UNCHANGED <<remote, local, place, conn, frames, misuse, causes, bounds>>

RenameFrom(ok) ==
  /\ pc = "mv_from" /\ Ask(ok)
  /\ pc' = IF ok /\ job.arg \in DOMAIN remote THEN "mv_to" ELSE "ready"
  /\ job' = Excused(ok, "refused")
  /\ UNCHANGED <<remote, local, place, conn, frames, causes>>

\* mutant of Occupied: the sense of the test of S_IFDIR is lost.
OccupiedByDir(ok) == ok /\ Has(remote, job.to, "dir")

\* "Make sure to_file doesn't exist"
Occupied(ok) == ok /\ Has(remote, job.to, "file")

RenameTo(ok) ==
  /\ pc = "mv_to" /\ Ask(ok)
  /\ pc' = IF Occupied(ok) THEN "ready" ELSE "mv_move"
  /\ job' = Excused(ok, "refused")
  /\ UNCHANGED <<remote, local, place, conn, frames, causes>>

\* afp_ml_rename(): into a directory; onto a file, which is deleted first
RenameMove(ok) ==
  LET from == job.arg
      to == IF Has(remote, job.to, "dir") THEN Append(job.to, Last(from)) ELSE job.to
      replaces == Has(remote, to, "file") /\ to = job.to /\ to # from
      moves == /\ ok /\ from \in DOMAIN remote /\ ~IsPrefix(from, to)
               /\ to \notin DOMAIN remote \/ replaces
  IN /\ pc = "mv_move" /\ Ask(ok)
     /\ remote' = IF moves THEN Moved(Without(remote, to), from, to) ELSE remote
     /\ job' = [Excused(ok, "refused") EXCEPT !.lost = moves /\ replaces]
     /\ pc' = "ready"
     /\ UNCHANGED <<local, place, conn, frames, causes>>

-----------------------------------------------------------------------------
(* put *)

\* A local directory can be opened, and not read.
com_put(n) ==
  LET base == Append(lcwd, n)
  IN /\ Typed("put") /\ HasVolume /\ base \in DOMAIN local
     /\ pc' = "put_open"
     /\ job' = [NoJob EXCEPT !.op = "put", !.start = lcwd, !.base = base,
                             !.arg = ServerPath(n)]
     /\ UNCHANGED <<remote, local, place, conn, frames, misuse, causes, bounds>>

\* O_CREAT | O_RDWR: what is there already stays.  When the open fails the structure
\* that has just been freed is closed.
PutOpen(ok) ==
  LET p == job.arg
      opened == ok /\ ~Has(remote, p, "dir")
  IN /\ pc = "put_open"
     /\ AskAnd(ok, IF opened THEN {} ELSE {"wild_fp"})
     /\ remote' = IF opened /\ p \notin DOMAIN remote THEN With(remote, p, File(<<>>)) ELSE remote
     /\ job' = [Excused(opened, "refused") EXCEPT
                  !.old = IF opened /\ p \in DOMAIN remote THEN remote[p].data ELSE <<>>]
     /\ pc' = IF opened THEN "put_chmod" ELSE "ready"
     /\ causes' = IF opened THEN causes ELSE causes \cup {"wild_fp"}
     /\ UNCHANGED <<local, place, conn, frames>>

PutChmod(ok) ==
  /\ pc = "put_chmod" /\ Ask(ok)
  /\ pc' = IF Has(local, job.base, "dir") \/ local[job.base].data = <<>> THEN "put_close"
                                                                        ELSE "put_write"
  /\ UNCHANGED <<remote, local, place, conn, frames, job, causes>>

\* mutant of Written: the file is opened with O_APPEND.
Appended(d, k, v) == Append(d, v)

\* The block k of a file is written; blocks before it that are missing read as 0.
Written(data, k, v) == [i \in 1..(IF k > Len(data) THEN k ELSE Len(data)) |->
                       IF i = k THEN v ELSE IF i > Len(data) THEN 0 ELSE data[i]]

\* A refused write is not reported (Files), and the next block follows.
PutWrite(ok) ==
  LET p == job.arg
      k == job.off + 1
      data == local[job.base].data
  IN /\ pc = "put_write" /\ Ask(ok)
     /\ remote' = IF ok /\ Has(remote, p, "file")
                  THEN [remote EXCEPT ![p].data = Written(@, k, data[k])] ELSE remote
     /\ job' = [Excused(ok, "refused") EXCEPT !.off = k]
     /\ pc' = IF k = Len(data) THEN "put_close" ELSE "put_write"
     /\ UNCHANGED <<local, place, conn, frames, causes>>

\* A fork whose closing is refused stays on the list of open forks, until the volume
\* is unmounted.
PutClose(ok) ==
  /\ pc = "put_close" /\ Ask(ok)
  /\ pc' = "ready"
  /\ UNCHANGED <<remote, local, place, conn, frames, job, causes>>

-----------------------------------------------------------------------------
(* get, get -r and view *)

\* com_get_file() is called by the user, by get_dir() for each file, and once when
\* afpcmd is started with the URL of a file, which it ends with.
AfterFile == CASE frames # <<>> -> "each"
               [] frames = <<>> /\ job.op = "startup" -> "leaving"
               [] OTHER -> "ready"

GetFile(j, n, p) == [j EXCEPT !.src = p, !.dst = Append(lcwd, n), !.off = 0]

com_get(n) ==
  /\ Typed("get") /\ HasVolume
  /\ pc' = "get"
  /\ job' = GetFile([NoJob EXCEPT !.op = "get", !.start = lcwd, !.arg = ServerPath(n),
                                  !.base = Append(lcwd, n)], n, ServerPath(n))
  /\ UNCHANGED <<remote, local, place, conn, frames, misuse, causes, bounds>>

\* The file to write is created, and emptied, when the attributes are known.
GetCreate(ok) ==
  LET found == ok /\ job.src \in DOMAIN remote
      blocked == found /\ Has(local, job.dst, "dir")
  IN /\ pc = "get" /\ Ask(ok)
     /\ local' = IF found /\ ~blocked THEN With(local, job.dst, File(<<>>)) ELSE local
     /\ job' = [Excused(ok, "refused") EXCEPT
                  !.excuses = @ \cup (IF blocked THEN {"in_the_way"} ELSE {})]
     /\ pc' = IF found /\ ~blocked THEN "attr" ELSE AfterFile
     /\ UNCHANGED <<remote, place, conn, frames, causes>>

\* com_view() has no struct stat for retrieve_file(), and the first thing
\* afp_ml_getattr() does is to clear it.
com_view(n) ==
  /\ Typed("view") /\ HasVolume
  /\ misuse' = misuse \cup {"null_stat"}
  /\ pc' = "ended" /\ job' = [NoJob EXCEPT !.op = "view", !.start = lcwd]
  /\ UNCHANGED <<remote, local, place, conn, frames, causes, bounds>>

\* retrieve_file(): the attributes again, the open, blocks until one says that it
\* is the last or an error, and the close.
RetrieveAttr(ok) ==
  /\ pc = "attr" /\ Ask(ok)
  /\ job' = Excused(ok, "refused")
  /\ pc' = IF ok /\ job.src \in DOMAIN remote THEN "open" ELSE AfterFile
  /\ UNCHANGED <<remote, local, place, conn, frames, causes>>

RetrieveOpen(ok) ==
  /\ pc = "open" /\ Ask(ok)
  /\ job' = Excused(ok, "refused")
  /\ pc' = IF ok /\ Has(remote, job.src, "file") THEN "read" ELSE AfterFile
  /\ UNCHANGED <<remote, local, place, conn, frames, causes>>

\* mutant of Eof: the end is seen one block early.
EofEarly(k, data) == k + 1 >= Len(data)

Eof(k, data) == k >= Len(data)

RetrieveRead(ok) ==
  LET data == IF Has(remote, job.src, "file") THEN remote[job.src].data ELSE <<>>
      k == job.off + 1
      more == ok /\ k <= Len(data)
  IN /\ pc = "read" /\ Ask(ok)
     /\ local' = IF more THEN [local EXCEPT ![job.dst].data = Append(@, data[k])] ELSE local
     /\ job' = IF more THEN [job EXCEPT !.off = k] ELSE Excused(ok, "refused")
     /\ pc' = IF more /\ ~Eof(k, data) THEN "read" ELSE "close"
     /\ UNCHANGED <<remote, place, conn, frames, causes>>

\* The structure is freed, and stays on the list when the closing is refused.
RetrieveClose(ok) ==
  /\ pc = "close" /\ Ask(ok)
  /\ conn' = [conn EXCEPT !.dangling = @ \/ (~ok /\ Volume = "fine")]
  /\ causes' = IF ok THEN causes ELSE causes \cup {"fork_list"}
  /\ pc' = AfterFile
  /\ UNCHANGED <<remote, local, place, frames, job>>

\* get_dir(): the local directory is made and entered, whether that works or not.
EnterDir(fs, j, p, n) ==
  LET here == Append(lcwd, n)
  IN /\ local' = IF here \in DOMAIN local THEN local ELSE With(local, here, Dir)
     /\ lcwd' = IF Has(local, here, "file") THEN lcwd ELSE here
     /\ job' = IF Has(local, here, "file")
               THEN [j EXCEPT !.excuses = @ \cup {"in_the_way"}] ELSE j
     /\ frames' = Append(fs, [dir |-> p, todo |-> <<>>, index |-> 0])
     /\ pc' = "list"

\* mutant of LeaveDir: the error exit does not go back.
LeaveDirUnlessError ==
  /\ lcwd' = IF pc = "list" THEN lcwd ELSE Up(lcwd)
  /\ frames' = Front(frames)
  /\ pc' = IF Len(frames) = 1 THEN "ready" ELSE "each"

\* chdir("..") and return
LeaveDir ==
  /\ lcwd' = Up(lcwd)
  /\ frames' = Front(frames)
  /\ pc' = IF Len(frames) = 1 THEN "ready" ELSE "each"

\* com_get() with -r, and recursive_get(): the argument is used as it is.
com_get_r(n) ==
  /\ Typed("getr") /\ HasVolume
  /\ EnterDir(<<>>, [NoJob EXCEPT !.op = "getr", !.start = lcwd, !.arg = ServerPath(n),
                                  !.base = Append(lcwd, n)], ServerPath(n), n)
  /\ UNCHANGED <<remote, curdir, conn, misuse, causes, bounds>>

\* ll_readdir(): batch after batch by position, until nothing is found there.  An
\* answer that the directory is gone ends the list, and is no error.
GetDirList(ok) ==
  LET fr == Last(frames)
      there == Listed(remote, fr.dir)
      size == CASE fr.index >= Cardinality(there) -> 0
                [] fr.index + Batch <= Cardinality(there) -> Batch
                [] OTHER -> Cardinality(there) - fr.index
  IN /\ pc = "list" /\ Ask(ok)
     /\ job' = Excused(ok, "refused")
     /\ \/ /\ ok /\ Has(remote, fr.dir, "dir") /\ size > 0
           /\ \E batch \in [1..size -> there] :
                /\ \A i \in 1..size : Ordinal(there, batch[i]) = fr.index + i
                /\ frames' = [frames EXCEPT ![Len(frames)] =
                     [fr EXCEPT !.index = @ + size,
                                !.todo = @ \o [i \in 1..size |->
                       <<Order[batch[i]], remote[Append(fr.dir, Order[batch[i]])].kind>>]]]
           /\ UNCHANGED <<pc, lcwd>>
        \/ /\ ~ok \/ fr.dir \notin DOMAIN remote \/ (Has(remote, fr.dir, "dir") /\ size = 0)
           /\ pc' = "each" /\ UNCHANGED <<frames, lcwd>>
        \/ /\ ~ok \/ Has(remote, fr.dir, "file")
           /\ LeaveDir
     /\ UNCHANGED <<remote, local, curdir, conn, causes>>

\* The next entry.  For a file curdir is set, and not set back; its name goes
\* through escape_paths() like one that was typed.
GetDirEntry ==
  /\ pc = "each"
  /\ LET fr == Last(frames)
         n == Head(fr.todo)[1]
         rest == [frames EXCEPT ![Len(frames)].todo = Tail(@)]
     IN \/ /\ fr.todo = <<>> /\ LeaveDir
           /\ UNCHANGED <<local, curdir, job>>
        \/ /\ fr.todo # <<>> /\ Head(fr.todo)[2] = "dir"
           /\ EnterDir(rest, job, Append(fr.dir, n), n)
           /\ UNCHANGED curdir
        \/ /\ fr.todo # <<>> /\ Head(fr.todo)[2] = "file"
           /\ frames' = rest /\ curdir' = fr.dir /\ pc' = "get"
           /\ job' = GetFile(job, Unquoted[n], Append(fr.dir, Unquoted[n]))
           /\ UNCHANGED <<local, lcwd>>
  /\ UNCHANGED <<remote, conn, misuse, causes, calls, bounds>>

-----------------------------------------------------------------------------
(* Starting with a URL, and the others *)

StartAlone ==
  /\ pc = "startup" /\ pc' = "ready"
  /\ UNCHANGED <<remote, local, place, conn, frames, job, misuse, causes, calls, bounds>>

\* cmdline_server_startup(): a volume or a path that cannot be used ends afpcmd; a
\* server that cannot be reached does not (StartAlone).
cmdline_server_startup ==
  LET c == [conn EXCEPT !.server = TRUE, !.session = "open"]
  IN /\ pc = "startup"
     /\ \/ /\ conn' = c
           /\ pc' = "ready"
           /\ UNCHANGED <<job, causes>>
        \/ \E how \in Hows \ {"opened"} :
             /\ conn' = connect_volume([c EXCEPT !.named = TRUE], how)
             /\ causes' = CauseOf(how)
             /\ pc' = "leaving"
             /\ UNCHANGED job
        \/ \E n \in Names \cup {Null}, recursive \in BOOLEAN :
             /\ conn' = connect_volume([c EXCEPT !.named = TRUE], "opened")
             /\ pc' = IF n = Null THEN "ready" ELSE "start"
             /\ job' = IF n = Null THEN NoJob
                       ELSE [NoJob EXCEPT !.op = IF recursive THEN "getr" ELSE "startup",
                               !.name = n, !.arg = <<n>>, !.base = Append(lcwd, n)]
             /\ UNCHANGED causes
     /\ UNCHANGED <<remote, local, place, frames, misuse, calls, bounds>>

StartPath(ok) ==
  LET n == job.name
      p == job.arg
      m == Unquoted[n]
  IN /\ pc = "start" /\ Ask(ok)
     /\ \/ /\ ~ok \/ p \notin DOMAIN remote
           /\ pc' = "leaving" /\ UNCHANGED <<local, place, frames, job>>
        \/ /\ ok /\ Has(remote, p, "dir") /\ job.op = "getr"
           /\ curdir' = p /\ EnterDir(<<>>, job, p, n)
        \/ /\ ok /\ Has(remote, p, "dir") /\ job.op = "startup"
           /\ curdir' = p /\ pc' = "ready" /\ UNCHANGED <<local, lcwd, frames, job>>
        \/ /\ ok /\ Has(remote, p, "file")
           /\ pc' = "get"
           /\ job' = GetFile([job EXCEPT !.op = "startup", !.base = Append(lcwd, m), !.arg = <<m>>],
                             m, <<m>>)
           /\ UNCHANGED <<local, place, frames>>
     /\ UNCHANGED <<remote, conn, causes>>

\* Another client removes a file, or makes one where there is none.
Other(p) ==
  /\ pc \in Requests \cup {"each"} /\ others < MaxOthers
  /\ remote' = CASE p \notin DOMAIN remote -> With(remote, p, File(<<0>>))
                  [] Has(remote, p, "file") -> Without(remote, p)
                  [] OTHER -> remote
  /\ remote' # remote
  /\ others' = others + 1
  /\ job' = [job EXCEPT !.excuses = @ \cup {"other"}]
  /\ UNCHANGED <<local, place, conn, pc, frames, misuse, causes, calls, refusals>>

Request(ok) ==
  \/ StartPath(ok) \/ Simple(ok) \/ CdLookup(ok)
  \/ RenameFrom(ok) \/ RenameTo(ok) \/ RenameMove(ok)
  \/ PutOpen(ok) \/ PutChmod(ok) \/ PutWrite(ok) \/ PutClose(ok)
  \/ GetCreate(ok) \/ RetrieveAttr(ok) \/ RetrieveOpen(ok) \/ RetrieveRead(ok) \/ RetrieveClose(ok)
  \/ GetDirList(ok)

Command(n) ==
  \/ \E op \in Ops : SimpleStart(op, n)
  \/ \E m \in Names : com_rename(n, m)
  \/ com_put(n) \/ com_get(n) \/ com_get_r(n) \/ com_view(n)

Next ==
  \/ StartAlone \/ cmdline_server_startup
  \/ com_connect \/ com_disconnect \/ CdStart \/ Quit
  \/ \E n \in Names : Command(n)
  \/ \E ok \in BOOLEAN : Request(ok)
  \/ GetDirEntry
  \/ ServerCloses \/ Crash
  \/ \E n \in Names : Other(Append(curdir, n))

Spec == Init /\ [][Next]_vars

-----------------------------------------------------------------------------
(* Properties *)

Undisturbed == pc = "ready" /\ job.excuses = {}

\* A file that get has fetched, and a directory that get -r has fetched, are in the
\* local directory with all that is in them, block for block, unless a request was
\* refused, another client changed the volume, or a local file or directory was in
\* the way.  Files whose names must be quoted are left out: get_dir() hands
\* the names of a listing to com_get_file() as they are.
CopiesAreWhole ==
  /\ Undisturbed /\ job.op = "get" /\ Has(remote, job.arg, "file") =>
       /\ Has(local, job.base, "file")
       /\ local[job.base].data = remote[job.arg].data
  /\ Undisturbed /\ job.op = "getr" /\ Has(remote, job.arg, "dir") =>
       \A p \in Under(remote, job.arg) :
         LET q == job.base \o Rest(job.arg, p)
         IN remote[p].kind = "dir" \/ Plain(Last(p)) => q \in DOMAIN local /\ local[q] = remote[p]

\* What put sends is what the server has afterwards, from the beginning; of a
\* longer file that was there the rest stays, put not emptying it.
PutIsWhole ==
  Undisturbed /\ job.op = "put" /\ Has(local, job.base, "file") =>
    LET data == local[job.base].data
    IN /\ Has(remote, job.arg, "file")
       /\ remote[job.arg].data = data \o SubSeq(job.old, Len(data) + 1, Len(job.old))

\* get -r makes and changes local directories only below the one it was started in
\* and returns there, whatever is refused, unless a local file has the
\* name of a directory it wants to make.
BackHome ==
  job.op = "getr" /\ pc # "ended" /\ "in_the_way" \notin job.excuses =>
    /\ IsPrefix(job.start, lcwd)
    /\ pc = "ready" => lcwd = job.start

\* mv removes a file in the way of the new name only when it was not seen: the look
\* at the new name was refused, which mv takes for "not there", or another client
\* made the file between the look and the move.
MovesReplaceNothing == job.lost => job.excuses # {}

\* The volume is used when it can be, but for what follows from an earlier failure
\* that the shell does not look at: a volume nobody knows (a NULL pointer), a
\* volume that was refused, a session the server closed (freed memory), an open that
\* was refused to put (a freed handle), a close that was refused.  view, which
\* never works, is left out.
MisuseFollowsFailure == misuse \ {"null_stat"} \subseteq causes

\* "View the contents of FILE" (cmdline_main.c, commands[]): the shell survives it.
ViewShowsTheFile == "null_stat" \notin misuse
=============================================================================
