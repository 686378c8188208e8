# A TLA+ verification of afpfs-ng

afpfs-ng is a client for the Apple Filing Protocol (AFP): a library (`lib/`),
a daemon that serves several client programs and FUSE mounts (`daemon/`), a
command-line client (`cmdline/`), and an older stand-alone FUSE client
(`fuse/`) that is no longer built. This directory models the parts of it that
are hard to test: threads that share request queues, lists and caches, a peer
that answers late or never, and C memory that is freed and reused.

All paths below are relative to `src/afpfs-ng/`. `PROJECT.json` maps each
definition to the lines it stands for.

## 1. The system

### Who runs

- **Main loop** (`lib/loop.c`): one thread in `select()` over the signal pipe,
  the clients' sockets and the servers' sockets. It runs `dsi_recv()` for each
  readable server and the daemon's hooks for each readable client.
- **Command threads** (`daemon/commands.c`, `daemon/daemon_client.c`): one
  detached thread per command of a client program.
- **FUSE threads** (`daemon/daemon_fuse.c`, `daemon/fuse_int.c`): file system
  calls of the kernel, for each mounted volume.
- **afpcmd** (`cmdline/`): a program of its own, in which one thread runs the
  user's commands and main loop is a second one.
- **The AFP server**, at the other end of one TCP connection per `struct
  afp_server`.

Command and FUSE threads call AFP operations (`lib/midlevel.c`, `lowlevel.c`,
`did.c`, `proto_*.c`), these call `dsi_send()`, which queues a request, writes
it and waits; main loop's `dsi_recv()` matches each answer to a request,
unpacks it into the caller's memory and wakes the caller.

### Components

| component | code | state | operations | what is hard | what makes it correct |
|---|---|---|---|---|---|
| DSI request engine | `lib/dsi.c` | `lastrequestid`, `command_requests`, `send_mutex`, `connect_state`; per request `wait`, `done_waiting`, `return_code`, `other` | `dsi_send`, `dsi_recv`, tickles, close, attention | ids read outside their lock, pointers used after the lock is dropped, timeouts racing answers, waits that end for another reason, errors that return with a lock held | a call returns the code of its own answer, after it was unpacked, or one whose wait was ended early the 0 that stands there; nothing is written into memory given up; no request is lost, leaked or freed twice; timed calls return |
| DSI packet framing | `lib/dsi.c` `dsi_recv` | `incoming_buffer`, `data_read`, the `afp_rx_buffer` of a pending read | one `read()` per call | pieces of any size, a read given up half-way | no byte is lost or misplaced; each packet is processed once, in order, with its body |
| Servers, volumes, connections | `lib/afp.c`, `connect.c`, `server.c` | `server_base` and its `next` pointers; per server connection, signature, volumes | connect, probe, login, attach, unmount, suspend, resume | an unlocked list, freed servers, error exits that remove | the list is finite and holds no freed server; one session per machine; a mounted volume keeps its server |
| Main loop | `lib/loop.c` | `rds`, `max_fd`, signal flags, `loop_started` | `afp_main_loop`, its start and who waits for it, add and remove descriptors, ending | a set that is cleared after threads have used it, a condition variable without its mutex, descriptors changed by other threads | every readable server is served; a command sent while the loop starts is answered |
| Directory id cache | `lib/did.c` | per volume a list of (path, id, time) | `get_dirid`, add, expire, remove | a tree changed by others, a pointer read before the lock, entries added twice | an id is right, or wrong for a bounded time only |
| Daemon command handlers | `daemon/commands.c`, `stateless.c` | volume ids, open files, the shared memory of a client | 20 commands | a volume id is an address; error paths that free listed structures | a command acts on the volume the client attached |
| Daemon clients | `daemon/daemon_client.c`, `daemon.c` | a pool of ten clients, their descriptors and threads | accept, command, continue, close, end | a slot is marked used after its lock is dropped; threads and main loop share descriptors | a slot serves one client; a client is answered |
| File operations | `lib/midlevel.c`, `lowlevel.c`, `forklist.c`, `daemon/commands.c` | open forks of a volume, byte-range locks | open, read, write, close, create, delete, rename, truncate, links, permissions, times, the closing of a volume | several requests per operation, of which one may fail; structures freed while listed | what is reported as done is done; every open fork is somebody's; the list can be walked |
| AppleDouble | `lib/resource.c` | forks and desktop opened by a handle | open, read, write, truncate, create, close, list of metadata paths | a metadata path that a call does not catch; structures filled before the request that may fail; fork numbers that are no longer one's own | a call changes its own metadata and nothing else; a listing shows what exists |
| AFP marshalling | `lib/proto_*.c` | - | packing, unpacking | lengths | an answer is unpacked as it was packed |
| Authentication | `lib/uams.c`, `afp.c`, `server.c`, `users.c` | version and method chosen, blocks and ciphers of a method, session token | choice of version and method, six login methods, change of password, reconnection with a token | a dialogue of up to twenty steps each of which may fail; requests put together by hand | everything taken is given back; requests carry the server's id; success means a session |
| Names and encodings | `lib/codepage.c`, `unicode.c`, `utils.c`, `afp_url.c` | - | conversions, URLs | - | - |
| FUSE file system | `daemon/fuse_int.c`, `daemon_fuse.c` | mount state of a volume | mount, unmount, file operations | a mount that hangs or fails half-way | - |
| Status text | `lib/status.c`, `extra.c` | - | text only | - | - |
| Client tools | `cmdline/`, `lib/client.c`, `daemon/stateless.c` | a session of one user: server, volume, two working directories | `connect`, `cd`, `dir`, `get`, `get -r`, `put`, `mv`, `view`, ... | a session that ends under a command; directories walked over many requests | a copy is whole; the user is back where he started |
| Stand-alone FUSE client | `fuse/` | an older copy of the daemon | as the daemon | not built: `Makefile.am` has `SUBDIRS = lib daemon cmdline docs include` | - |
| KDE I/O slave | `../kioslave_afp/` | - | glue | - | - |

The hazards this code is exposed to, each at its line and with the properties
that are about it, are the `hazards` of `PROJECT.json`.

## 2. Plan

Modelled first is what everything else rests on.

1. **Done.** `DsiQueue` and the contract it implements, `DsiService`;
   `DsiFraming`; `ServerList`, which uses of the engine only what `DsiQueue`
   shows of it: a command is answered, comes back unanswered, or blocks on a
   `send_mutex` left locked; `DidCache`; the first theorems, in
   `DsiQueue_proofs`.
2. **Done.** `DaemonClients` (`daemon_client.c`, `loop.c`, the command threads
   of `commands.c`), the pool of clients and main loop's descriptor set;
   `LoopStart`, the start of main loop and who waits for it.
3. **Done.** `Files` (`midlevel.c`, `lowlevel.c`, `forklist.c`, `process_open`
   and its like in `commands.c`); `AppleDouble` (`resource.c`); `Login`
   (choice of version and method, `uams.c`); `Shell` (`cmdline_afp.c`).
4. **To come: the mount life cycle** (`fuse_int.c`, `daemon_fuse.c`,
   `process_mount`), together with the volume states of `ServerList`: mounts at
   the same time share the variables that say which volume a FUSE thread serves.
5. **To come: pure algorithms**: URL parsing (`afp_url.c`) against a reference
   definition over bounded inputs.
6. **Proofs, done**: `DsiQueue` with its answers and its refinement of
   `DsiService`, `DsiFraming`, `DaemonClients`, `ServerList`, `AppleDouble`,
   `DidCache`, `Files`, `Shell`, `Login`: every invariant and every property of
   steps that their runs check, see section 6.

The runs have two command threads next to main loop: each race in this code is
between two threads, or a thread and main loop. `loop_start` has three, since
two of them can wait for one signal while a third gives it.

## 3. Conventions of the modules

- A step of a thread is the code between two points where another thread can
  be seen to run. `pc` names the point; the rest of a thread's record are the
  locals that live across it.
- C structures are **blocks** of a heap: `malloc()` takes a free block,
  `free()` gives it back with its contents, and a stale pointer then means
  whatever lives in the block now. What `malloc()` leaves in a block, and
  locals read before they are written, are nondeterministic choices.
- **`races`** is a history variable. The code has interleavings that it does
  not handle; the model takes them and goes on with what the code then does,
  and records that it happened. A property that is conditional on `races = {}`
  thereby says two things: what the code guarantees, and that the members of
  `RaceKinds` are *all* the ways to lose it. The runs expected to end in a
  violation check the same things unconditionally where the source states them
  so.
  Several hazards of `PROJECT.json` are themselves such races, or exceptions
  a property names: a property listed with one of these checks that nothing else
  does the damage, and not that the code avoids it. Where a document or comment
  promises more, a configuration that ends in a violation shows the hazard itself
  (section 5).
- Definitions introduced as "mutant of X" are plausible mistakes in X. They
  are used by no specification; each shows which property would notice.

## 4. The modules

### DsiQueue: the request engine

A caller thread in `dsi_send()` goes through the `pc`s `header` (`Begin`,
`CopyId`: `dsi_setup_header()` increments the id under its mutex and reads it
back without), `send` (`Allocate`), `append`, `check` (connection state,
reconnect), `write` (under `send_mutex`), `branch` (the unlocked test of
`request->wait`), `enter`, `waiting` (the condition variable), `code`,
`remove`. Main loop in `dsi_recv()` goes from `select` (`ReceiveReply`,
`ReceiveTickle`, `ReceiveEOF`) through `store`, `process`, `finish` and
`signal`; for a tickle it becomes a sender itself.

A call has a number, which its answer carries back as return code, so that one
can tell whose answer a call has got. `got[t]` is the memory behind
`request->other`.

The waits are under an `if`, and whatever ends them is taken for the answer.
`WakeEarly` is a wait that ends without a signal, which POSIX allows;
`afp_server_remove()` and `afp_free_server()` are the steps of `Removal`: one
request after the other is marked done and its sender woken (`WakePending`,
`NextPending`, which reads `p->next` without `request_queue_mutex` and may find
anything when `p` has been freed), then the server leaves the list (`Unlink`;
`StillValid` is the test of it in `dsi_send()` and in
`dsi_remove_from_request_queue()`) and is freed with the requests it still lists
(`FreeServer`). The call then reads `return_code` (`ReadCode`, `Meaning`), which
is 0 if no answer has come: it returns success, `unanswered` in the model. This
is not one of the races: `woken` are the callers whose wait of the present or
last call was ended that way, and `OwnReply` allows that result to them only.
What a reconnect of an unlinked server would do is left to `ServerList`.

The broken pipe is modelled as the code has it: `WriteBroken` leaves
`send_mutex` locked and the request queued. A reconnect inside `dsi_send()` is
one step that needs what its commands need (the mutex, a loop thread that is
not itself the sender), uses up `ReconnectIds` ids and restarts the counter;
its own traffic is not modelled. Nor are a failing `malloc()` other than of
the request (all blocks in use) and DSIAttention, whose effects (messages, the
server's shutdown notice) do not touch the queue.

`RaceKinds`: `overlap` (two calls take ids at once), `freed_in_use` (a
sender, main loop or the removal frees a request another of them holds, or the
server is freed while one of them is inside), `id_clash` (a packet of the server's own has
the id of a pending request: `dsi_find_request()` does not look at the kind of
packet), `new_session` (ids start over), `id_reused` (ids wrap around to one
that is still listed or unanswered: nothing in `dsi_setup_header()` looks).

### DsiService: its contract

Per caller: no call, a call in progress, its answer unpacked. A call ends with
`ok` only from the third state, and `unanswered` only if the wait was ended
early (`Wake`; `early` holds these callers). `DsiQueue!Service` is the refinement mapping,
and `intact` is `races = {}`.

### DsiFraming: cutting the stream into packets

A byte is a pair of its packet and its place in it. `ReadHeader`, `ReadData`
(the body of an `afpRead`'s answer, straight into the caller's buffer) and
`ReadBody` (everything else) are the three branches of `dsi_recv()`; `k`, how
much one `read()` returns, is any number up to what was asked for. `ReadBody`
asks for the length of the whole body each time, and what it does with the
surplus is translated as it stands: it copies from 16 bytes too far to the
front and sets `data_read` to the length of the packet just processed.
`Abandon` is the timeout of a read call.

### ServerList: servers, volumes and connections

`Connect`, `FindServer`, `Probe`, `GetStatus`, `DropProbe`, `FindSignature`,
`ConnectAgain`, `Login`, `LoginError`, `Publish` are the way through
`afp_server_full_connect()`: a server at this address is probed for its
signature, dropped, and connected again if no listed server has that
signature. `Attach`, `VolOpen`, `AttachError`; `Unmount`, `Detach`,
`BeginUnmount`, `VolClose`, `Logout`; `Suspend`, `Zzzzz`; `Resume`,
`Reconnect`, `Resumed` are the other commands. `LoopReceives`, `LoopReturns`,
`UnmountAll` are main loop; `StartEnding` and `ForcedEnding` the thread that
ends the daemon, which unmounts every volume of every server and goes on from a
server that its last volume has taken with it (`freed_in_use`). `Node` walks the `next` pointers like the code's
`for` loops; on a cyclic list a search that finds nothing never ends
(`spinning`).

A command is `Answered`, or comes back without answer (`Returns`), or waits
for a mutex left locked (`broken`, which abstracts `DsiQueue!WriteBroken`).
The list operations are single steps: the races inside the few instructions
that relink a pointer are left out, those between operations are not.
Simplifications: a server's name is its address; a volume is attached without
a mount point (`process_attach`), so that a resume reopens none; a volume
whose signature is not fixed is never mounted, as `afp_connect_volume()`
refuses it.

`RaceKinds`: `freed_in_use`, `readded` (a listed server is added again, which
makes it its own successor), `overlap` (two connects at once), `no_status`.

### DidCache: directory ids

`Start`, `ReadBase`, `Find`, `Ask`, `Add`, `Return` are `get_dirid()`: the
longest cached prefix, found by one pass per prefix, then one request per
further component. `Visit` is one step of the pass of
`find_dirid_by_fullname()`, with what it does to expired entries next to the
first one. `Change` is the tree changing on the server, `Rmdir` and
`Invalidate` are `afp_ml_rmdir()`.

`RaceKinds`: `no_answer` (a component was not answered with a directory, and
what `fi` held before is used), `stale_prev` (the first entry changed between
the unlocked read of it and the lock, and is then removed through the old
pointer), `added_twice`, `freed_entries` (a lookup, a removal or the next
unmount comes to entries freed with an earlier one).

`Unmount` is `free_entire_did_cache()`, after which `did_cache_base` goes on
pointing at the freed entries (`freed`) behind those the next mount adds. No
second passes inside `get_dirid()`.

### DaemonClients: the daemon's clients

A client program connects, sends one command at a time and waits
(`daemon_connect`, `send_command` and `read_answer` of `stateless.c`:
`Connect`, `Ask`, `Arrive`, `Leave`). Main loop copies its descriptor set
(`Copy`), calls `pselect()` (`Select`), and accepts (`Accept`) or picks the
first used slot that is readable (`FindClient`) and reads a header, a part or
all of a command (`ReadPart`, `ReadAll`), after which the descriptor leaves
the set, a thread is started (`StartThread`) and the descriptor is cleared
once more (`Clear`); or it drops the client (`ReadEnd`, `Drop`). The thread
answers and then either puts the descriptor back (`Continue`, `Reset`) or
closes the connection (`Close`, `Unadd`, `Lower`, `Shut`, `RemoveClient`).
`Exit` and `End` are the exit command and the forced ending hook, whose
unmounting is in `ServerList`.

`Mute` is a command thread of `process_suspend()`, `process_resume()` or
`process_ping()`: it neither answers nor puts the descriptor back nor closes
the connection, and the thread ends. The client waits for its 30 seconds and
leaves; nobody listens to its descriptor any more, and its slot is not given
back. `Forgotten` are the slots of these clients, the one exception of `Heard`
that is not a race, and `EveryCommandAnswered` says nothing of these commands.

Descriptors are small numbers, of which `accept()` takes the lowest free one,
since `max_fd` and the reuse of numbers are what can go wrong. `rm_fd()` is
two steps, between which another thread can add a descriptor; a single
`FD_SET` or `FD_CLR` is one step. What a command does is left out, and so are
servers' descriptors. Unknown commands (`commands.c:1163`) and requests too
short for `serverinfo`, `status` and `connect` (376, 435, 840), which the client
library does not send, end as the mute ones do.

`RaceKinds` lists ten ways for a client not to be heard or for the daemon to
end, each commented in the module; all of them occur within the bounds of the
run.

### Files: operations on files

A call (`Call`) is a sequence of AFP requests, and each of them is an action:
`OpenFork`, `AddOpenedFork`, `SetForkParms`, `Lock`, `WriteExt`, `ReadExt`,
`Unlock`, `CloseFork`, `RemoveOpenedFork`, `CreateFile`, `CreateDir`, `IsDir`,
`Delete`, `MoveAndRename`, `SetFileDirParms`, `GetFileDirParms`, `VolClose`,
`RemoveForkList`; `GoDown` is the connection. The operators `After...` say,
for each function, what it does with each answer: the next request, or
`Return` with a result. The server performs a request and answers it in one
step; other threads run between two requests.

What the code makes of errors is translated as it stands, since the properties
are about it. `ll_write()` does not report the error of a block that is
followed by another request; a busy object makes `unlink` and `rmdir` return
success; `is_dir()` takes a refused request for "not a
directory"; `rename` onto an existing object deletes it and moves again, and
some errors of the second move count as success; `truncate` empties the file
whatever the length, returns 0 when the file could not be opened, and leaks
fork and structure when emptying fails; `chmod`, `chown` and `utime` ignore
most errors. `process_open()` frees a structure that stays listed,
`process_close()` and the release of a FUSE handle forget to unlist or free
one, `readlink` and `symlink` list a structure on their stack, and
`afp_unmount_volume()` closes the volume before the list of forks and frees
structures that FUSE still uses.

`TroubleKinds` names what a property has to except, each where it happens:
`CloseFork` of a daemon client, for one, while another thread still reads from
the fork (`InUse`), since `process_close()` asks nobody whether the number is in
use. `orphans` are the structures that are listed and no longer live.

### AppleDouble: metadata as files

Every operation of `resource.c` on `.AppleDouble/name`, `name.finderinfo`,
`name.comment` and the server's icon, with the callers in `midlevel.c` that
decide whether it is asked. A call is one step, with any of its requests
refused: `appledouble_open`, `_close`, `_read`, `_write`, `_truncate`,
`_creat`, `_getattr`, `_readdir`; `NotPermitted` and `SymlinkOrRename` are the
calls that do nothing on a metadata path, or are not caught. The model keeps
what the code does: a read of Finder info goes on into the branch for
comments; a resource fork of one byte reads as empty; a write to a resource
fork is sent twice; `appledouble_truncate()` does not look at the answer to
its open; creating a comment, a symlink or renaming is not caught and makes a
stray object; an open that fails leaks its structure; writing a part of the
Finder info clears the rest.

The server numbers all its open forks in one table (`forks`), data forks among
them, which `afp_ml_open`, `WriteData` and `afp_ml_close` open, write and close
beside the metadata. A handle keeps a number, and writes (`ll_write`), lengths
(`ll_zero_file`) and closes (`CloseFork`) go by it, whatever it stands for by
then. `appledouble_truncate()` works on a structure on its stack: if its open
was refused, the number there may be that of any open fork, of which a data fork
is emptied and either kind closed (`TruncateOther`). `lost` are the handles
whose fork was closed that way; what they write afterwards goes nowhere, or into
the fork that has the number now. `last.astray` marks a call whose requests
named a number that was not its own.

### Login: version, method, password

`ChooseVersion` and `ChooseUam` are the negotiation. A method (no password,
clear text, random number, two-way random number, DHX, DHX2) and a change of
the password are *programs* of steps, listed as in the source from the first
allocation to the error exits; one set of actions runs them all: `Allocate`,
`FreeBlock`, `OpenCipher`, `UseCipher`, `SendRequest`, `GoOn`, `TakeTheId`,
`CompareProofs`, `LeaveFunction`, and `StepFails`, which takes the exit of the
step that failed. `GetToken`, `LoseConnection` and the `login` phase after it
are the session token and the reconnection; `StartChange` and `EndChange` the
change of a password.

The numbers of libgcrypt are left out; memory, ciphers, the transaction id and
its byte order, the layout after the name, and which password is in a request
are kept. Translated as they stand: the `assert()`s of string constants, which
never fire; `dhx_passwd()` and `dhx2_passwd()`, which test the address and not
the value when padding after the name; `dhx2_passwd()`, which does not look at
its first allocation, sends the id as it is in memory, and copies the old
password where the new one belongs; `afp_ml_passwd()`, which returns success
whatever happened and leaves `server->password`; and the fall-through from an
unknown version to "already logged in". The server is external: it answers as
the protocol allows, or refuses.

### Shell: the command-line client

A step is one request, with what the command does up to the next (`Request`),
or a command that starts (`Command`, `CdStart`, `com_connect`,
`com_disconnect`, `cmdline_server_startup` for a URL); `GetDirEntry` is `get
-r` going through a listing, `frames` its calls in progress; `ServerCloses` is
main loop told that the session ends, `Other` a change by another client,
`Crash` the use of memory that is not there. A file is a sequence of blocks; a
name is a value, and `Unquoted` says what `escape_paths()` leaves of one that
nobody quotes (`get_dir()` passes the names of a listing on unquoted).

Translated as they stand: `get -r` changes the shell's remote directory and
does not restore it; `put` does not empty an existing file, and after a
refused open closes a handle that was freed; `disconnect` with no volume
mounted leaves the session; `mv` looks for the target first and moves then;
`view` has no `struct stat` and always crashes; a listing that is refused with
an unlisted code asks again. The session's end is modelled only while a volume
is mounted, a login succeeds or changes nothing, and permissions and errors of
local writes are left out. `excuses` and `causes` record what the properties
except and what has gone wrong so far; `misuse` the uses of a volume that is
not there.

### LoopStart: the start of main loop

The loop goes through `Enter`, `Zero` (it clears the descriptor set), `Mask`
(handler and blocked signal), `Copy` and `pselect()` (`Interrupted`,
`Receive`, `ServeClient`, `TimedOut`, which sets `loop_started`), and
`Announce`, which signals the condition once. A thread connects and adds its
descriptor, signals the loop, tests `loop_started`, waits, and writes.
`daemon` distinguishes the daemon, where the loop is running when a thread is
started by a client's command, from afpcmd, where both start at once.

`RaceKinds`: `cleared` (a descriptor added before `Zero`), `killed` (the
signal comes before its handler, and ends the program), `missed` (signalled
between test and wait), `one_woken` (signalled once for two that wait). A
command sent afterwards is `DsiQueue`'s.

## 5. The runs

| run | expects | instance | shows |
|---|---|---|---|
| `dsi_faults` | pass | 2 callers, 2 blocks, ids 0 and 1, 2 calls that wait for a time or not at all, a broken or closed connection, waits that end early, the removal of the server, a reconnect, one tickle | `PendingMatches`, `RequestsAccounted` whatever happens; `OwnReply`, `WritesOnlyLiveBuffers` and the contract `DsiService` (`ImplementsService`) up to the races |
| `dsi_live` | pass | ids 0..3, write errors, waits that end early, an answering server | `TimedCallsReturn`, `AnsweredCallsReturn`: no lost wake-up |
| `servers` | pass | 2 threads, the loop and the ending thread, 3 blocks, 2 addresses of one machine, 2 volumes, 3 commands | `ListSound`, `OneSessionPerMachine`, `MountedServersKept`, `NoIdleSession` |
| `framing` | pass | 3 packets with bodies of 0, 1 or 3, header 2, buffer 6 | `InStep`: at every moment the packets processed so far are the first ones sent, whole and in order, and what is in the two buffers and on the way is the packets after them; `AllDelivered` |
| `clients` | pass | 2 clients that make 3 connections and send 2 commands of 1 or 3 units, 2 slots, 2 threads | `Heard`, `NoBadDescriptor`, `EndsWhenAsked`, `AnswersTheAsker`, `EveryCommandAnswered` |
| `loop_start` | pass | 3 threads, daemon and program | `FirstCommandsAnswered` |
| `did_cache` | pass | 2 threads, 2 directories, 2 names, depth 2, entries good for one second, 3 seconds, one change, any number of unmounts | `StaleForABoundedTime`, `NotCachedAfterRmdir` |
| `did_parent` | violation | 1 thread, a tree that does not change | `AlwaysTheParent`: the id of another directory |
| `files` | pass | 2 threads, 2 names, 3 objects, 2 forks, 2 blocks, writes of 2 requests, 2 tries for a lock, 2 calls, 1 refusal | `ListedAreLive`, `ForksAccounted`, `SuccessIsReal`, `RemovesTheRightKind`, `WholeWrites` |
| `apple_double` | pass | 2 names, 2 handles on the metadata of one of them and the data fork of the other, 2 fork numbers, 2 calls, 1 refusal | `WrittenIsThere`, `ForksBelong`, `ListingIsRight`, `OnlyItsMetadata` |
| `login` | pass | six methods, ids 257 and 258, names of 4 and 5 characters, one change, one reconnection | `GivesAllBack`, `RequestsWellFormed`, `SuccessIsTrue`, `NegotiatedWell` |
| `shell` | pass | 2 commands, 2 volumes, 3 local directories, listings one entry at a time, 1 refusal, 1 change by another client | `CopiesAreWhole`, `PutIsWhole`, `BackHome`, `MovesReplaceNothing`, `MisuseFollowsFailure` |

The following configurations are kept for reading and are run by hand; all but
the first three end in a counterexample to what a comment, an assertion or a
document says of the code:

| configuration | module | property | what it shows |
|---|---|---|---|
| `MCDsiContract.cfg` | `MCDsiQueue` | `ImplementsService`, `WritesOnlyLiveBuffers` | they hold with three calls too, some of which wait for ever |
| `MCDsiRemoved.cfg` | `MCDsiQueue` | `RequestsAccounted`, `OwnReply`, `ImplementsService`, `WritesOnlyLiveBuffers` | waits that end early and the removal, with calls that wait for ever, and followed through the races |
| `MCForks.cfg` | `MCAppleDouble` | `WrittenIsThere`, `ForksBelong`, `OnlyItsMetadata` | both forks of one file and the resource fork of another |
| `MCDsiNoError.cfg` | `MCDsiQueue` | `NoErrorMeansAnswered` | `dsi.c:177` says "0: No error", and a call that `afp_server_remove()` wakes returns it without an answer |
| `MCDsiBrokenPipe.cfg` | `MCDsiQueue` | `TimedCallsReturn` | `dsi.c:185` says that a call waits for N seconds, and after a broken pipe one with a timeout blocks for ever on `send_mutex` |
| `MCClientsMute.cfg` | `MCDaemonClients` | `EveryAnswerComes` | `stateless.c:124` reads the answer from afpfsd, which suspend and resume never get |
| `MCDsiOwnCode.cfg` | `MCDsiQueue` | `ReturnsItsCode` | a call returns the code of another command |
| `MCServersResume.cfg` | `MCServerList` | `NoRecursiveLoop` | a resumed server is its own successor |
| `MCFramingFull.cfg` | `MCDsiFraming` | `FullPackets` | bytes of two packets are processed as one |
| `MCForksListed.cfg` | `MCAppleDouble` | `ResourceForksListed` | a listing without the resource forks that `docs/FEATURES.txt:88` promises |
| `MCFinderInfo.cfg` | `MCAppleDouble` | `RestKept` | writing a part of the Finder info clears the rest (`resource.c:228`) |
| `MCShellView.cfg` | `MCShell` | `ViewShowsTheFile` | `view` never shows a file (`cmdline_main.c:172` offers it) |
| `MCLoginNewPassword.cfg` | `MCLogin` | `AsksForTheNewPassword` | the change of a password by DHX2 sends the old one twice (`uams.c:1545` says the new one) |

`TypeOK` is an invariant of `dsi_faults`. All type invariants but that of
`LoopStart` are proved (section 6).

**Bounds.** The ids of the engine wrap around within the run (ids 0 and 1, of
which a reconnect uses up one), and there are as many blocks as concurrent
requests, so that every request after the first two occupies memory used
before. A write error that leaves the connection up is in
`dsi_live`. In `servers` three commands suffice for connect, attach, and a third
that races with the loop or the second thread; the third block lets both
threads hold a server while one is listed; the daemon is told to end when all
commands have been sent, and something is mounted. In `framing` a body is absent,
shorter or longer than the header and does or does not fill the buffer; three
packets let a mistake about the first be seen in the next but one. In
`clients` three connections let a slot and a descriptor be used again by
either client; a command is a header or a header with a body that comes at
once or in parts. In `did_cache` depth two has an entry below another, three
seconds are one more than `Depth * Timeout`. In `files` two calls are two
threads at once, or what a call left behind met by the next; one call next to
an unmount is enough for every use of a freed structure; two parts of a write
are one whose error is followed by a request and one whose is not; one refusal
(of any request, with any answer) separates a failure from what the code does
itself, and the connection may go down besides. In `apple_double` one name has
its metadata opened and the other is there to be changed by mistake; the data
fork of the other shares the two fork numbers with it, so that a number can be
lost, given out again and used by its former owner. `Opened` names what is opened, and
`FirstData` what the data forks hold at first: 1, so that one that is emptied
shows. In
`login` 257 reads the same in both orders of bytes and 258 does not; 4 and 5
are a name that needs padding and one that does not. In `shell` the second
command meets what the first one left; the trees have a directory in a
directory, a file with a name that must be quoted, and files of one to three
blocks on either side; an answer to a listing has one entry, so that a second
one is always asked for.

**Constraints.** `Intact` of `MCServerList`, `MCDidCache`, `MCDaemonClients`
and `MCFiles` ends a behaviour at the first use of freed memory (and, in the
second and third, at any of the races; in `MCFiles`, at a request for a fork
somebody else opened): the properties claim nothing about what follows, and
TLC still checks that state itself. `CleanRemoval` of `MCDsiQueue` ends one when
a race has happened and the server is being removed; what is claimed of these
states, the accounting, is proved (section 6), and the other faults are followed
through the races.

**Symmetry.** Threads, blocks, names or objects that nothing distinguishes are
permuted in the runs that check invariants and step properties only; the runs
with liveness use none. The names of `shell` are ordered and those of `login`
are not symmetric.

**Deadlock** is not checked where the bounds end a behaviour: idle threads
with no command left are a legal end. `login` and `apple_double` check it:
there something can always be done.

**Fairness.** `DsiQueue!ThreadsRun`: each thread that can take a step takes
one, timeouts included, since `pthread_cond_timedwait()` returns when its time
is up; main loop's steps inside `dsi_recv()` and those of a removal that
has begun likewise. No wait is promised to
end without a signal: `WakeEarly` is left out of the fair steps, since a wake-up
that has to come would hide a lost one. Nothing is assumed of
the server; only `AnsweringSpec`, which the run `dsi_live` uses and
`AnsweredCallsReturn` needs, adds that it answers and that main loop reads the
answers. `DaemonClients!DaemonRuns`: main
loop and the command threads run, `pselect()` returns when there is something
to read or after 30 seconds, and what was sent arrives; clients may leave or
stay silent. `LoopStart!LiveSpec`: threads and the loop run and servers answer
(weak fairness); a client of the daemon asks sooner or later, although the
loop is often not looking (strong fairness of `ServeClient`).
`DsiFraming!LiveSpec`: main loop calls `dsi_recv()` as long as `select()`
finds the descriptor readable.

## 6. What is proved

All theorems are for every value of the constants that satisfies the named
assumption of the module: any number of threads, heap blocks, addresses,
clients or packets, and every combination of the faults a run can switch on.
Each inductive invariant was first checked by TLC on the instance of the run.

| module | theorems | assumption |
|---|---|---|
| `DsiQueue_proofs` | `TypeCorrect`, `PendingIsCorrect`, `RequestsAreAccounted`, `RepliesAreOwn`, `WritesAreLive`, `KeepsItsContract` | `DsiConstants` |
| `Connection_proofs` | `FramingTypes`, `FramingInStep` | `FramingConstants` |
| `Connection_proofs` | `LoginTypes`, `AllIsGivenBack`, `RequestsAreWellFormed`, `SuccessesAreTrue`, `WellNegotiated` | `LoginConstants`, `LoginNames` |
| `DaemonClients_proofs` | `ClientsTypes`, `ClientsAreHeard`, `ClientsFdsAreOpen`, `DaemonEndsWhenAsked`, `ThreadsAnswerTheAsker` | `ClientsConstants` |
| `ServerList_proofs` | `ServersTypes`, `ListIsSound`, `MachinesHaveOneSession`, `MountedServersStay`, `IdleServersGo` | `ServersConstants` |
| `AppleDouble_proofs` | `MetadataTypes`, `ForksAreTheHandles`, `WritesReachTheServer`, `OnlyTheMetadataNamed`, `ListingsAreRight` | `AppleDoubleConstants` |
| `DidCache_proofs` | `CacheTypes`, `WrongForABoundedTime`, `RemovedIsNotCached` | `DidConstants` |
| `Files_proofs` | `FilesTypes`, `SuccessesAreReal`, `RemovalsAreRight`, `ListedStructuresLive`, `OpenForksAccounted`, `WritesAreWhole` | `FilesConstants` |
| `Shell_proofs` | `ShellTypes`, `MisuseHasACause`, `MovesAreCareful`, `GetReturns`, `PutSendsItAll`, `CopiesAreRight` | `ShellConstants` |

### The request list (`DsiQueue_proofs`)

Neither `PendingMatches` nor `RequestsAccounted` is inductive. Two things are
missing: `HoldsRequest`, that a call past `malloc()` holds a block and not
NULL, and `AppendsFresh`, that a request about to be listed is not listed yet
and not the one another thread is about to list. Then an append cannot list a
block twice, and a removal by either side finds its block at most once, so that
the count goes down with the length. `IInv` is `TypeOK`, `HoldsRequest` and
`QueueInv`, which joins both properties and `AppendsFresh`. `RemoveAtFacts`
says what unlinking does to a list; one lemma each says what allocating,
listing and unlinking do to `QueueInv`; `SendInv` and `RecvInv` have a step per
action. That `WriteBroken` leaves a request behind forever is no contradiction:
it stays listed and counted. When the server itself is freed, with the requests
it still lists, `RequestsAccounted` and `AppendsFresh` end, and only the count
and the types go on (`FreedStep`); `RemovalInv` has the steps of the removal.

### The answers (`DsiQueue_proofs`)

`OwnReply` says that a returning call has its own answer; why it has is spread
over the life of the request, and `ReplyInv` says it for each part. `SetupInv`:
one call at a time is between counting its id and reading it for the last time,
and nothing that is pending or on its way has that id. `OwnedInv`: a call's
block is its own, and no two requests have one id. `ServerInv`: the request
with the id of an answer on its way is that of the call answered. `LoopInv`:
what `dsi_recv()` has found is the request of the packet in its hands, and from
`process` on its code has been stored. `AnswerInv`: the code in a call's request
is the call's own, with the answer unpacked or in the hands of `dsi_recv()`
(`Unpacked`), or still the 0 of the beginning; and the call learns that it was
answered, by the flag or by the signal, only when both are in place, unless it
was woken before its time. `FreedInv`: the server is freed under nobody.
All of it holds until the first of the `races`; a step that adds one has
nothing left to show.

`KeepsItsContract` is the refinement: an initial state of `DsiQueue` is one of
`DsiService`, and each step is a step of the service or leaves its variables
alone. Of all steps only five are visible: a call that begins, the answer
unpacked into its memory, a wait that ends early (`WakeSeen`), the return, and
the race after which nothing is promised.

### The stream (`Connection_proofs`)

`InStep` says that what is ahead - the buffer, the part of a body read into a
request's memory, and what is still in the socket - begins with the next packet
to be processed and is whole packets to its end. It is stated byte by byte
(`Follows`: after a byte comes the next of its packet, after the last byte the
first of the next), because the code never sees packet boundaries either, and
because a property of adjacent bytes survives the cutting of a stream where a
concatenation of packets would need induction. `FirstPacket` and
`WithoutFirst` say what taking a packet from the front does to it, `OneMore`
what appending one to the end does. The strengthening, `InParts`, is what `dsi_recv()` relies on
from call to call: a body read apart belongs to a pending read whose header
alone is in the buffer, and a complete packet is never kept.

### The login (`Connection_proofs`)

Up to 29 steps, each of which may fail: what an authentication function holds
depends on how far it is, and no invariant over the variables alone says so. It
is said by *accounts*. An account is what has been taken and not given back
before a step (`live`, `doubt` for the blocks `dhx2_passwd()` does not check,
`open`), how many requests have been made, and what is known of the last answer.
`Leads(f, h, s, g)` says that step `s` is in order after account `h` and leads
to `g`: it takes only what is not taken, reads and uses only what is, sends only
a request that may be sent (`Sendable`), and the exit it takes when it fails
closes exactly what is open. `Goes` chains it, `GoesOn` joins two chains, and
`ProgramsGo` follows each of the ten functions from `Fresh` to its end, a
fragment of the source at a time. That part speaks of the programs only, not of
states.

`LoginInv` ties it to the states. `InOrder`: a function that runs is at a step of
such a chain, `Held` says that its memory and ciphers are those of the account,
`Heard` that it and the server are at the same message of the exchange and that
the id in hand is the one the server gave. `Phases`: which function runs in
which phase. `Returned`, `Achieved`, `Admitted`, `Changed` are what is left of
that when the function is over: nothing held, a true result, and with it the
session or the changed password. `AdvanceKeeps` and `ExitKeeps` show once what
every step needs that goes on or leaves, so that each action has only its own
effect to show. `WellNegotiated` is a property of steps: `Picked` and
`PickedUam` say what the two choices return for any offer, the highest of a
finite set of known numbers being `GreatestKnown`.

All of it holds for every list of offers, mask, id and name, and for either byte
order and build. `LoginNames` is what the one-byte length of a name allows.

### The clients (`DaemonClients_proofs`)

`Heard` is about a client that nobody serves; it is kept because a client that
somebody serves is served by one thread only. `OwnClient`: a command thread at
work has a slot, a descriptor and a client of its own, which main loop is not
about to read from or drop, and its descriptor is out of the set until it puts
it back. `MainsClient` says the same of main loop's slot, `Distinct` that no
two slots name one descriptor, `Selectable` that what is in the set is open and
below `max_fd`, `Listened` that a slot without a thread is in the set, unless
its client is one that a mute command has left behind (`Forgotten`), which stays
so while the client is connected (`StillForgotten`).
`AnswersTheAsker` is an action property read off `OwnClient`. `MaxIs`, `MinIs`
and `HighestIs` are about the highest and lowest of a set of numbers, which
`accept()` and `rm_fd()` look for.

Planning the proof showed `NoBadDescriptor` to be false as it was first stated:
with three clients, emptying the pool at the end closes a descriptor of a
client that a thread is serving, which then puts it back in the set. The run
has two and cannot get there. The property now stops where the pool is emptied,
as `AnswersTheAsker` did already.

### The servers (`ServerList_proofs`)

`Inv` is `TypeInv /\ ListInv /\ SessionInv`. `ListInv`, until a server is
listed twice or freed in use: the list is a chain (`Whole`), everything on it
is allocated, and whoever still has an unlisted server (`ListPlaces`,
`MadeByOne`) is the only one to have it, so that `add_server()` never lists a
listed server. `SessionInv`, until any of the races: `Place` says what each
thread relies on at each point where others run - at `connect`, say, that no
server of that machine is connected already, as the search by signature found.
`Published` and `EmptiedLeaves` are `OneSessionPerMachine` and `NoIdleSession`
in the middle of what a thread does.

The walk of the list, `Node`, is a recursive function over the heap. That it
has a value is shown from a least number of steps for which it has none
(`LeastOf`, `WalkExists`, `NodeIs`). From then on the list is a chain
(`IsChain`: a number and a function from the positions to different blocks,
each the successor of the one before), and `ChainListed`, `ChainGrows` and
`ChainShrinks` say what it lists and what prepending and unlinking make of it;
`Adds` and `Unlinks` say it of the two C functions. One lemma per action
follows, on top of lemmas about the parts a step leaves alone.

### The metadata (`AppleDouble_proofs`)

`ForksBelong` is inductive together with the types, which say for that of a
handle that it has a fork if and only if it is of one: a fork that is opened was
not open, so that whoever has its number already has lost his to a wild close.
`WrittenIsThere` is about the step just taken, and no other step leaves a `last`
that claims a write; it rests on `ForksBelong`, since a write goes by the number:
that the number of a handle which has not lost its fork is of that fork of its
own file (`OwnFork`) is what takes the write there (`ForkWriteIsThere`).
`OnlyItsMetadata` is an action property, shown call by call, and rests on the
same for the writes of those that have their fork (`ForkWriteChanges`); the rest
go by a number that is somebody else's or nobody's, and change one fork at most
(`ForkReplaced`). `NextStray` is its part about objects nobody named.
`ListingIsRight` rests on two facts about
sequences: what `remove_fp()` leaves begins after the last entry that was
removed (`Remaining`), and the server's listing, which names each entry once,
names all of them (`AllEntries`).

The run shows `.AppleDouble`; the theorems do not assume it. For a volume that
does not, `OnlyItsMetadata` could not be proved at first: `SymlinkOrRename` was
allowed on paths that are then those of plain files. It now has the condition.

### The cache of directory ids (`DidCache_proofs`)

`StaleForABoundedTime` is about a path as a whole; why it holds is an account of
how wrong each name of it can be. An entry for k names was looked up below the
first k - 1 of them, and what was below those had been believed for up to a
timeout, and so on down to the root, which is never wrong. So an entry for k
names is right if it was made more than k - 1 timeouts after the tree changed
(`EntryRight`), and what a lookup has after k names is right after more than k of
them (`LookupRight`), an entry being believed for one more. This holds from step
to step until one of the races; the third part of `Sound`, `OneAlive`, says that
of the entries for one path all but the newest have expired, without which
`remove_did_entry()`, which takes out one entry, would leave another.

`Leads`, the directory each path leads to, and the pass of
`find_dirid_by_fullname()` over the cache are recursive functions. That they
have values is shown from a least place at which they have none (`WalkExists`,
`PassExists`, by `AsFarAs`). `PassSoFar` is what a pass has found after i
entries: what it keeps comes from the cache in the same order, and what it
answers is the id of an entry for the path that has not expired. `FindIs`,
`AskIs`, `AddIs` and `InvalidateIs` say what each action does to the frame of a
lookup and to the cache, in a form that `LookupInv` can use.

`NotCachedAfterRmdir` used to be stated only for the case that no other thread is
inside `get_dirid()` and that the directory had been there; the proof needs
neither, and the property does not ask for them any more.

### Operations on files (`Files_proofs`)

Twenty-two operations share nineteen actions, so the proof does not go through
their product. First, what a function does with an answer (`After`), which is a
matter of frames and not of states: one lemma per function (`OpenGoes` to
`ReadGoes`, joined in `CallGoes`) says that the next frame is one that function
can be at (`Placed`), that a failure is remembered or is one nobody reports
(`Honest`), and what can follow what: `ForkOrder`, `LockOrder`, `LookOrder`.
Then, what a request does to the state, whoever makes it: one lemma per action
(`OpenForkTurn` to `MoveAndRenameTurn`) turns it into a `Turn`, the step of one
thread from its frame to the next, with what happens to forks (`ForksGo`),
ranges and contents (`RangesGo`), the list (`ListGoes`) and names. The
invariants are shown to survive a `Turn`, the beginning of a call (`CallIs`, in
five kinds), its return, the two steps of an unmount, and the loss of the
connection.

`SuccessIsReal` follows from `Honest` alone, with no exception for memory.
`RemovesTheRightKind` needs `DeletesRight`: what `delete` will find is still
what `is_dir()` saw, unless the call knows that it moved (`Sees`). `ListedAreLive`
rests on `HeapInv`, that no two calls share a structure and FUSE has not got
one a call is opening or closing, and `ListInv`, which says of each call
whether its structure is on the list yet (`Fresh`, `Listing`) and that none is
there twice. For `ForksAccounted` two cases are missing that it does not speak
of: between `close` and `unlist` a structure holds the number of a fork that is
somebody else's by now (`Unlisting`), and after an unmount or a lost connection
there are no forks (`Shut`).

`WholeWrites` is the longest way. A write is whole because its part k was
written under the lock that it still has; that it still has it depends on
nobody closing its fork, and so on every other call. `OwnersInv`: a fork is in
one structure, or is a number that daemon clients have, never both, and is
closed by one call at most. `HoldersInv`: who is past the lock holds the range
of the file, for the fork it had then (`RangingStays`), and there is one holder
per file. `PartsInv`: the first k parts of a file that is being written are the
writer's or were emptied, and the rest is of one write.

The attempt showed `WholeWrites` to be false as it was stated: while one daemon
client reads from a fork another can close it, a third call is given the number
anew, and when the first unlocks, the third loses its lock. This takes three
threads and six calls; the run has two of each. `CloseFork` now records it as
the use of a fork somebody else opened. All but the first three theorems are
about the states up to the first use of memory or a fork that is not the
call's (`Intact`), which is where the run ends a behaviour.

### The command line (`Shell_proofs`)

The types say most about the two trees: that a path is there only below
directories that are there (`TreesOK`), which copying, moving and removing whole
directories keep, and that the job's paths and the listings of the calls of
`get_dir()` are of names (`JobOK`, `FramesOK`). Facts about paths (`PrefixFacts`,
`MovedPath`, `MovedEntry`, `AncestorsAreDirs`) carry it.

`MisuseFollowsFailure` needs `CausesInv`: the program's pointers are what its
successful commands have left, or a recorded failure explains the difference.
`BackHome` needs `HomeInv`: each call of `get_dir()` in progress is one local
directory further down. `PutIsWhole` needs `PutInv`: what has been written so
far is the first blocks of the local file over those of the old one (`Mixed`).

`CopiesAreWhole` says at the end of `get -r` that everything is there; while it
runs, three invariants say where the rest is. `GetInv`: the file being fetched is
copied up to the offset the next read asks for. `InPlace` and `Chained`: the calls
in progress are each in a directory of the one before, the local directory is the
copy of the last one's, and what is listed exists. `Complete`: every path below
the argument that is to come is copied, is at or below an entry that was listed
and not gone through yet, or an entry that later answers will list, or is the file
in hand. That an answer lists exactly the next entries of the directory is
`OrdinalFacts`: no two entries have one place in it.

### Model-checked only

- Liveness (`TimedCallsReturn`, `AnsweredCallsReturn`, `AllDelivered`,
  `EveryCommandAnswered`, `FirstCommandsAnswered`), which is beyond the prover.
  So is the fairness part of the refinement; `DsiService` has none.

## 7. Findings

`did_parent` ends in a violation: `get_dirid()`, of which `did.c:168` says
that it always gets the parent, returns another directory when a component is
missing. `PROJECT.json` quotes the lines. The other places where the code
contradicts what its comments and documents say are the configurations run by
hand of section 5. In `MCClientsMute.cfg` the client's patience is left open as
elsewhere; in the code it ends after 30 seconds, without an answer.

## 8. Not modelled

- **Marshalling** (`proto_*.c`): which requests are sent with what and which
  answers are possible is in the modules that send them; the packing of the
  fields is sequential code without state.
- **Names, encodings, URLs, status text**: pure conversions. URL parsing is in
  the plan.
- **Mounting and unmounting the kernel's side** (`process_mount`,
  `fuse_int.c`, `daemon_fuse.c` but for the callbacks on files): in the plan.
- **Queries** of the daemon (`serverinfo`, `status`, `getvolid`, `getvols`,
  `mountpoint`, `readdir`, `stat`), the single calls of `stateless.c`, and of
  afpcmd `user`, `pass`, `passwd`, `status`, `lcd`, the help, the completion
  of names and `getstatus`: they read, or change a variable of the shell.
- **`users.c`** and the conversion of user ids; **libgcrypt's numbers**.
- **The stand-alone FUSE client** is not built, and the daemon that replaced
  it is modelled; the **KDE slave** is a front end that calls the library.
- Exhausted memory outside `Login` and `DsiQueue`, signals other than those
  the loop handles, and the races of unsynchronised C below the level of the
  steps above.
