---------------------------- MODULE DaemonClients ----------------------------
(***************************************************************************)
(* The clients of afpfsd: the pool of daemon/daemon_client.c, main loop's  *)
(* descriptor set (lib/loop.c), and the thread that each command runs in   *)
(* (daemon/commands.c).                                                    *)
(*                                                                         *)
(* A client has at most one connection to the daemon's socket.  The        *)
(* library's clients (daemon/stateless.c) send a command and wait for its  *)
(* answer, so a connection holds at most one command, of `len' units of    *)
(* bytes: the header is the first.  Descriptors are numbers; the lowest free one is   *)
(* the next to be used.  Main loop and the command threads change the      *)
(* descriptor set and the pool without a lock, but for the searches and    *)
(* deletions in the pool.  Descriptors of servers are left out.            *)
(***************************************************************************)
EXTENDS Integers, FiniteSets, FiniteSetsExt

CONSTANTS
  Clients,   \* client programs
  Threads,   \* command threads at a time
  NSlots,    \* DAEMON_NUM_CLIENTS
  NFds,      \* bound: descriptors of connections, from 1 on
  Lens,      \* the lengths of commands: a header is 1
  MaxCmds,   \* bound: commands in a behaviour
  MaxVisits, \* bound: connections in a behaviour
  Null

ASSUME ClientsConstants ==
  /\ NSlots \in Nat \ {0} /\ NFds \in Nat \ {0}
  /\ IsFiniteSet(Lens) /\ Lens \subseteq Nat \ {0} /\ 1 \in Lens
  /\ MaxCmds \in Nat /\ MaxVisits \in Nat
  /\ Null \notin Clients

Slots  == 1..NSlots
Fds    == 1..NFds
MaxLen == Max(Lens)

\* The descriptor of the listening socket
CommandFd == 0

VARIABLES
  pool,    \* client_pool
  rds,     \* the descriptors main loop selects on
  max_fd,  \* one above the highest of them
  file,    \* the kernel's: which connection a descriptor is
  cl,      \* the clients and their connections
  main,    \* main loop: program counter and locals
  th,      \* command threads: program counter and locals
  ending,  \* exit_program, and what becomes of it
  cmds,    \* commands so far
  visits,  \* connections so far
  races    \* history: which of RaceKinds have occurred

vars == <<pool, rds, max_fd, file, cl, main, th, ending, cmds, visits, races>>

(***************************************************************************)
(* cleared_late: main loop clears the descriptor of a client whose command *)
(* thread has already put it back;                                         *)
(* reset_late: a command thread puts incoming_size back to 0 when the next *)
(* command's header has been read;                                         *)
(* dropped_twice: main loop drops a client that its command thread is      *)
(* about to close;                                                         *)
(* fd_reused: a connection gets a descriptor that a used slot still names; *)
(* max_fd_low: a descriptor was added while max_fd was computed;           *)
(* shrunk: after a client's end max_fd is too low for those that remain;   *)
(* pool_full: a connection is accepted for which there is no slot;         *)
(* split_body: a command's body comes in two parts;                        *)
(* short_header: less than a header comes, from another afpfsd that looks  *)
(* whether this one lives;                                                 *)
(* bad_join: pthread_join() is called on a thread that never was.          *)
(***************************************************************************)
RaceKinds == {"cleared_late", "reset_late", "dropped_twice", "fd_reused", "max_fd_low",
              "shrunk", "pool_full", "split_body", "short_header", "bad_join"}

\* keep and close: the header's close flag is unset or set; mute: suspend, resume
\* and ping, and what no handler takes; probe: the single byte of
\* remove_other_daemon()
Commands == {"keep", "close", "mute", "exit", "probe"}

\* size: incoming_size; ran: processing_thread has been set
Slot == [used : BOOLEAN, fd : Fds \cup {CommandFd}, size : 0..MaxLen, ran : BOOLEAN]

EmptySlot == [used |-> FALSE, fd |-> CommandFd, size |-> 0, ran |-> FALSE]

\* len: 0 once the command has been dealt with; sent, read: units of it that have
\* reached the daemon's socket, and that the daemon has read; wait: the client
\* waits for its answer
Client == [st : {"new", "queued", "open", "closed", "dropped"}, cmd : Commands,
           len : 0..MaxLen, sent : 0..MaxLen, read : 0..MaxLen, wait : BOOLEAN]

NewClient == [st |-> "new", cmd |-> "keep", len |-> 0, sent |-> 0, read |-> 0, wait |-> FALSE]

\* set: the descriptors pselect() reported; n: the max_fd it was called with;
\* top: the highest descriptor rm_fd() has found
Main == [pc : {"top", "select", "scan", "read", "lower", "clear", "drop", "dead"},
         set : SUBSET (Fds \cup {CommandFd}), n : 0..(NFds + 1), slot : Slots \cup {0},
         top : 0..NFds]

\* who: the client whose command it is
Thread == [pc : {"none", "work", "readd", "reset", "close", "unadd", "lower", "shut", "remove"},
           slot : Slots \cup {0}, who : Clients \cup {Null}, top : 0..NFds]

NoThread == [pc |-> "none", slot |-> 0, who |-> Null, top |-> 0]
AtTop    == [pc |-> "top", set |-> {}, n |-> 0, slot |-> 0, top |-> 0]

TypeOK ==
  /\ pool \in [Slots -> Slot]
  /\ rds \subseteq Fds \cup {CommandFd}
  /\ max_fd \in 0..(NFds + 1)
  /\ file \in [Fds -> Clients \cup {Null}]
  /\ cl \in [Clients -> Client]
  /\ main \in Main
  /\ th \in [Threads -> Thread]
  /\ ending \in {"no", "asked", "started", "over"}
  /\ cmds \in 0..MaxCmds /\ visits \in 0..MaxVisits
  /\ races \subseteq RaceKinds

Init ==
  /\ pool = [s \in Slots |-> EmptySlot]
  /\ rds = {CommandFd} /\ max_fd = 1
  /\ file = [f \in Fds |-> Null]
  /\ cl = [c \in Clients |-> NewClient]
  /\ main = AtTop
  /\ th = [t \in Threads |-> NoThread]
  /\ ending = "no" /\ cmds = 0 /\ visits = 0 /\ races = {}

-----------------------------------------------------------------------------
(* Clients *)

\* A client connects, anew if its last connection is closed at both ends.
Connect(c) ==
  /\ cl[c].st \in {"new", "closed", "dropped"} /\ (\A f \in Fds : file[f] # c)
  /\ main.pc # "dead"
  /\ visits < MaxVisits
  /\ visits' = visits + 1
  /\ cl' = [cl EXCEPT ![c] = [NewClient EXCEPT !.st = "queued"]]
  /\ UNCHANGED <<pool, rds, max_fd, file, main, th, ending, cmds, races>>

\* A client sends a command, which may arrive in parts.  It knows that the
\* daemon closes the connection after some, and expects it after mute ones, which
\* it sends with the close flag.
Ask(c, cmd, len, sent) ==
  /\ cl[c].st \in {"queued", "open"} /\ ~cl[c].wait /\ cl[c].cmd = "keep"
  /\ cmds < MaxCmds
  /\ cmd \in {"probe", "exit"} => len = 1
  /\ sent <= len
  /\ cl' = [cl EXCEPT ![c] = [@ EXCEPT !.cmd = cmd, !.len = len, !.sent = sent,
                                       !.read = 0, !.wait = TRUE]]
  /\ cmds' = cmds + 1
  /\ UNCHANGED <<pool, rds, max_fd, file, main, th, ending, visits, races>>

\* More of it arrives.
Arrive(c) ==
  /\ cl[c].wait /\ cl[c].sent < cl[c].len
  /\ cl' = [cl EXCEPT ![c].sent = @ + 1]
  /\ UNCHANGED <<pool, rds, max_fd, file, main, th, ending, cmds, visits, races>>

\* The client is done, or loses patience after 30 seconds.
Leave(c) ==
  /\ cl[c].st = "open"
  /\ cl' = [cl EXCEPT ![c].st = "closed", ![c].wait = FALSE]
  /\ UNCHANGED <<pool, rds, max_fd, file, main, th, ending, cmds, visits, races>>

-----------------------------------------------------------------------------
(* Descriptors *)

\* add_fd()
AddFd(f) ==
  /\ rds' = rds \cup {f}
  /\ max_fd' = Max({max_fd, f + 1})

\* What rm_fd() finds: the highest descriptor that is left, no higher than
\* max_fd.  It then writes max_fd twice, in the end one above this.
Highest(R) == Max({f \in R : f <= max_fd} \cup {CommandFd})

\* mutant of LowerMaxFd: the last line of rm_fd() is missing
LowerMaxFdToHighest(top) ==
  /\ max_fd' = top
  /\ races' = races \cup {x \in {"max_fd_low"} : \E f \in rds : f > top}

LowerMaxFd(top) ==
  /\ max_fd' = top + 1
  /\ races' = races \cup {x \in {"max_fd_low"} : \E f \in rds : f > top}

\* close(): the client at the other end sees it.
Closed(f) ==
  /\ file' = [file EXCEPT ![f] = Null]
  /\ cl' = [c \in Clients |->
              IF file[f] = c /\ cl[c].st = "open"
              THEN [cl[c] EXCEPT !.st = "dropped", !.wait = FALSE] ELSE cl[c]]

Readable(f) ==
  IF f = CommandFd THEN \E c \in Clients : cl[c].st = "queued"
  ELSE /\ file[f] # Null
       /\ cl[file[f]].st = "closed" \/ cl[file[f]].sent > cl[file[f]].read

-----------------------------------------------------------------------------
(* Main loop: afp_main_loop(), daemon_scan_extra_fds() and process_command() *)

MainAt(pc) == main.pc = pc
Loop == main' = AtTop

\* ords = rds
Copy ==
  /\ MainAt("top")
  /\ main' = [AtTop EXCEPT !.pc = "select", !.set = rds, !.n = max_fd]
  /\ UNCHANGED <<pool, rds, max_fd, file, cl, th, ending, cmds, visits, races>>

Watched == {f \in main.set : f < main.n}

BadFd(f) == f # CommandFd /\ file[f] = Null

\* The end of the process closes everything.
Die ==
  /\ main' = [AtTop EXCEPT !.pc = "dead"]
  /\ file' = [f \in Fds |-> Null]
  /\ cl' = [c \in Clients |->
              IF cl[c].st \in {"queued", "open"}
              THEN [cl[c] EXCEPT !.st = "dropped", !.wait = FALSE] ELSE cl[c]]
  /\ th' = [t \in Threads |-> NoThread]

\* mutant of Ended: any value of exit_program ends the loop
EndedWhenAsked == ending # "no"

\* exit_program is 2.
Ended == ending = "over"

\* pselect() returns: something is readable; or a signal, the end of the 30
\* seconds or a bad descriptor makes it start again.  (When a signal comes
\* first it is as if rds had been copied later.)  Before all else exit_program
\* is looked at.
Select ==
  /\ MainAt("select")
  /\ IF Ended THEN Die /\ UNCHANGED ending
     ELSE /\ ending' = IF ending = "asked" THEN "started" ELSE ending
          /\ LET ready == {f \in Watched : Readable(f)}
                 good  == ready # {} /\ \A f \in Watched : ~BadFd(f)
             IN \/ good /\ main' = [main EXCEPT !.pc = "scan", !.set = ready, !.n = 0]
                \/ ~good /\ Loop
          /\ UNCHANGED <<file, cl, th>>
  /\ UNCHANGED <<pool, rds, max_fd, cmds, visits, races>>

\* just_end_it_now() with daemon_forced_ending_hook()
End ==
  /\ ending = "started" /\ ~MainAt("dead")
  /\ pool' = [s \in Slots |-> [pool[s] EXCEPT !.used = FALSE]]
  /\ ending' = "over"
  /\ UNCHANGED <<rds, max_fd, file, cl, main, th, cmds, visits, races>>

\* mutant of FirstFree: the pool is searched without a look at used
AnySlot == {1}

\* The first slot that is not used, if there is one
FirstFree == {s \in Slots : ~pool[s].used /\ \A r \in 1..(s-1) : pool[r].used}

\* accept() and add_client(), whose failure is not looked at
Accept ==
  /\ MainAt("scan")
  /\ CommandFd \in main.set
  /\ \E c \in Clients, f \in Fds :
       /\ cl[c].st = "queued"
       /\ file[f] = Null /\ \A g \in 1..(f-1) : file[g] # Null
       /\ file' = [file EXCEPT ![f] = c]
       /\ cl' = [cl EXCEPT ![c].st = "open"]
       /\ pool' = [s \in Slots |-> IF s \in FirstFree
                                   THEN [EmptySlot EXCEPT !.used = TRUE, !.fd = f] ELSE pool[s]]
       /\ AddFd(f)
       /\ races' = races \cup {x \in {"pool_full"} : FirstFree = {}}
                         \cup {x \in {"fd_reused"} : \E s \in Slots : pool[s].used /\ pool[s].fd = f}
  /\ Loop
  /\ UNCHANGED <<th, ending, cmds, visits>>

\* process_client_fds(): the first used slot with a descriptor of the set
FindClient ==
  /\ MainAt("scan")
  /\ CommandFd \notin main.set
  /\ LET found == {s \in Slots : pool[s].used /\ pool[s].fd \in main.set}
     IN \/ found = {} /\ Loop
        \/ found # {} /\ main' = [main EXCEPT !.pc = "read", !.slot = Min(found)]
  /\ UNCHANGED <<pool, rds, max_fd, file, cl, th, ending, cmds, visits, races>>

\* The client at the found slot's descriptor, Null if that has been closed
Peer == file[pool[main.slot].fd]

\* read() returns 0 or an error.
ReadEnd ==
  /\ MainAt("read")
  /\ Peer # Null => cl[Peer].st = "closed" /\ cl[Peer].sent = cl[Peer].read
  /\ main' = [main EXCEPT !.pc = "drop"]
  /\ UNCHANGED <<pool, rds, max_fd, file, cl, th, ending, cmds, visits, races>>

\* Less than a header: exit(0)
ReadShort ==
  /\ MainAt("read") /\ Peer # Null
  /\ pool[main.slot].size = 0 /\ cl[Peer].sent > cl[Peer].read
  /\ cl[Peer].cmd = "probe"
  /\ Die
  /\ races' = races \cup {"short_header"}
  /\ UNCHANGED <<pool, rds, max_fd, ending, cmds, visits>>

\* How much a read() of a header or, after it, of all there is returns
Amount == IF pool[main.slot].size = 0 THEN 1 ELSE cl[Peer].sent - cl[Peer].read

Reads ==
  /\ MainAt("read") /\ Peer # Null
  /\ cl[Peer].sent > cl[Peer].read
  /\ ~(pool[main.slot].size = 0 /\ cl[Peer].cmd = "probe")
  /\ cl' = [cl EXCEPT ![Peer].read = @ + Amount]

\* A header whose body is to come; the rest of a body that is still not all
\* of it, after which the client's descriptor is cleared
ReadPart ==
  /\ Reads
  /\ pool[main.slot].size + Amount < cl[Peer].len
  /\ pool' = [pool EXCEPT ![main.slot].size = @ + Amount]
  /\ IF pool[main.slot].size = 0 THEN Loop /\ UNCHANGED races
     ELSE main' = [main EXCEPT !.pc = "clear", !.set = {}] /\ races' = races \cup {"split_body"}
  /\ UNCHANGED <<rds, max_fd, file, th, ending, cmds, visits>>

\* The command is complete: its descriptor is taken out of the set.
ReadAll ==
  /\ Reads
  /\ pool[main.slot].size + Amount >= cl[Peer].len
  /\ pool' = [pool EXCEPT ![main.slot].size = 0]
  /\ rds' = rds \ {pool[main.slot].fd}
  /\ main' = [main EXCEPT !.pc = "lower", !.set = {}, !.top = Highest(rds')]
  /\ UNCHANGED <<max_fd, file, th, ending, cmds, visits, races>>

\* The rest of rm_fd(), and the thread
StartThread ==
  /\ MainAt("lower")
  /\ LowerMaxFd(main.top)
  /\ \E t \in Threads :
       /\ th[t].pc = "none"
       /\ th' = [th EXCEPT ![t] = [NoThread EXCEPT !.pc = "work", !.slot = main.slot,
                                                   !.who = Peer]]
  /\ pool' = [pool EXCEPT ![main.slot].ran = TRUE]
  /\ main' = [main EXCEPT !.pc = "clear", !.top = 0]
  /\ UNCHANGED <<rds, file, cl, ending, cmds, visits>>

\* process_command() has returned 0: FD_CLR(found->fd,toset)
Clear ==
  LET s == main.slot IN
  /\ MainAt("clear")
  /\ rds' = rds \ {pool[s].fd}
  /\ races' = races \cup {x \in {"cleared_late"} :
                           pool[s].fd \in rds /\ \A t \in Threads :
                             th[t].slot = s => th[t].pc \notin {"unadd", "lower", "shut", "remove"}}
  /\ Loop
  /\ UNCHANGED <<pool, max_fd, file, cl, th, ending, cmds, visits>>

\* It has returned -1.  The new max_fd is the highest descriptor pselect() has
\* reported, be it still in use or not.
Drop ==
  LET s == main.slot   f == pool[s].fd IN
  /\ MainAt("drop")
  /\ rds' = rds \ {f}
  /\ max_fd' = IF \E g \in main.set : g <= max_fd THEN Max({g \in main.set : g <= max_fd})
               ELSE max_fd
  /\ pool' = [pool EXCEPT ![s].used = FALSE]
  /\ \/ Closed(f) /\ Loop /\ UNCHANGED th
     \/ ~pool[s].ran /\ Die
  /\ races' = races \cup {x \in {"bad_join"} : MainAt("dead")'}
                    \cup {x \in {"shrunk"} : \E g \in rds' : g >= max_fd'}
                    \cup {x \in {"dropped_twice"} : \E t \in Threads : th[t].slot = s}
  /\ UNCHANGED <<ending, cmds, visits>>

-----------------------------------------------------------------------------
(* Command threads: process_command_thread() *)

At(t, pc)   == th[t].pc = pc
Goto(t, pc) == th' = [th EXCEPT ![t].pc = pc]
Finish(t)   == th' = [th EXCEPT ![t] = NoThread]
FdOf(t)     == pool[th[t].slot].fd

\* The command's handler answers with send_command(), whoever is connected.
Answer(t) ==
  LET c == file[FdOf(t)] IN
  /\ At(t, "work") /\ cl[th[t].who].cmd \notin {"exit", "mute"}
  /\ cl' = IF c = Null THEN cl ELSE [cl EXCEPT ![c] = [@ EXCEPT !.wait = FALSE, !.len = 0,
                                                        !.sent = 0, !.read = 0]]
  /\ Goto(t, IF cl[th[t].who].cmd = "close" THEN "close" ELSE "readd")
  /\ UNCHANGED <<pool, rds, max_fd, file, main, ending, cmds, visits, races>>

\* process_suspend(), process_resume() and process_ping() return without an
\* answer, and neither put the descriptor back nor close the connection; nor does
\* the thread, which ends.  (What they do to servers is in module ServerList.)
Mute(t) ==
  /\ At(t, "work") /\ cl[th[t].who].cmd = "mute"
  /\ cl' = [cl EXCEPT ![th[t].who] = [@ EXCEPT !.len = 0, !.sent = 0, !.read = 0]]
  /\ Finish(t)
  /\ UNCHANGED <<pool, rds, max_fd, file, main, ending, cmds, visits, races>>

\* process_exit() does not answer.
Exit(t) ==
  /\ At(t, "work") /\ cl[th[t].who].cmd = "exit"
  /\ ending' = IF ending = "no" THEN "asked" ELSE ending
  /\ Finish(t)
  /\ UNCHANGED <<pool, rds, max_fd, file, cl, main, cmds, visits, races>>

\* mutant of Continue: the descriptor is not put back
ContinueUnwatched(t) ==
  /\ At(t, "readd")
  /\ Goto(t, "reset")
  /\ UNCHANGED <<rds, max_fd, pool, file, cl, main, ending, cmds, visits, races>>

\* continue_client_connection(): the descriptor is put back
Continue(t) ==
  /\ At(t, "readd")
  /\ AddFd(FdOf(t))
  /\ Goto(t, "reset")
  /\ UNCHANGED <<pool, file, cl, main, ending, cmds, visits, races>>

\* and incoming_size = 0
Reset(t) ==
  /\ At(t, "reset")
  /\ pool' = [pool EXCEPT ![th[t].slot].size = 0]
  /\ races' = races \cup {x \in {"reset_late"} : pool[th[t].slot].size # 0}
  /\ Finish(t)
  /\ UNCHANGED <<rds, max_fd, file, cl, main, ending, cmds, visits>>

\* close_client_connection(): it begins with putting the descriptor back,
Close(t) ==
  /\ At(t, "close")
  /\ pool' = [pool EXCEPT ![th[t].slot].size = 0]
  /\ AddFd(FdOf(t))
  /\ Goto(t, "unadd")
  /\ UNCHANGED <<file, cl, main, ending, cmds, visits, races>>

\* mutant of Unadd: rm_fd() is not called
UnaddNothing(t) ==
  /\ At(t, "unadd")
  /\ Goto(t, "shut")
  /\ UNCHANGED <<rds, pool, max_fd, file, cl, main, ending, cmds, visits, races>>

\* takes it out again,
Unadd(t) ==
  /\ At(t, "unadd")
  /\ rds' = rds \ {FdOf(t)}
  /\ th' = [th EXCEPT ![t].pc = "lower", ![t].top = Highest(rds')]
  /\ UNCHANGED <<pool, max_fd, file, cl, main, ending, cmds, visits, races>>

Lower(t) ==
  /\ At(t, "lower")
  /\ LowerMaxFd(th[t].top)
  /\ Goto(t, "shut")
  /\ UNCHANGED <<pool, rds, file, cl, main, ending, cmds, visits>>

\* closes it,
Shut(t) ==
  /\ At(t, "shut")
  /\ Closed(FdOf(t))
  /\ Goto(t, "remove")
  /\ UNCHANGED <<pool, rds, max_fd, main, ending, cmds, visits, races>>

\* and gives the slot back with remove_client(), where the thread joins itself
\* in vain.
RemoveClient(t) ==
  /\ At(t, "remove")
  /\ pool' = [pool EXCEPT ![th[t].slot].used = FALSE]
  /\ Finish(t)
  /\ UNCHANGED <<rds, max_fd, file, cl, main, ending, cmds, visits, races>>

-----------------------------------------------------------------------------
MainLoop ==
  \/ Copy \/ Select \/ Accept \/ FindClient
  \/ ReadEnd \/ ReadShort \/ ReadPart \/ ReadAll \/ StartThread \/ Clear \/ Drop

Run(t) ==
  \/ Answer(t) \/ Mute(t) \/ Exit(t) \/ Continue(t) \/ Reset(t)
  \/ Close(t) \/ Unadd(t) \/ Lower(t) \/ Shut(t) \/ RemoveClient(t)

ClientStep ==
  \E c \in Clients :
    \/ Connect(c) \/ Arrive(c) \/ Leave(c)
    \/ \E cmd \in Commands, len \in Lens, sent \in 1..MaxLen : Ask(c, cmd, len, sent)

Next == ClientStep \/ MainLoop \/ End \/ \E t \in Threads : Run(t)

Spec == Init /\ [][Next]_vars

\* Threads run, pselect() returns when there is something to read or, at the
\* latest, after 30 seconds, and what was sent arrives.
DaemonRuns ==
  /\ WF_vars(MainLoop) /\ WF_vars(End)
  /\ \A t \in Threads : WF_vars(Run(t))
  /\ \A c \in Clients : WF_vars(Arrive(c))

LiveSpec == Spec /\ DaemonRuns

-----------------------------------------------------------------------------
(* Properties *)

\* Main loop is about to do something with slot s.
InHand(s) == main.slot = s \/ \E t \in Threads : th[t].slot = s

\* The client of slot s has sent a mute command, and the thread is done with it.
Forgotten(s) ==
  LET c == file[pool[s].fd] IN c # Null /\ cl[c].cmd = "mute" /\ cl[c].len = 0

\* A client whose command is answered, or that has not sent one yet, is
\* listened to: whatever threads have taken out, put back and closed in the
\* meantime, its descriptor is in main loop's set and below max_fd.  Only those
\* that have sent a mute command are not.
Heard ==
  races = {} /\ ending = "no" /\ ~MainAt("dead") =>
    \A s \in Slots :
      pool[s].used /\ ~InHand(s) /\ ~Forgotten(s) => pool[s].fd \in rds /\ pool[s].fd < max_fd

\* Until the pool is emptied at the end, main loop never selects on a descriptor that
\* has been closed: pselect() would fail with EBADF from then on, for every client and
\* every server.
NoBadDescriptor ==
  races = {} /\ ending # "over" /\ ~MainAt("dead") =>
    \A f \in rds \ {CommandFd} : file[f] # Null

\* A command's answer goes to the client that sent the command: its slot and
\* its descriptor are not another's by then, until the pool is emptied at the end.
AnswersTheAsker ==
  [][\A t \in Threads :
       races = {} /\ ending # "over" /\ At(t, "work") /\ ~MainAt("dead")'
         => file[FdOf(t)] = th[t].who]_vars

\* afpfsd ends when a client has asked it to, after the forced ending hook has
\* run, and for no other reason.
EndsWhenAsked == races = {} /\ MainAt("dead") => ending = "over"

\* Every command but the mute ones is answered, if its client does not lose
\* patience, or the daemon ends.
EveryCommandAnswered ==
  [](races = {}) => \A c \in Clients : cl[c].wait /\ cl[c].cmd # "mute" ~> ~cl[c].wait

\* The comment of read_answer() without reservation, "Reads the answer from
\* afpfsd": the client library calls it after suspend and resume too.
EveryAnswerComes ==
  [](races = {}) => \A c \in Clients : cl[c].wait ~> ~cl[c].wait
=============================================================================
