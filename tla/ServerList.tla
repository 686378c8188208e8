----------------------------- MODULE ServerList -----------------------------
(***************************************************************************)
(* The list of servers of libafpclient (lib/afp.c, connect.c, server.c) as *)
(* the command threads of afpfsd (daemon/commands.c) and the main loop     *)
(* (lib/loop.c) use it: connecting, attaching and detaching volumes,       *)
(* suspending and resuming, a server that goes away, and the daemon's end. *)
(*                                                                         *)
(* No lock protects the list or the servers on it.  A struct afp_server is *)
(* a BLOCK of the C heap: free() keeps its contents, malloc() may hand it  *)
(* out again.  Threads interleave at every call that waits for the network *)
(* and at every list operation; a list operation itself is one step.       *)
(***************************************************************************)
EXTENDS Integers, FiniteSets, FiniteSetsExt

CONSTANTS
  Threads,   \* command threads of the daemon
  Loop,      \* the main-loop thread
  Ender,     \* the thread that ends the daemon
  Blocks,    \* heap blocks a struct afp_server can occupy
  Hosts,     \* addresses a client can name
  Aliases,   \* those of Hosts that are addresses of one machine
  Vols,      \* volumes of a machine
  Ops,       \* what the clients ask for: subset of OpKinds
  MaxOps,    \* bound: client commands in a behaviour
  Null       \* NULL; also the signature of a server that sent none

ASSUME ServersConstants ==
  /\ IsFiniteSet(Blocks) /\ Null \notin Blocks
  /\ Loop \notin Threads /\ Ender \notin Threads /\ Loop # Ender
  /\ Aliases \subseteq Hosts
  /\ MaxOps \in Nat

OpKinds == {"connect", "attach", "unmount", "detach", "suspend", "resume"}
Actors  == Threads \cup {Loop, Ender}

\* Where a volume is in its server's array
Index == CHOOSE f \in [Vols -> 1..Cardinality(Vols)] : \A v, w \in Vols : f[v] = f[w] => v = w

\* The signature of the machine at an address
Machine(h) == IF h \in Aliases THEN "shared" ELSE h

VARIABLES
  base,   \* server_base
  next,   \* the next pointers of the servers
  srv,    \* the other contents of the blocks
  th,     \* per actor: program counter and locals of its command
  ops,    \* commands so far
  ending, \* the daemon has been told to end
  races   \* history: which of the situations of RaceKinds have occurred

vars == <<base, next, srv, th, ops, ending, races>>

\* A server is freed while another thread works on it, or, through a stale
\* pointer, after it was handed out again; a server on the list is added once
\* more; two connects are in progress at once; a server's status could not be
\* had, so that its signature is unknown.
RaceKinds == {"freed_in_use", "readded", "overlap", "no_status"}

VolStates  == {"unmounted", "mounted", "unmounting"}
Signatures == Hosts \cup {"shared", Null}

\* known: the names have been copied into the server; sig: its signature;
\* loaded: the volumes have been read; broken: send_mutex is held for ever, see
\* DsiQueue!WriteBroken; fixed: the volumes last seen with the
\* signature AFP_VOL_FIXED; used: history, some volume has been mounted.
Server == [alloc : BOOLEAN, host : Hosts \cup {Null}, known : BOOLEAN, sig : Signatures,
           loaded : BOOLEAN, conn : BOOLEAN, broken : BOOLEAN, vols : [Vols -> VolStates],
           fixed : SUBSET Vols, used : BOOLEAN]

Fresh(h) == [alloc |-> TRUE, host |-> h, known |-> FALSE, sig |-> Null,
             loaded |-> FALSE, conn |-> FALSE, broken |-> FALSE, vols |-> [v \in Vols |-> "unmounted"],
             fixed |-> {}, used |-> FALSE]

\* Where a thread waits while it works on no server, and on one
FreePCs  == {"idle", "lookup", "find_sig", "spinning"}
CallPCs  == {"getstatus", "login", "volopen", "volclose", "logout", "zzzzz"}
OtherPCs == {"probe", "drop", "connect", "publish", "login_error", "attach_error",
             "unmount", "unmount_all", "reconnect", "resumed", "recv", "ending"}
PCs == FreePCs \cup CallPCs \cup OtherPCs

\* back: where the reconnect inside dsi_send() returns to
Frame == [pc : PCs, s : Blocks \cup {Null}, h : Hosts \cup {Null}, v : Vols \cup {Null},
          sig : Signatures, back : PCs]

Idle == [pc |-> "idle", s |-> Null, h |-> Null, v |-> Null, sig |-> Null, back |-> "idle"]

\* The last conjunct: a thread keeps a pointer to a server only while it works
\* on that server.
TypeOK ==
  /\ base \in Blocks \cup {Null}
  /\ next \in [Blocks -> Blocks \cup {Null}]
  /\ srv \in [Blocks -> Server]
  /\ th \in [Actors -> Frame]
  /\ ops \in 0..MaxOps /\ ending \in BOOLEAN
  /\ races \subseteq RaceKinds
  /\ \A t \in Actors : th[t].s = Null <=> th[t].pc \in FreePCs

Init ==
  /\ base = Null
  /\ next = [b \in Blocks |-> Null]
  /\ srv = [b \in Blocks |-> [Fresh(Null) EXCEPT !.alloc = FALSE]]
  /\ th = [t \in Actors |-> Idle]
  /\ ops = 0 /\ ending = FALSE
  /\ races = {}

-----------------------------------------------------------------------------
(* The list, walked from server_base along the next pointers *)

Bound == Cardinality(Blocks)

Node[n \in 0..Bound] ==
  IF n = 0 THEN base ELSE IF Node[n-1] = Null THEN Null ELSE next[Node[n-1]]

Listed == {Node[n] : n \in 0..Bound} \ {Null}

\* Such a walk that finds nothing comes to no end.
Cyclic == Node[Bound] # Null

\* The first server of the list in set S, Null if there is none
First(S) ==
  IF S \cap Listed = {} THEN Null
  ELSE Node[Min({n \in 0..Bound : Node[n] \in S})]

\* something_is_mounted()
Mounted(b) == srv[b].loaded /\ \E v \in Vols : srv[b].vols[v] # "unmounted"

\* find_server_by_name(), find_server_by_address(), find_server_by_url()
ByName(h)    == First({b \in Blocks : srv[b].known /\ srv[b].host = h})
ByAddress(h) == First({b \in Blocks : srv[b].host = h})
ByUrl(h)     == IF ByName(h) # Null THEN ByName(h) ELSE ByAddress(h)

\* mutant of BySignature: it finds nothing
NeverFound(g) == First({})

BySignature(g) == First({b \in Blocks : srv[b].sig = g})

\* add_server(): always at the head
AddServer(s) ==
  /\ next' = [next EXCEPT ![s] = base]
  /\ base' = s
  /\ races' = races \cup {x \in {"readded"} : s \in Listed}

\* mutant of Unlink: the predecessor is left pointing at the server
UnlinkHeadOnly(s) ==
  /\ base' = IF s = base THEN next[s] ELSE base
  /\ UNCHANGED next

Unlink(s) ==
  IF s = base THEN base' = next[s] /\ UNCHANGED next
  ELSE LET p == First({b \in Blocks : next[b] = s})
       IN UNCHANGED base /\ next' = [next EXCEPT ![p] = next[s]]

\* afp_server_remove() by t, which also closes the connection.  A server that
\* is not on the list is left alone, and never freed.
Remove(t, s) ==
  IF s \in Listed
  THEN /\ Unlink(s)
       /\ srv' = [srv EXCEPT ![s].alloc = FALSE, ![s].conn = FALSE]
       /\ races' = races \cup {x \in {"freed_in_use"} :
                                 \/ \E u \in Actors \ {t} : th[u].s = s
                                 \/ th[t].pc = "login_error"}
  ELSE UNCHANGED <<base, next, srv, races>>

Disconnect(s) == srv' = [srv EXCEPT ![s].conn = FALSE]

-----------------------------------------------------------------------------
(* Threads, and the commands they send through dsi_send() *)

At(t, pc)   == th[t].pc = pc
Goto(t, pc) == th' = [th EXCEPT ![t].pc = pc]
Use(t, pc, s) == th' = [th EXCEPT ![t].pc = pc, ![t].s = s]
Finish(t)   == th' = [th EXCEPT ![t] = Idle]

Same == UNCHANGED <<base, next, races>>

\* process_server_fds() gets as far as server s: no server on the way is its
\* own successor.
Reached(s) ==
  \E n \in 0..Bound : /\ Node[n] = s
                      /\ \A m \in 0..n : next[Node[m]] # Node[m]

\* A command of t can be answered: main loop receives for its server.
Answered(t) ==
  LET s == th[t].s IN
  t # Loop /\ s \in Listed /\ srv[s].conn /\ ~srv[s].broken /\ Reached(s)

\* One command of t comes back, answered or not: at once if the server is not
\* listed, but not if another command has left its send_mutex locked.
Returns(t) == th[t].s \in Listed => ~srv[th[t].s].broken

\* It has been written to a closed connection.
InVain(t) == th[t].s \in Listed /\ ~srv[th[t].s].conn

\* The commands on a closed connection wait for a reconnect, if one works.
Reconnects(t) ==
  /\ th[t].pc \in CallPCs
  /\ th[t].s \in Listed
  /\ ~srv[th[t].s].conn
  /\ AddServer(th[t].s)
  /\ srv' = [srv EXCEPT ![th[t].s].conn = TRUE]
  /\ th' = [th EXCEPT ![t].pc = "resumed", ![t].back = th[t].pc]
  /\ UNCHANGED ops

\* dsi_opensession() waits without a timeout for the answer; what the login
\* that follows returns is logged only.
Resumed(t) ==
  /\ At(t, "resumed")
  /\ Answered(t) \/ th[t].s \notin Listed
  /\ IF th[t].back = "idle" THEN Finish(t)
     ELSE th' = [th EXCEPT ![t].pc = th[t].back, ![t].back = "idle"]
  /\ UNCHANGED <<base, next, srv, ops, races>>

-----------------------------------------------------------------------------
(* process_connect() and afp_server_full_connect() *)

\* Client t's next command, of this kind
Command(t, op) ==
  /\ t \in Threads
  /\ At(t, "idle")
  /\ op \in Ops
  /\ ops < MaxOps
  /\ ops' = ops + 1

\* A search that found s: go on with it, answer without it, or never answer
Found(t, s, pc) ==
  \/ s # Null /\ Use(t, pc, s)
  \/ s = Null /\ ~Cyclic /\ UNCHANGED th
  \/ s = Null /\ Cyclic /\ Goto(t, "spinning")

ConnectPCs == {"lookup", "probe", "getstatus", "drop", "find_sig", "connect", "login",
               "publish", "login_error"}

\* A server that is already there is not connected again.
Connect(t, h) ==
  /\ Command(t, "connect")
  /\ \/ ByUrl(h) # Null /\ UNCHANGED <<th, races>>
     \/ ByUrl(h) = Null /\ Cyclic /\ Goto(t, "spinning") /\ UNCHANGED races
     \/ /\ ByUrl(h) = Null /\ ~Cyclic
        /\ th' = [th EXCEPT ![t].pc = "lookup", ![t].h = h]
        /\ races' = races \cup {x \in {"overlap"} : \E u \in Threads : th[u].pc \in ConnectPCs}
  /\ UNCHANGED <<base, next, srv>>

\* afp_server_init()
InitServer(t, pc) ==
  \E b \in {x \in Blocks : ~srv[x].alloc} :
    /\ srv' = [srv EXCEPT ![b] = Fresh(th[t].h)]
    /\ Use(t, pc, b)

\* The address is looked up, and a server with this address, if there is none
\* a server to probe is made.  A failure of either ends the command.
FindServer(t) ==
  /\ At(t, "lookup")
  /\ \/ Finish(t) /\ UNCHANGED srv
     \/ ByAddress(th[t].h) = Null /\ ~Cyclic /\ InitServer(t, "probe")
     \/ ByAddress(th[t].h) = Null /\ Cyclic /\ Goto(t, "spinning") /\ UNCHANGED srv
  /\ Same /\ UNCHANGED ops

\* afp_server_connect(): on an error the caller's afp_server_remove() finds
\* the server unlisted, and it is leaked.
Establish(t, pc, next_pc) ==
  /\ At(t, pc)
  /\ \/ Finish(t) /\ UNCHANGED <<base, next, srv, races>>
     \/ /\ AddServer(th[t].s)
        /\ srv' = [srv EXCEPT ![th[t].s].conn = TRUE]
        /\ Goto(t, next_pc)
  /\ UNCHANGED ops

Probe(t) == Establish(t, "probe", "getstatus")

\* dsi_getstatus(): its -1 makes afp_server_connect() return 1, which its
\* caller does not take for an error; only a timeout is one.
GetStatus(t) ==
  /\ At(t, "getstatus")
  /\ \/ /\ Answered(t)
        /\ srv' = [srv EXCEPT ![th[t].s].known = TRUE,
                              ![th[t].s].sig = Machine(srv[th[t].s].host)]
        /\ Goto(t, "drop")
        /\ Same
     \/ /\ Returns(t)
        /\ races' = races \cup {"no_status"}
        /\ Goto(t, "drop")
        /\ UNCHANGED <<base, next, srv>>
     \/ Returns(t) /\ Remove(t, th[t].s) /\ Finish(t)
  /\ UNCHANGED ops

\* What the status said is copied, the probe disconnected and removed.
DropProbe(t) ==
  /\ At(t, "drop")
  /\ Remove(t, th[t].s)
  /\ th' = [th EXCEPT ![t].pc = "find_sig", ![t].s = Null, ![t].sig = srv[th[t].s].sig]
  /\ UNCHANGED ops

\* The machine may be known by another address.
FindSignature(t) ==
  /\ At(t, "find_sig")
  /\ \/ BySignature(th[t].sig) # Null /\ Finish(t) /\ UNCHANGED srv
     \/ BySignature(th[t].sig) = Null /\ ~Cyclic /\ InitServer(t, "connect")
     \/ BySignature(th[t].sig) = Null /\ Cyclic /\ Goto(t, "spinning") /\ UNCHANGED srv
  /\ Same /\ UNCHANGED ops

ConnectAgain(t) == Establish(t, "connect", "login")

\* afp_server_complete_connection(): session, version, UAM, login and server
\* parameters, which hold the list of volumes
Login(t) ==
  /\ At(t, "login")
  /\ Answered(t) \/ th[t].s \notin Listed
  /\ \/ /\ th[t].s \in Listed
        /\ srv' = [srv EXCEPT ![th[t].s].loaded = TRUE]
        /\ Goto(t, "publish")
        /\ Same
     \/ Remove(t, th[t].s) /\ Goto(t, "login_error")
  /\ UNCHANGED ops

\* The error exit of afp_server_full_connect(), on a server that
\* afp_server_complete_connection() has just freed
LoginError(t) ==
  /\ At(t, "login_error")
  /\ IF Mounted(th[t].s) THEN UNCHANGED <<base, next, srv, races>> ELSE Remove(t, th[t].s)
  /\ Finish(t)
  /\ UNCHANGED ops

Publish(t) ==
  /\ At(t, "publish")
  /\ srv' = [srv EXCEPT ![th[t].s].known = TRUE, ![th[t].s].sig = th[t].sig]
  /\ Finish(t)
  /\ Same /\ UNCHANGED ops

-----------------------------------------------------------------------------
(* process_attach(), process_unmount() by volume name, process_detach() by id *)

\* A mounted volume is not attached again; an unknown one is an error.
Attach(t, h, v) ==
  LET s == ByUrl(h) IN
  /\ Command(t, "attach")
  /\ IF s # Null /\ srv[s].loaded
     THEN IF srv[s].vols[v] = "mounted" THEN UNCHANGED th
          ELSE th' = [th EXCEPT ![t].pc = "volopen", ![t].s = s, ![t].v = v]
     ELSE Found(t, s, "attach_error")
  /\ UNCHANGED <<base, next, srv, races>>

\* afp_connect_volume(): a return value that its switch does not list, the -1
\* of dsi_send() among them, counts as success, and the volume's signature is
\* then what it was before.
VolOpen(t) ==
  LET s == th[t].s   v == th[t].v IN
  /\ At(t, "volopen")
  /\ \/ \E fixed \in BOOLEAN :
          /\ Answered(t)
          /\ fixed \/ v \notin srv[s].fixed
          /\ IF fixed
             THEN /\ srv' = [srv EXCEPT ![s].vols[v] = "mounted", ![s].used = TRUE,
                                        ![s].fixed = @ \cup {v}]
                  /\ Finish(t)
             ELSE UNCHANGED srv /\ Goto(t, "attach_error")
     \/ /\ Returns(t)
        /\ v \in srv[s].fixed
        /\ srv' = [srv EXCEPT ![s].vols[v] = "mounted", ![s].used = TRUE,
                              ![s].broken = InVain(t)]
        /\ Finish(t)
     \/ /\ Returns(t)
        /\ srv' = [srv EXCEPT ![s].broken = InVain(t)]
        /\ Goto(t, "attach_error")
  /\ Same /\ UNCHANGED ops

\* mutant of AttachError: without the test of something_is_mounted()
AttachErrorRemoves(t) ==
  /\ At(t, "attach_error")
  /\ Remove(t, th[t].s)
  /\ Finish(t)
  /\ UNCHANGED ops

AttachError(t) ==
  /\ At(t, "attach_error")
  /\ IF Mounted(th[t].s) THEN UNCHANGED <<base, next, srv, races>> ELSE Remove(t, th[t].s)
  /\ Finish(t)
  /\ UNCHANGED ops

\* By name it is the first server with such a volume, mounted or not.
Unmount(t, v) ==
  LET s == First({b \in Blocks : srv[b].loaded}) IN
  /\ Command(t, "unmount")
  /\ IF s # Null
     THEN IF srv[s].vols[v] # "mounted" THEN UNCHANGED th
          ELSE th' = [th EXCEPT ![t].pc = "unmount", ![t].s = s, ![t].v = v]
     ELSE Found(t, s, "unmount")
  /\ UNCHANGED <<base, next, srv, races>>

\* The id is the address of the volume in memory.
Detach(t, s, v) ==
  /\ Command(t, "detach")
  /\ ~Cyclic
  /\ s \in Listed /\ srv[s].loaded
  /\ IF srv[s].vols[v] # "mounted" THEN UNCHANGED th
     ELSE th' = [th EXCEPT ![t].pc = "unmount", ![t].s = s, ![t].v = v]
  /\ UNCHANGED <<base, next, srv, races>>

\* afp_unmount_volume() tests the state again: nothing is done if another
\* thread has begun to unmount the volume.
BeginUnmount(t) ==
  LET s == th[t].s   v == th[t].v IN
  /\ At(t, "unmount")
  /\ IF srv[s].vols[v] = "mounted"
     THEN srv' = [srv EXCEPT ![s].vols[v] = "unmounting"] /\ Goto(t, "volclose")
     ELSE /\ IF t = Ender THEN Goto(t, "ending") ELSE Finish(t)
          /\ IF t = Loop THEN Disconnect(s) ELSE UNCHANGED srv
  /\ Same /\ UNCHANGED ops

\* Flush and close, whatever comes back; only then is the volume unmounted.
\* On a closed connection the second of these commands blocks for ever.
VolClose(t) ==
  LET s == th[t].s   v == th[t].v IN
  /\ At(t, "volclose")
  /\ Returns(t) /\ ~InVain(t)
  /\ srv' = [srv EXCEPT ![s].vols[v] = "unmounted"]
  /\ Goto(t, "logout")
  /\ Same /\ UNCHANGED ops

\* mutant of Logout: the server stays when its last volume goes
LogoutWithoutRemoval(t) ==
  /\ At(t, "logout")
  /\ Finish(t)
  /\ UNCHANGED <<base, next, srv, races, ops>>

\* Where a thread goes on that has unmounted a volume other than the last
AfterUnmount(t) ==
  CASE t = Loop -> Goto(t, "unmount_all")
    [] t = Ender -> Goto(t, "ending")
    [] t \in Threads -> Finish(t)

\* The last volume takes the server with it, and afp_unmount_volume() returns
\* -1: afp_unmount_all_volumes() of the loop goes on only after a 0. The ending
\* does not look.
Logout(t) ==
  LET s == th[t].s IN
  /\ At(t, "logout")
  /\ IF Mounted(s)
     THEN AfterUnmount(t) /\ UNCHANGED <<base, next, srv, races>>
     ELSE /\ Returns(t) /\ Remove(t, s)
          /\ IF t = Ender THEN Goto(t, "ending") ELSE Finish(t)
  /\ UNCHANGED ops

-----------------------------------------------------------------------------
(* process_suspend() and process_resume() *)

Suspend(t, h) ==
  /\ Command(t, "suspend")
  /\ Found(t, ByName(h), "zzzzz")
  /\ UNCHANGED <<base, next, srv, races>>

Zzzzz(t) ==
  /\ At(t, "zzzzz")
  /\ Returns(t)
  /\ \/ Answered(t) /\ Disconnect(th[t].s)
     \/ srv' = [srv EXCEPT ![th[t].s].broken = InVain(t)]
  /\ Finish(t)
  /\ Same /\ UNCHANGED ops

Resume(t, h) ==
  /\ Command(t, "resume")
  /\ Found(t, ByName(h), "reconnect")
  /\ UNCHANGED <<base, next, srv, races>>

Reconnect(t) == Establish(t, "reconnect", "resumed")

-----------------------------------------------------------------------------
(* The main-loop thread: process_server_fds() and dsi_recv() *)

LoopReceives(s) ==
  /\ At(Loop, "idle")
  /\ srv[s].conn /\ Reached(s)
  /\ Use(Loop, "recv", s)
  /\ UNCHANGED <<base, next, srv, ops, races>>

\* A packet, the end of the connection, or a DSICloseSession
LoopReturns ==
  /\ At(Loop, "recv")
  /\ \/ Finish(Loop) /\ UNCHANGED srv
     \/ Finish(Loop) /\ Disconnect(th[Loop].s)
     \/ Goto(Loop, "unmount_all") /\ UNCHANGED srv
  /\ Same /\ UNCHANGED ops

\* afp_unmount_all_volumes(), then loop_disconnect()
UnmountAll ==
  LET s == th[Loop].s
      mounted == {v \in Vols : srv[s].loaded /\ srv[s].vols[v] = "mounted"} IN
  /\ At(Loop, "unmount_all")
  /\ \/ \E v \in mounted : th' = [th EXCEPT ![Loop].pc = "unmount", ![Loop].v = v]
                           /\ UNCHANGED srv
     \/ mounted = {} /\ Finish(Loop) /\ Disconnect(s)
  /\ Same /\ UNCHANGED ops

-----------------------------------------------------------------------------
(* The ending thread, just_end_it_now() and daemon_forced_ending_hook() *)

\* Bound: the clients have sent all their commands, though not got all answers.
\* When no volume is mounted the ending is a walk that waits for nothing.
StartEnding ==
  /\ At(Ender, "idle") /\ ~ending /\ ops = MaxOps
  /\ \E b \in Listed : Mounted(b)
  /\ ending' = TRUE
  /\ Use(Ender, "ending", base)
  /\ Same /\ UNCHANGED <<srv, ops>>

\* Every volume of every connected server, along the next pointers; what these
\* and the number of volumes are read from may have been freed by the unmounting.
ForcedEnding ==
  LET s == th[Ender].s
      v == th[Ender].v
      rest == {w \in Vols : /\ srv[s].loaded /\ srv[s].vols[w] = "mounted"
                           /\ IF v = Null THEN srv[s].conn ELSE Index[w] > Index[v]}
  IN
  /\ At(Ender, "ending")
  /\ races' = races \cup {x \in {"freed_in_use"} : ~srv[s].alloc}
  /\ \/ /\ rest # {}
        /\ \E w \in rest : /\ \A u \in rest : Index[w] <= Index[u]
                          /\ th' = [th EXCEPT ![Ender].pc = "unmount", ![Ender].v = w]
     \/ rest = {} /\ next[s] # Null /\ th' = [th EXCEPT ![Ender].s = next[s], ![Ender].v = Null]
     \/ rest = {} /\ next[s] = Null /\ Finish(Ender)
  /\ UNCHANGED <<base, next, srv, ops, ending>>

-----------------------------------------------------------------------------
Begin(t) ==
  \/ \E h \in Hosts : Connect(t, h) \/ Suspend(t, h) \/ Resume(t, h)
  \/ \E v \in Vols : Unmount(t, v)
  \/ \E h \in Hosts, v \in Vols : Attach(t, h, v)
  \/ \E s \in Blocks, v \in Vols : Detach(t, s, v)

Work(t) ==
  \/ Reconnects(t) \/ Resumed(t)
  \/ FindServer(t) \/ Probe(t) \/ GetStatus(t) \/ DropProbe(t) \/ FindSignature(t)
  \/ ConnectAgain(t) \/ Login(t) \/ LoginError(t) \/ Publish(t)
  \/ VolOpen(t) \/ AttachError(t) \/ BeginUnmount(t) \/ VolClose(t) \/ Logout(t)
  \/ Zzzzz(t) \/ Reconnect(t)

Next ==
  \/ (\E t \in Threads : Begin(t)) /\ UNCHANGED ending
  \/ (\E t \in Actors : Work(t)) /\ UNCHANGED ending
  \/ (\E s \in Blocks : LoopReceives(s)) /\ UNCHANGED ending
  \/ (LoopReturns \/ UnmountAll) /\ UNCHANGED ending
  \/ StartEnding \/ ForcedEnding

Spec == Init /\ [][Next]_vars

-----------------------------------------------------------------------------
(* Properties *)

\* As long as no listed server is added to the list again, and none is freed
\* under a thread that uses it, the list ends and no freed server is on it,
\* however many threads add and remove servers.
ListSound ==
  races \cap {"readded", "freed_in_use"} = {} =>
    ~Cyclic /\ \A b \in Listed : srv[b].alloc

\* connect.c: "See if we're already connected, based on the signature".  No
\* machine is logged into twice, by whatever addresses it is known; the client
\* relies on connects that do not overlap, on every status being received, and
\* on the list being whole.
OneSessionPerMachine ==
  races = {} =>
    \A a, b \in Listed :
      srv[a].loaded /\ srv[b].loaded /\ Machine(srv[a].host) = Machine(srv[b].host) => a = b

\* No server is removed from under a volume that a client has mounted.
MountedServersKept ==
  races = {} => \A b \in Blocks : Mounted(b) => b \in Listed

\* afp_unmount_volume(): "Figure out if this is the last volume of the
\* server".  A server that volumes were mounted from does not stay, idle, when
\* the last of them is gone, whether the clients or the server took it away.
NoIdleSession ==
  races = {} /\ (\A t \in Actors : At(t, "idle")) =>
    \A b \in Listed : srv[b].used => Mounted(b)

\* loop.c calls it "Danger, recursive loop": a listed server that is its own
\* successor, behind which no connection is ever served again.
NoRecursiveLoop == \A b \in Listed : next[b] # b
=============================================================================
