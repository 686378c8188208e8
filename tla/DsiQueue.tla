------------------------------ MODULE DsiQueue ------------------------------
(***************************************************************************)
(* The DSI request engine of libafpclient (lib/dsi.c): the threads that    *)
(* call dsi_send(), the main-loop thread that runs dsi_recv(), the thread  *)
(* that removes the server (lib/afp.c), the request queue of struct        *)
(* afp_server they share, and the server at the other end.                 *)
(*                                                                         *)
(* Every step is a piece of code between two points at which another       *)
(* thread can be seen to run: a mutex, a read or write of shared data that *)
(* no mutex protects, a system call.  A struct dsi_request is a BLOCK of   *)
(* the C heap: free() takes it out of `allocated' but leaves its contents, *)
(* malloc() may hand the same block out again, and a thread that still     *)
(* holds the old pointer then reads and writes whatever lives there now.   *)
(*                                                                         *)
(* A call is identified by its number, which its reply carries back as the *)
(* DSI return code; 0 is both the initial value of return_code and the     *)
(* code of a packet that is not a reply.                                   *)
(***************************************************************************)
EXTENDS Integers, Sequences, SequencesExt

CONSTANTS
  Callers,     \* threads that send commands (FUSE or daemon command threads)
  Loop,        \* the main-loop thread, which also sends the tickle replies
  Blocks,      \* heap blocks a struct dsi_request can occupy
  MaxId,       \* the largest request id, 65535 in the code
  Waits,       \* the kinds of wait the callers use: subset of WaitKinds
  Faults,      \* what may go wrong around the engine: subset of FaultKinds
  MaxCalls,    \* bound: calls in a behaviour
  MaxTickles,  \* bound: packets the server sends on its own account
  ReconnectIds,\* request ids that a successful afp_server_reconnect() uses up
  NoBlock,     \* the NULL pointer
  NoThread     \* an unlocked mutex

WaitKinds  == {"forever", "timed", "none"}
FaultKinds == {"broken_pipe", "write_error", "closed", "reconnect", "spurious", "removed"}
Senders    == Callers \cup {Loop}
Ids        == 0..MaxId
CallNums   == 0..MaxCalls

ASSUME DsiConstants ==
  /\ Loop \notin Callers
  /\ NoBlock \notin Blocks
  /\ NoThread \notin Senders
  /\ MaxId \in Nat \ {0} /\ MaxCalls \in Nat /\ MaxTickles \in Nat
  /\ ReconnectIds \in Ids
  /\ Waits \subseteq WaitKinds
  /\ Faults \subseteq FaultKinds

VARIABLES
  lastrequestid,  \* server->lastrequestid
  queue,          \* server->command_requests, oldest first
  pending,        \* server->stats.requests_pending
  heap,           \* contents of the blocks
  allocated,      \* blocks malloc() has handed out and free() not taken back
  connected,      \* connect_state is SERVER_STATE_CONNECTED
  send_mutex,     \* the holder of server->send_mutex
  th,             \* per sender: program counter and locals of dsi_send()
  loop,           \* the same of dsi_recv()
  got,            \* per sender: the reply last written through request->other
  atserver,       \* requests the server has and has not answered
  serverid,       \* the server's own request id counter
  removal,        \* progress of afp_server_remove() for this server
  races,          \* history: which of the races below have happened
  woken           \* history: senders woken without an answer in their last call

vars == <<lastrequestid, queue, pending, heap, allocated, connected, send_mutex,
          th, loop, got, atserver, serverid, removal, races, woken>>

-----------------------------------------------------------------------------
Request == [id : Ids, wait : WaitKinds, done : BOOLEAN, code : CallNums, other : Senders]

SendPCs == {"idle", "header", "send", "append", "check", "write", "branch",
            "enter", "waiting", "code", "remove", "stuck"}

\* What the call returned: the code of its own reply, the 0 that was there
\* before it, another value where that code should be, ETIMEDOUT, -1;
\* "unwaited" for a call that asks for no answer.
Results == {"none", "unwaited", "ok", "unanswered", "wrong", "timeout", "error"}

\* Two calls take their ids at once; a request is freed or given up by one of
\* dsi_send(), dsi_recv() and afp_server_remove() while another holds a
\* pointer to it, or the server is freed while one of them uses it; a packet
\* of the server's own matches a pending request; the ids start over while a
\* request of the old session, the one whose sender reconnects at least, is
\* pending; they wrap around to the id of a request that is still listed or
\* unanswered.
RaceKinds == {"overlap", "freed_in_use", "id_clash", "new_session", "id_reused"}

Frame == [pc : SendPCs, call : CallNums, id : Ids, wait : WaitKinds,
          block : Blocks \cup {NoBlock}, rc : Results]

Packet == [tickle : BOOLEAN, id : Ids, call : CallNums]

LoopPCs == {"select", "store", "process", "tickling", "finish", "signal"}

LoopState == [pc : LoopPCs, found : Blocks \cup {NoBlock}, pkt : Packet]

\* afp_server_remove() wakes the sender of the request it is at, goes on to
\* the next one, takes the server off the list of servers, frees it.
RemovalState == [pc : {"none", "waking", "next", "unlinked", "freed"},
                 at : Blocks \cup {NoBlock}]

TypeOK ==
  /\ lastrequestid \in Ids
  /\ queue \in Seq(Blocks)
  /\ pending \in Nat
  /\ heap \in [Blocks -> Request]
  /\ allocated \in SUBSET Blocks
  /\ connected \in BOOLEAN
  /\ send_mutex \in Senders \cup {NoThread}
  /\ th \in [Senders -> Frame]
  /\ loop \in LoopState
  /\ got \in [Senders -> CallNums]
  /\ atserver \in SUBSET [id : Ids, call : CallNums]
  /\ serverid \in 0..MaxTickles
  /\ removal \in RemovalState
  /\ races \in SUBSET RaceKinds
  /\ woken \in SUBSET Senders

\* A sender outside dsi_send(): its last call and what that call returned
Idle(k, rc) == [pc |-> "idle", call |-> k, id |-> 0, wait |-> "none",
                block |-> NoBlock, rc |-> rc]

\* The loop thread outside dsi_recv()
Selecting == [pc |-> "select", found |-> NoBlock,
              pkt |-> [tickle |-> FALSE, id |-> 0, call |-> 0]]

Init ==
  /\ lastrequestid = 0
  /\ queue = <<>> /\ pending = 0
  /\ heap = [b \in Blocks |-> [id |-> 0, wait |-> "none", done |-> FALSE,
                               code |-> 0, other |-> Loop]]
  /\ allocated = {}
  /\ connected = TRUE
  /\ send_mutex = NoThread
  /\ th = [t \in Senders |-> Idle(0, "none")]
  /\ loop = Selecting
  /\ got = [t \in Senders |-> 0]
  /\ atserver = {}
  /\ serverid = 0
  /\ removal = [pc |-> "none", at |-> NoBlock]
  /\ races = {}
  /\ woken = {}

-----------------------------------------------------------------------------
(* dsi_setup_header() and dsi_send(), by thread t *)

At(t, pc)   == th[t].pc = pc
Goto(t, pc) == th' = [th EXCEPT ![t].pc = pc]

\* The call returns to its caller with this outcome.
Return(t, rc) == th' = [th EXCEPT ![t] = Idle(@.call, rc)]

\* mutant of NextId: no wrap-around
NextIdUnbounded == lastrequestid + 1

\* ++lastrequestid, with the wrap-around at the largest id
NextId == IF lastrequestid = MaxId THEN 0 ELSE lastrequestid + 1

\* Ids that an answer may still come for, or that dsi_recv() would find
BusyIds == {heap[b].id : b \in allocated} \cup {r.id : r \in atserver}

\* The part of dsi_setup_header() under requestid_mutex.  The new value is
\* read back, unlocked, twice: by CopyId and by Allocate.
Begin(t, k, w) ==
  /\ At(t, "idle")
  /\ lastrequestid' = NextId
  /\ th' = [th EXCEPT ![t] = [pc |-> "header", call |-> k, id |-> 0, wait |-> w,
                              block |-> NoBlock,
                              rc |-> IF w = "none" THEN "unwaited" ELSE "none"]]
  /\ got' = [got EXCEPT ![t] = 0]
  /\ races' = races \cup {x \in {"overlap"} : \E u \in Senders : th[u].pc \in {"header", "send"}}
                    \cup {x \in {"id_reused"} : NextId \in BusyIds}
                    \cup {x \in {"freed_in_use"} : removal.pc = "freed"}
  /\ woken' = woken \ {t}
  /\ UNCHANGED <<queue, pending, heap, allocated, connected, send_mutex, atserver, serverid,
                 removal>>

\* A caller thread starts call k, the next one.
Call(c) ==
  \E k \in 1..MaxCalls, w \in Waits :
    /\ \A t \in Senders : th[t].call < k
    /\ \E t \in Senders : th[t].call = k - 1
    /\ Begin(c, k, w)
    /\ UNCHANGED loop

\* header->requestid = htons(server->lastrequestid), after the unlock
CopyId(t) ==
  /\ At(t, "header")
  /\ th' = [th EXCEPT ![t].pc = "send", ![t].id = lastrequestid]
  /\ UNCHANGED <<lastrequestid, queue, pending, heap, allocated, connected, send_mutex,
                 loop, got, atserver, serverid, removal, races, woken>>

\* server_still_valid(): the server is on the list of servers.
StillValid == removal.pc \notin {"unlinked", "freed"}

\* malloc() and the initialisation of the request, whose id is read once more;
\* not for a server that is no longer on the list (fd is 0 only before the
\* first connection)
Allocate(t) ==
  /\ At(t, "send")
  /\ \/ \E b \in Blocks \ allocated :
          /\ StillValid
          /\ allocated' = allocated \cup {b}
          /\ heap' = [heap EXCEPT ![b] = [id |-> lastrequestid, wait |-> th[t].wait,
                                          done |-> FALSE, code |-> 0, other |-> t]]
          /\ th' = [th EXCEPT ![t].pc = "append", ![t].block = b]
     \/ /\ Blocks \subseteq allocated \/ ~StillValid
        /\ Return(t, "error")
        /\ UNCHANGED <<heap, allocated>>
  /\ UNCHANGED <<lastrequestid, queue, pending, connected, send_mutex, loop, got,
                 atserver, serverid, removal, races, woken>>

\* mutant of AppendRequest: the insertion forgets to count
AppendUncounted(t) ==
  /\ At(t, "append")
  /\ queue' = Append(queue, th[t].block)
  /\ Goto(t, "check")
  /\ UNCHANGED <<lastrequestid, pending, heap, allocated, connected, send_mutex, loop, got,
                 atserver, serverid, removal, races, woken>>

\* the queue insertion under request_queue_mutex
AppendRequest(t) ==
  /\ At(t, "append")
  /\ queue' = Append(queue, th[t].block)
  /\ pending' = pending + 1
  /\ Goto(t, "check")
  /\ UNCHANGED <<lastrequestid, heap, allocated, connected, send_mutex, loop, got,
                 atserver, serverid, removal, races, woken>>

\* connect_state is read without a lock; a disconnected server is first
\* reconnected.  Whatever afp_server_reconnect() returns is ignored.
CheckState(t) ==
  /\ At(t, "check")
  /\ connected
  /\ Goto(t, "write")
  /\ UNCHANGED <<lastrequestid, queue, pending, heap, allocated, connected, send_mutex,
                 loop, got, atserver, serverid, removal, races, woken>>

ReconnectFails(t) ==
  /\ At(t, "check")
  /\ ~connected
  /\ Goto(t, "write")
  /\ UNCHANGED <<lastrequestid, queue, pending, heap, allocated, connected, send_mutex,
                 loop, got, atserver, serverid, removal, races, woken>>

\* afp_server_connect() resets lastrequestid; the session and login commands
\* that follow go through dsi_send() themselves: they need send_mutex, use
\* ids, and wait for answers which only the loop thread can receive.  (What
\* connecting does to the list of servers is in module ServerList.)
ReconnectWorks(t) ==
  /\ "reconnect" \in Faults
  /\ At(t, "check")
  /\ ~connected
  /\ StillValid
  /\ connected' = TRUE
  /\ IF t = Loop
     THEN lastrequestid' = 1 /\ Goto(t, "stuck")
     ELSE /\ send_mutex = NoThread
          /\ ~At(Loop, "stuck")
          /\ lastrequestid' = ReconnectIds
          /\ Goto(t, "write")
  /\ races' = races \cup {"new_session"}
  /\ UNCHANGED <<queue, pending, heap, allocated, send_mutex, loop, got, atserver, serverid,
                 removal, woken>>

\* write() under send_mutex.  A tickle is not answered.
Write(t) ==
  /\ At(t, "write")
  /\ send_mutex = NoThread
  /\ connected
  /\ atserver' = IF t = Loop THEN atserver
                 ELSE atserver \cup {[id |-> th[t].id, call |-> th[t].call]}
  /\ Goto(t, "branch")
  /\ UNCHANGED <<lastrequestid, queue, pending, heap, allocated, connected, send_mutex,
                 loop, got, serverid, removal, races, woken>>

\* EPIPE or EBADF: the early return leaves send_mutex locked and the request
\* in the queue
WriteBroken(t) ==
  /\ At(t, "write")
  /\ send_mutex = NoThread
  /\ connected => "broken_pipe" \in Faults
  /\ send_mutex' = t
  /\ connected' = FALSE
  /\ atserver' = {}
  /\ Return(t, "error")
  /\ UNCHANGED <<lastrequestid, queue, pending, heap, allocated, loop, got, serverid, removal, races, woken>>

\* any other error of write()
WriteFails(t) ==
  /\ At(t, "write")
  /\ send_mutex = NoThread
  /\ "write_error" \in Faults
  /\ th' = [th EXCEPT ![t].pc = "remove", ![t].rc = "error"]
  /\ UNCHANGED <<lastrequestid, queue, pending, heap, allocated, connected, send_mutex,
                 loop, got, atserver, serverid, removal, races, woken>>

\* new_request->wait is read without a lock: dsi_recv() may have zeroed it
BranchOnWait(t) ==
  /\ At(t, "branch")
  /\ LET w == heap[th[t].block].wait
     IN th' = [th EXCEPT ![t].pc = IF w = "none" THEN "code" ELSE "enter", ![t].wait = w]
  /\ UNCHANGED <<lastrequestid, queue, pending, heap, allocated, connected, send_mutex,
                 loop, got, atserver, serverid, removal, races, woken>>

\* dsi_recv() holds waiting_mutex of block b between its two last steps.
WaitingMutexFree(b) == ~(loop.pc = "signal" /\ loop.found = b)

\* mutant of EnterWait: pthread_cond_wait() without looking at done_waiting
EnterWaitBlindly(t) ==
  /\ At(t, "enter")
  /\ WaitingMutexFree(th[t].block)
  /\ Goto(t, "waiting")
  /\ UNCHANGED <<lastrequestid, queue, pending, heap, allocated, connected, send_mutex,
                 loop, got, atserver, serverid, removal, races, woken>>

EnterWait(t) ==
  /\ At(t, "enter")
  /\ WaitingMutexFree(th[t].block)
  /\ Goto(t, IF heap[th[t].block].done THEN "code" ELSE "waiting")
  /\ UNCHANGED <<lastrequestid, queue, pending, heap, allocated, connected, send_mutex,
                 loop, got, atserver, serverid, removal, races, woken>>

\* mutant of Timeout: the timed-out caller leaves its request behind
TimeoutWithoutRemoval(t) ==
  /\ At(t, "waiting")
  /\ th[t].wait = "timed"
  /\ WaitingMutexFree(th[t].block)
  /\ Return(t, "timeout")
  /\ UNCHANGED <<lastrequestid, queue, pending, heap, allocated, connected, send_mutex,
                 loop, got, atserver, serverid, removal, races, woken>>

\* mutant of Timeout: a timed-out call goes on to read the return code
TimeoutFallsThrough(t) ==
  /\ At(t, "waiting")
  /\ th[t].wait = "timed"
  /\ WaitingMutexFree(th[t].block)
  /\ Goto(t, "code")
  /\ UNCHANGED <<lastrequestid, queue, pending, heap, allocated, connected, send_mutex,
                 loop, got, atserver, serverid, removal, races, woken>>

\* mutant of Timeout: only calls that wait forever are ever given up
TimeoutLost(t) ==
  /\ At(t, "waiting")
  /\ th[t].wait = "none"
  /\ Goto(t, "remove")
  /\ UNCHANGED <<lastrequestid, queue, pending, heap, allocated, connected, send_mutex,
                 loop, got, atserver, serverid, removal, races, woken>>

Timeout(t) ==
  /\ At(t, "waiting")
  /\ th[t].wait = "timed"
  /\ WaitingMutexFree(th[t].block)
  /\ th' = [th EXCEPT ![t].pc = "remove", ![t].rc = "timeout"]
  /\ UNCHANGED <<lastrequestid, queue, pending, heap, allocated, connected, send_mutex,
                 loop, got, atserver, serverid, removal, races, woken>>

\* pthread_cond_wait() and pthread_cond_timedwait() may return without a
\* signal; the wait is under an `if', and the call goes on.
WakeEarly(t) ==
  /\ "spurious" \in Faults
  /\ At(t, "waiting")
  /\ WaitingMutexFree(th[t].block)
  /\ Goto(t, "code")
  /\ woken' = woken \cup {t}
  /\ UNCHANGED <<lastrequestid, queue, pending, heap, allocated, connected, send_mutex,
                 loop, got, atserver, serverid, removal, races>>

\* What a return code is to the call that waits for it
Meaning(code, call) ==
  CASE code = call -> "ok"
    [] code # call /\ code = 0 -> "unanswered"
    [] OTHER -> "wrong"

\* rc = new_request->return_code
ReadCode(t) ==
  /\ At(t, "code")
  /\ th' = [th EXCEPT ![t].pc = "remove",
                      ![t].rc = IF @ = "unwaited" THEN @
                                ELSE Meaning(heap[th[t].block].code, th[t].call)]
  /\ UNCHANGED <<lastrequestid, queue, pending, heap, allocated, connected, send_mutex,
                 loop, got, atserver, serverid, removal, races, woken>>

\* mutant of RemoveFromQueue: free whatever the pointer is, on the list or not
FreeUnlisted(b) ==
  /\ allocated' = allocated \ {b}
  /\ \/ \E i \in 1..Len(queue) :
          /\ queue[i] = b
          /\ queue' = RemoveAt(queue, i)
          /\ pending' = pending - 1
     \/ /\ \A i \in 1..Len(queue) : queue[i] # b
        /\ UNCHANGED <<queue, pending>>

\* dsi_remove_from_request_queue(): unlink, count and free under
\* request_queue_mutex, if the pointer is on the list
RemoveFromQueue(b) ==
  \/ \E i \in 1..Len(queue) :
       /\ queue[i] = b
       /\ queue' = RemoveAt(queue, i)
       /\ pending' = pending - 1
       /\ allocated' = allocated \ {b}
  \/ /\ \A i \in 1..Len(queue) : queue[i] # b
     /\ UNCHANGED <<queue, pending, allocated>>

\* The same, which does nothing for a server that is no longer on the list.
RemoveIfValid(b) ==
  \/ StillValid /\ RemoveFromQueue(b)
  \/ ~StillValid /\ UNCHANGED <<queue, pending, allocated>>

\* The thread that removes the server is between reading a pointer to request
\* b and using it for the last time.
RemovalUses(b) == removal.pc \in {"waking", "next"} /\ removal.at = b

Unqueue(t) ==
  /\ At(t, "remove")
  /\ RemoveIfValid(th[t].block)
  /\ Return(t, th[t].rc)
  /\ races' = races \cup {x \in {"freed_in_use"} :
                           /\ th[t].block \in ToSet(queue)
                           /\ loop.found = th[t].block \/ RemovalUses(th[t].block)}
  /\ UNCHANGED <<lastrequestid, heap, connected, send_mutex, loop, got, atserver, serverid,
                 removal, woken>>

Send(t) ==
  \/ CopyId(t) \/ Allocate(t) \/ AppendRequest(t) \/ CheckState(t)
  \/ ReconnectFails(t) \/ ReconnectWorks(t)
  \/ Write(t) \/ WriteBroken(t) \/ WriteFails(t)
  \/ BranchOnWait(t) \/ EnterWait(t) \/ Timeout(t) \/ WakeEarly(t) \/ ReadCode(t) \/ Unqueue(t)

-----------------------------------------------------------------------------
(* dsi_recv(), by the main-loop thread *)

\* dsi_find_request(): the first request of the queue with the packet's id,
\* whether the packet is a reply or not.  The queue lock is dropped before
\* the pointer is used.  Main loop finds the server by its list.
Receive(pkt) ==
  /\ loop.pc = "select"
  /\ connected /\ StillValid
  /\ \/ \E i \in 1..Len(queue) :
          /\ heap[queue[i]].id = pkt.id
          /\ \A j \in 1..(i-1) : heap[queue[j]].id # pkt.id
          /\ loop' = [pc |-> "store", found |-> queue[i], pkt |-> pkt]
     \/ /\ \A i \in 1..Len(queue) : heap[queue[i]].id # pkt.id
        /\ loop' = [pc |-> "store", found |-> NoBlock, pkt |-> pkt]
  /\ UNCHANGED <<lastrequestid, queue, pending, heap, allocated, connected, send_mutex,
                 th, got, removal, woken>>

\* The server answers its requests in any order.
ReceiveReply ==
  \E r \in atserver :
    /\ Receive([tickle |-> FALSE, id |-> r.id, call |-> r.call])
    /\ atserver' = atserver \ {r}
    /\ UNCHANGED <<serverid, races>>

\* A tickle, numbered by the server from its own counter
ReceiveTickle ==
  /\ serverid < MaxTickles
  /\ Receive([tickle |-> TRUE, id |-> serverid % (MaxId + 1), call |-> 0])
  /\ serverid' = serverid + 1
  /\ races' = races \cup {x \in {"id_clash"} : loop'.found # NoBlock}
  /\ UNCHANGED atserver

\* read() returns 0: loop_disconnect()
ReceiveEOF ==
  /\ loop.pc = "select"
  /\ connected /\ StillValid
  /\ "closed" \in Faults
  /\ connected' = FALSE
  /\ atserver' = {}
  /\ UNCHANGED <<lastrequestid, queue, pending, heap, allocated, send_mutex, th, loop,
                 got, serverid, removal, races, woken>>

\* request->return_code = the packet's code
StoreCode ==
  /\ loop.pc = "store"
  /\ heap' = IF loop.found = NoBlock THEN heap
             ELSE [heap EXCEPT ![loop.found].code = loop.pkt.call]
  /\ loop' = [loop EXCEPT !.pc = "process"]
  /\ UNCHANGED <<lastrequestid, queue, pending, allocated, connected, send_mutex, th, got,
                 atserver, serverid, removal, races, woken>>

\* mutant of ProcessReply: the answer is unpacked for the newest request
ProcessReplyForLast ==
  /\ loop.pc = "process"
  /\ ~loop.pkt.tickle
  /\ got' = IF loop.found = NoBlock \/ queue = <<>> THEN got
            ELSE [got EXCEPT ![heap[Last(queue)].other] = loop.pkt.call]
  /\ loop' = [loop EXCEPT !.pc = "finish"]
  /\ UNCHANGED <<lastrequestid, queue, pending, heap, allocated, connected, send_mutex, th,
                 atserver, serverid, removal, races, woken>>

\* dsi_command_reply(): the reply handler writes through request->other
ProcessReply ==
  /\ loop.pc = "process"
  /\ ~loop.pkt.tickle
  /\ got' = IF loop.found = NoBlock THEN got
            ELSE [got EXCEPT ![heap[loop.found].other] = loop.pkt.call]
  /\ loop' = [loop EXCEPT !.pc = "finish"]
  /\ UNCHANGED <<lastrequestid, queue, pending, heap, allocated, connected, send_mutex, th,
                 atserver, serverid, removal, races, woken>>

\* dsi_incoming_tickle(): the loop thread becomes a sender that does not wait
ProcessTickle ==
  /\ loop.pc = "process"
  /\ loop.pkt.tickle
  /\ Begin(Loop, 0, "none")
  /\ loop' = [loop EXCEPT !.pc = "tickling"]

TickleSent ==
  /\ loop.pc = "tickling"
  /\ At(Loop, "idle")
  /\ loop' = [loop EXCEPT !.pc = "finish"]
  /\ UNCHANGED <<lastrequestid, queue, pending, heap, allocated, connected, send_mutex, th,
                 got, atserver, serverid, removal, races, woken>>

\* No request; or one nobody waits for, which is freed here
FinishUnawaited ==
  /\ loop.pc = "finish"
  /\ IF loop.found = NoBlock
     THEN UNCHANGED <<queue, pending, allocated>>
     ELSE heap[loop.found].wait = "none" /\ RemoveIfValid(loop.found)
  /\ loop' = Selecting
  /\ races' = races \cup {x \in {"freed_in_use"} :
                           /\ queue' # queue
                           /\ \/ \E t \in Senders : th[t].block = loop.found
                              \/ RemovalUses(loop.found)}
  /\ UNCHANGED <<lastrequestid, heap, connected, send_mutex, th, got, atserver, serverid,
                 removal, woken>>

\* lock waiting_mutex, request->wait = 0
FinishAwaited ==
  /\ loop.pc = "finish"
  /\ loop.found # NoBlock
  /\ heap[loop.found].wait # "none"
  /\ heap' = [heap EXCEPT ![loop.found].wait = "none"]
  /\ loop' = [loop EXCEPT !.pc = "signal"]
  /\ UNCHANGED <<lastrequestid, queue, pending, allocated, connected, send_mutex, th, got,
                 atserver, serverid, removal, races, woken>>

\* done_waiting = 1, pthread_cond_signal(), unlock
Signal ==
  /\ loop.pc = "signal"
  /\ heap' = [heap EXCEPT ![loop.found].done = TRUE]
  /\ th' = [t \in Senders |-> IF th[t].pc = "waiting" /\ th[t].block = loop.found
                              THEN [th[t] EXCEPT !.pc = "code"] ELSE th[t]]
  /\ loop' = Selecting
  /\ UNCHANGED <<lastrequestid, queue, pending, allocated, connected, send_mutex, got,
                 atserver, serverid, removal, races, woken>>

Recv ==
  \/ ReceiveReply \/ ReceiveTickle \/ ReceiveEOF
  \/ StoreCode \/ ProcessReply \/ ProcessTickle \/ TickleSent
  \/ FinishUnawaited \/ FinishAwaited \/ Signal

-----------------------------------------------------------------------------
(* afp_server_remove(), by a thread that unmounts the server's last volume or *)
(* gives the connection up                                                    *)

RemovalStarts ==
  /\ "removed" \in Faults
  /\ removal.pc = "none"
  /\ removal' = [pc |-> "waking", at |-> IF queue = <<>> THEN NoBlock ELSE Head(queue)]
  /\ UNCHANGED <<lastrequestid, queue, pending, heap, allocated, connected, send_mutex, th,
                 loop, got, atserver, serverid, races, woken>>

\* Under waiting_mutex, done_waiting = 1 and pthread_cond_signal(): the sender
\* of the request wakes, or will not wait, as if its answer were there.
WakePending ==
  /\ removal.pc = "waking" /\ removal.at # NoBlock
  /\ WaitingMutexFree(removal.at)
  /\ heap' = [heap EXCEPT ![removal.at].done = TRUE]
  /\ th' = [t \in Senders |-> IF th[t].pc = "waiting" /\ th[t].block = removal.at
                              THEN [th[t] EXCEPT !.pc = "code"] ELSE th[t]]
  /\ woken' = woken \cup {t \in Senders : ~At(t, "idle") /\ th[t].block = removal.at}
  /\ removal' = [removal EXCEPT !.pc = "next"]
  /\ UNCHANGED <<lastrequestid, queue, pending, allocated, connected, send_mutex, loop, got,
                 atserver, serverid, races>>

\* p = p->next, after the unlock and without request_queue_mutex; the field of
\* a request that has been freed may be anything.
NextPending ==
  /\ removal.pc = "next"
  /\ \E b \in Blocks \cup {NoBlock} :
       /\ \A i \in 1..Len(queue) :
            queue[i] = removal.at => b = IF i = Len(queue) THEN NoBlock ELSE queue[i + 1]
       /\ removal' = [pc |-> "waking", at |-> b]
  /\ UNCHANGED <<lastrequestid, queue, pending, heap, allocated, connected, send_mutex, th,
                 loop, got, atserver, serverid, races, woken>>

\* The server is taken off the list of servers.
Unlink ==
  /\ removal.pc = "waking" /\ removal.at = NoBlock
  /\ removal' = [removal EXCEPT !.pc = "unlinked"]
  /\ UNCHANGED <<lastrequestid, queue, pending, heap, allocated, connected, send_mutex, th,
                 loop, got, atserver, serverid, races, woken>>

\* afp_free_server(): every listed request is freed, the connection closed and
\* the server freed.  Threads that are inside go on with the freed memory, in
\* which the model leaves what was there.
FreeServer ==
  /\ removal.pc = "unlinked"
  /\ allocated' = allocated \ ToSet(queue)
  /\ connected' = FALSE
  /\ atserver' = {}
  /\ removal' = [removal EXCEPT !.pc = "freed"]
  /\ races' = races \cup {x \in {"freed_in_use"} :
                           loop.pc # "select" \/ \E t \in Senders : ~At(t, "idle")}
  /\ UNCHANGED <<lastrequestid, queue, pending, heap, send_mutex, th, loop, got, serverid, woken>>

Removal == RemovalStarts \/ WakePending \/ NextPending \/ Unlink \/ FreeServer

-----------------------------------------------------------------------------
Next ==
  \/ \E c \in Callers : Call(c)
  \/ \E t \in Senders : Send(t)
  \/ Recv
  \/ Removal

Spec == Init /\ [][Next]_vars

\* Threads run; time passes; nobody promises that the server answers, nor that
\* a wait ends without a signal.
ThreadsRun ==
  /\ \A t \in Senders : WF_vars(Send(t) /\ ~WakeEarly(t))
  /\ WF_vars(StoreCode \/ ProcessReply \/ ProcessTickle \/ TickleSent
             \/ FinishUnawaited \/ FinishAwaited \/ Signal)
  /\ WF_vars(WakePending \/ NextPending \/ Unlink \/ FreeServer)

LiveSpec == Spec /\ ThreadsRun

\* The server answers, and the loop thread reads what it sends.
AnsweringSpec == LiveSpec /\ WF_vars(ReceiveReply)

-----------------------------------------------------------------------------
(* Properties *)

\* stats.requests_pending, which afp_status shows, counts the requests on
\* the list, whichever of the two threads takes each of them off.
PendingMatches == pending = Len(queue)

\* No request is listed twice, no freed request is listed, and a request that
\* is not freed is listed or about to be: dsi_send() and dsi_recv() both
\* remove requests, none is freed twice and none is leaked unlisted.  This
\* holds until the server itself is freed, with the requests it still lists.
RequestsAccounted ==
  removal.pc # "freed" =>
    /\ IsInjective(queue)
    /\ allocated = ToSet(queue) \cup {th[t].block : t \in {u \in Senders : At(u, "append")}}

\* Unless one of the races of RaceKinds has happened, dsi_send() never returns
\* another command's code as its own; and it reports success without an answer
\* only to a caller whose wait ended early, by a wake-up without a signal or by
\* the one afp_server_remove() gives every pending request.
OwnReply ==
  races = {} => \A c \in Callers : /\ th[c].rc # "wrong"
                                   /\ th[c].rc = "unanswered" => c \in woken

\* dsi_recv() writes a reply through request->other only while the call that
\* owns that memory, the call it answers, is still in progress.
WritesOnlyLiveBuffers ==
  [][\A c \in Callers :
       races' = {} /\ got'[c] # got[c] /\ got'[c] # 0
         => ~At(c, "idle") /\ got'[c] = th[c].call]_vars

\* "x>n: wait for N seconds": a call with a timeout comes back.
TimedCallsReturn == \A c \in Callers : (th[c].wait = "timed") ~> At(c, "idle")

\* No wake-up is lost: if the server answers and none of the races occurs,
\* every call comes back, those that wait forever too.
AnsweredCallsReturn ==
  [](races = {}) => \A c \in Callers : ~At(c, "idle") ~> At(c, "idle")

\* The comment above dsi_send() without reservation: what a call that waits
\* returns is "DSI command return code".
ReturnsItsCode == \A c \in Callers : th[c].rc # "wrong"

\* The same comment, "0: No error": a call that returns 0 has its answer, at
\* least as long as none of the races has happened.
NoErrorMeansAnswered ==
  races = {} => \A c \in Callers : At(c, "idle") => th[c].rc # "unanswered"

-----------------------------------------------------------------------------
(* The contract of the engine, DsiService, implemented as long as no race     *)
(* has occurred                                                               *)

Outcome(c) ==
  IF At(c, "idle") THEN "idle"
  ELSE IF got[c] = th[c].call THEN "answered" ELSE "pending"

Service == INSTANCE DsiService WITH
             status <- [c \in Callers |-> Outcome(c)],
             result <- [c \in Callers |-> IF At(c, "idle") THEN th[c].rc ELSE "none"],
             early  <- woken \cap Callers,
             intact <- races = {}

ImplementsService == Service!Spec
=============================================================================
