----------------------------- MODULE LoopStart -----------------------------
(***************************************************************************)
(* How main loop starts (afp_main_loop() of lib/loop.c) while threads make *)
(* their first connections and commands: afpcmd and afp_client's getstatus *)
(* start it as a thread and go on (afp_main_quick_startup()), the daemon   *)
(* runs it and starts threads for what its clients ask.                    *)
(*                                                                         *)
(* dsi_send() waits for the loop to have started, on a condition variable  *)
(* whose mutex nobody holds.  Each thread here has a server of its own,    *)
(* and sends it one command.                                               *)
(***************************************************************************)
EXTENDS Integers, FiniteSets

CONSTANT Threads

ASSUME LoopStartConstants == Threads # {}

VARIABLES
  daemon,     \* whether this is the daemon
  loop,       \* where main loop is
  mainThread, \* main_thread is set
  handler,    \* SIGNAL_TO_USE is blocked, and will be handled
  signalled,  \* it is pending
  started,    \* loop_started
  rds, ords,  \* the servers in the set of descriptors, and in its copy
  readable,   \* the servers that have answered
  th,         \* where each thread is
  races       \* history: what has gone wrong

vars == <<daemon, loop, mainThread, handler, signalled, started, rds, ords, readable, th, races>>
signals == <<mainThread, handler, signalled>>
sets == <<rds, ords, readable>>

\* The set is cleared with a server in it; the signal comes before its handler, and
\* ends the program; the condition is signalled between the test and the wait; it
\* is signalled once for two that wait.
RaceKinds == {"cleared", "killed", "missed", "one_woken"}

TypeOK ==
  /\ daemon \in BOOLEAN /\ started \in BOOLEAN
  /\ loop \in {"enter", "zero", "mask", "copy", "select", "announce"}
  /\ mainThread \in BOOLEAN /\ handler \in BOOLEAN /\ signalled \in BOOLEAN
  /\ rds \subseteq Threads /\ ords \subseteq Threads /\ readable \subseteq Threads
  /\ th \in [Threads -> {"asked", "connect", "signal", "test", "wait", "waiting", "write",
                         "sent", "done"}]
  /\ races \subseteq RaceKinds

Init ==
  /\ daemon \in BOOLEAN
  /\ loop = "enter" /\ mainThread = FALSE /\ handler = FALSE /\ signalled = FALSE
  /\ started = FALSE
  /\ rds = {} /\ ords = {} /\ readable = {}
  /\ th = [t \in Threads |-> IF daemon THEN "asked" ELSE "connect"]
  /\ races = {}

Alive == "killed" \notin races
Step(t, from, to) == Alive /\ th[t] = from /\ th' = [th EXCEPT ![t] = to]

-----------------------------------------------------------------------------
(* A thread *)

\* add_fd()
Connect(t) ==
  /\ Step(t, "connect", "signal")
  /\ rds' = rds \cup {t}
  /\ UNCHANGED <<daemon, loop, signals, started, ords, readable, races>>

\* signal_main_thread(): without a handler the signal ends the program
SignalMainThread(t) ==
  /\ Step(t, "signal", "test")
  /\ signalled' = (signalled \/ (mainThread /\ handler))
  /\ races' = IF mainThread /\ ~handler THEN races \cup {"killed"} ELSE races
  /\ UNCHANGED <<daemon, loop, mainThread, handler, started, sets>>

\* afp_wait_for_started_loop()
Test(t) ==
  /\ Step(t, "test", IF started THEN "write" ELSE "wait")
  /\ UNCHANGED <<daemon, loop, signals, started, sets, races>>

Wait(t) ==
  /\ Step(t, "wait", "waiting")
  /\ races' = IF started /\ loop # "announce" THEN races \cup {"missed"} ELSE races
  /\ UNCHANGED <<daemon, loop, signals, started, sets>>

\* The rest of dsi_send() up to its wait for the answer
Write(t) ==
  /\ Step(t, "write", "sent")
  /\ UNCHANGED <<daemon, loop, signals, started, sets, races>>

ServerAnswers(t) ==
  /\ Alive /\ th[t] = "sent" /\ t \notin readable
  /\ readable' = readable \cup {t}
  /\ UNCHANGED <<daemon, loop, signals, started, rds, ords, th, races>>

-----------------------------------------------------------------------------
(* Main loop *)

Goes(from, to) == Alive /\ loop = from /\ loop' = to

Enter ==
  /\ Goes("enter", "zero")
  /\ mainThread' = TRUE
  /\ UNCHANGED <<daemon, handler, signalled, started, sets, th, races>>

\* FD_ZERO(&rds)
Zero ==
  /\ Goes("zero", "mask")
  /\ rds' = {}
  /\ races' = IF rds # {} THEN races \cup {"cleared"} ELSE races
  /\ UNCHANGED <<daemon, signals, started, ords, readable, th>>

\* sigprocmask() and signal()
Mask ==
  /\ Goes("mask", "copy")
  /\ handler' = TRUE
  /\ UNCHANGED <<daemon, mainThread, signalled, started, sets, th, races>>

Copy ==
  /\ Goes("copy", "select")
  /\ ords' = rds
  /\ UNCHANGED <<daemon, signals, started, rds, readable, th, races>>

\* pselect() is interrupted by the signal, at once when that is pending; what is
\* readable may come first.
Interrupted ==
  /\ Goes("select", "copy")
  /\ signalled /\ signalled' = FALSE
  /\ UNCHANGED <<daemon, mainThread, handler, started, sets, th, races>>

\* process_server_fds(): dsi_recv() wakes the thread that waits for the answer.
Receive(t) ==
  /\ Goes("select", "copy")
  /\ t \in ords \cap readable
  /\ readable' = readable \ {t}
  /\ th' = [th EXCEPT ![t] = "done"]
  /\ UNCHANGED <<daemon, signals, started, rds, ords, races>>

\* daemon_scan_extra_fds(): a client's command gets its thread.
ServeClient(t) ==
  /\ Goes("select", "copy")
  /\ ords \cap readable = {} /\ th[t] = "asked"
  /\ th' = [th EXCEPT ![t] = "connect"]
  /\ UNCHANGED <<daemon, signals, started, sets, races>>

\* Nothing to read, for no time at first, and for 30 seconds later; a client may come
\* at any time after.
TimedOut ==
  /\ Goes("select", IF started THEN "copy" ELSE "announce")
  /\ ~signalled /\ ords \cap readable = {}
  /\ started' = TRUE
  /\ UNCHANGED <<daemon, signals, sets, th, races>>

\* mutant of Announce: started is set, and nobody told.
AnnounceNothing ==
  /\ Goes("announce", "copy")
  /\ UNCHANGED <<daemon, signals, started, sets, th, races>>

\* pthread_cond_signal() wakes one of those that wait; nobody calls it again.
Announce ==
  LET waiting == {t \in Threads : th[t] = "waiting"}
  IN /\ Goes("announce", "copy")
     /\ IF waiting = {} THEN UNCHANGED th
        ELSE \E t \in waiting : th' = [th EXCEPT ![t] = "write"]
     /\ races' = IF Cardinality(waiting) > 1 THEN races \cup {"one_woken"} ELSE races
     /\ UNCHANGED <<daemon, signals, started, sets>>

Thread(t) == Connect(t) \/ SignalMainThread(t) \/ Test(t) \/ Wait(t) \/ Write(t)

Loop ==
  \/ Enter \/ Zero \/ Mask \/ Copy \/ Interrupted \/ TimedOut \/ Announce
  \/ \E t \in Threads : Receive(t) \/ ServeClient(t)

Next ==
  \/ Loop
  \/ \E t \in Threads : Thread(t) \/ ServerAnswers(t)

Spec == Init /\ [][Next]_vars

\* Threads run, servers answer, and clients ask sooner or later.
LiveSpec ==
  /\ Spec /\ WF_vars(Loop)
  /\ \A t \in Threads : WF_vars(Thread(t)) /\ WF_vars(ServerAnswers(t)) /\ SF_vars(ServeClient(t))

-----------------------------------------------------------------------------
(* Properties *)

\* A thread that has connected gets the answer to its first command (dsi_send() and
\* afp_main_loop()): main loop has the descriptor in its set, and the thread is
\* woken when the loop has started, unless one of RaceKinds has happened.
FirstCommandsAnswered ==
  \A t \in Threads : th[t] = "connect" ~> th[t] = "done" \/ races # {}
=============================================================================
