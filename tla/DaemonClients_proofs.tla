------------------------ MODULE DaemonClients_proofs ------------------------
(***************************************************************************)
(* Theorems about the daemon's clients, for any number of clients, command *)
(* threads, slots of the pool and descriptors.                             *)
(***************************************************************************)
EXTENDS DaemonClients, FiniteSetTheorems, WellFoundedInduction, TLAPS

-----------------------------------------------------------------------------
(* The inductive invariant *)

\* No race has occurred, and the pool has not been emptied for the end.
Orderly == races = {} /\ ending # "over" /\ ~MainAt("dead")

\* Where a command thread has its client's slot to itself; and where it is
\* closing the connection, whose descriptor it has put back once more
Closing == {"unadd", "lower", "shut", "remove"}
Busy    == {"work", "readd", "close"} \cup Closing

BusyOn(t, s) == th[t].pc \in Busy /\ th[t].slot = s

\* Whoever is at a slot, it is one of a client that has been accepted: it names a
\* descriptor that was one of a connection.
Slotted ==
  /\ \A s \in Slots : pool[s].used => pool[s].fd \in Fds
  /\ main.pc \in {"read", "drop", "lower", "clear"} =>
       main.slot \in Slots /\ pool[main.slot].fd \in Fds
  /\ \A t \in Threads : th[t].pc # "none" => th[t].slot \in Slots /\ FdOf(t) \in Fds

TypeInv == TypeOK /\ Slotted

\* No two slots name a descriptor and no two descriptors are a client's; who is in
\* the listening socket's queue has none.
Distinct ==
  /\ \A r, s \in Slots : pool[r].used /\ pool[s].used /\ pool[r].fd = pool[s].fd => r = s
  /\ \A f, g \in Fds : file[f] # Null /\ file[f] = file[g] => f = g
  /\ \A c \in Clients : cl[c].st = "queued" => \A f \in Fds : file[f] # c

\* What main loop will select on is open and below max_fd.
Selectable ==
  /\ \A f \in rds \ {CommandFd} : file[f] # Null
  /\ \A f \in rds : f < max_fd

\* The client of thread t has been answered and was told that the connection
\* would be closed: it sends nothing more.
Quiet(t) ==
  LET c == cl[th[t].who] IN c.cmd = "close" /\ c.sent = c.read /\ ~c.wait

\* Main loop may come to the slot of thread t by what pselect() has reported.
Seen(t) ==
  \/ main.pc \in {"select", "scan"} /\ FdOf(t) \in main.set
  \/ main.pc \in {"read", "drop"} /\ main.slot = th[t].slot

\* A thread at work has a slot, a connection and a client of its own.
OwnClient(t) ==
  th[t].pc \in Busy =>
    /\ pool[th[t].slot].used
    /\ \A u \in Threads : th[u].pc \in Busy /\ th[u].slot = th[t].slot => u = t
    /\ th[t].pc # "unadd" => FdOf(t) \notin rds
    /\ IF th[t].pc = "remove" THEN file[FdOf(t)] = Null
       ELSE th[t].who \in Clients /\ file[FdOf(t)] = th[t].who
    /\ th[t].pc \in {"close", "unadd", "lower", "shut"} => Quiet(t)
    /\ Seen(t) => th[t].pc \in Closing
    /\ ~(main.pc = "lower" /\ main.slot = th[t].slot)

\* The slot main loop is at is a client's; or the client has just been closed, and
\* then nobody else has its descriptor.
MainsClient ==
  LET s == main.slot
      f == pool[s].fd IN
  /\ main.pc \in {"read", "drop"} =>
       /\ \A r \in Slots : pool[r].used /\ pool[r].fd = f => r = s
       /\ ~pool[s].used => file[f] = Null /\ f \notin rds
  /\ main.pc = "lower" => pool[s].used /\ f \notin rds /\ file[f] # Null

\* A slot no thread has, and main loop is not about to give to one, is listened
\* to unless its client's command was a mute one, until a client has asked the
\* daemon to end.
Listened ==
  ending = "no" =>
    \A s \in Slots :
      /\ pool[s].used
      /\ \A t \in Threads : ~BusyOn(t, s)
      /\ ~(main.pc = "lower" /\ main.slot = s)
      /\ ~Forgotten(s)
      => pool[s].fd \in rds

\* Once the process has ended there are no threads; and it has ended as asked.
DeadInv ==
  MainAt("dead") => /\ \A t \in Threads : th[t].pc = "none"
                    /\ races = {} => ending = "over"

InOrder ==
  Distinct /\ Selectable /\ (\A t \in Threads : OwnClient(t)) /\ MainsClient /\ Listened

ClientsInv == (Orderly => InOrder) /\ DeadInv

-----------------------------------------------------------------------------
(* Highest and lowest *)

LEMMA LeastOf ==
  ASSUME NEW S, S \subseteq Nat, S # {}
  PROVE  \E x \in S : \A y \in S : x <= y
<1> DEFINE R == OpToRel(<, Nat)
<1>1. PICK x \in S : \A y \in S : ~ (<<y, x>> \in R)
  <2>1. IsWellFoundedOn(R, Nat)
    BY NatLessThanWellFounded
  <2> HIDE DEF R
  <2> QED
    BY <2>1, WFMin
<1>2. \A y \in S : ~(y < x)
  BY <1>1 DEF OpToRel
<1> QED
  BY <1>2

LEMMA GreatestOf ==
  ASSUME NEW n \in Nat, NEW S, S \subseteq 0..n, S # {}
  PROVE  \E x \in S : \A y \in S : x >= y
<1> DEFINE T == {n - x : x \in S}
<1>1. T \subseteq Nat /\ T # {}
  <2>1. \A x \in S : n - x \in Nat
    OBVIOUS
  <2>2. PICK x : x \in S
    OBVIOUS
  <2>3. n - x \in T
    BY <2>2
  <2> QED
    BY <2>1, <2>3
<1>2. PICK z \in T : \A y \in T : z <= y
  BY <1>1, LeastOf
<1>3. PICK x \in S : z = n - x
  OBVIOUS
<1>4. \A y \in S : n - x <= n - y
  BY <1>2, <1>3
<1> QED
  BY <1>4

\* Max() of a bounded set of numbers
LEMMA MaxIs ==
  ASSUME NEW n \in Nat, NEW S, S \subseteq 0..n, S # {}
  PROVE  Max(S) \in S /\ \A y \in S : Max(S) >= y
  BY GreatestOf DEF Max

LEMMA MinIs ==
  ASSUME NEW S, S \subseteq Nat, S # {}
  PROVE  Min(S) \in S
  BY LeastOf DEF Min

LEMMA MaxOfTwo ==
  ASSUME NEW a \in Nat, NEW b \in Nat
  PROVE  Max({a, b}) \in {a, b} /\ Max({a, b}) >= a /\ Max({a, b}) >= b
<1>1. \E x \in {a, b} : \A y \in {a, b} : x >= y
  <2>1. CASE a <= b
    BY <2>1
  <2>2. CASE b <= a
    BY <2>2
  <2> QED
    BY <2>1, <2>2
<1> QED
  BY <1>1 DEF Max

\* A finite set of numbers has a bound: the shortest part of an enumeration of its
\* members that has none could do without its last.
LEMMA Bounded ==
  ASSUME NEW S, IsFiniteSet(S), S \subseteq Nat
  PROVE  \E b \in Nat : S \subseteq 0..b
<1>0. PICK n \in Nat : ExistsSurjection(1..n, S)
  BY FS_NatSurjection
<1>1. PICK f \in [1..n -> S] : \A x \in S : \E i \in 1..n : f[i] = x
  BY <1>0 DEF ExistsSurjection, Surjection
<1>2. \A i \in 1..n : f[i] \in Nat
  BY <1>1
<1> DEFINE Under(k, b) == \A i \in 1..k : f[i] <= b
           T == {k \in 0..n : ~\E b \in Nat : Under(k, b)}
<1>3. T = {}
  <2> SUFFICES ASSUME T # {} PROVE FALSE
    OBVIOUS
  <2>1. PICK k \in T : \A j \in T : k <= j
    <3>1. T \subseteq Nat
      OBVIOUS
    <3> HIDE DEF T
    <3> QED
      BY <3>1, LeastOf
  <2>2. k \in 0..n /\ ~\E b \in Nat : Under(k, b)
    OBVIOUS
  <2>3. k # 0
    <3>1. Under(0, 0)
      OBVIOUS
    <3> HIDE DEF Under
    <3> QED
      BY <2>2, <3>1
  <2>4. k \in 1..n /\ k - 1 \in 0..n /\ ~(k <= k - 1)
    BY <2>2, <2>3
  <2>5. k - 1 \notin T
    <3> HIDE DEF T
    <3> QED
      BY <2>1, <2>4
  <2>6. PICK b \in Nat : Under(k - 1, b)
    BY <2>4, <2>5
  <2>7. PICK c \in Nat : b <= c /\ f[k] <= c
    <3>1. f[k] \in Nat
      BY <1>2, <2>4
    <3> HIDE DEF Under, T
    <3>2. b \in Nat
      BY <2>6
    <3>3. CASE b <= f[k]
      <4>1. f[k] <= f[k]
        BY <3>1
      <4> QED
        BY <3>1, <3>3, <4>1
    <3>4. CASE f[k] <= b
      <4>1. b <= b
        BY <3>2
      <4> QED
        BY <3>2, <3>4, <4>1
    <3> QED
      BY <3>1, <3>2, <3>3, <3>4
  <2>8. ASSUME NEW i \in 1..k PROVE f[i] <= c
    <3>1. CASE i = k
      BY <2>7, <3>1
    <3>2. CASE i # k
      <4>1. i \in 1..(k - 1) /\ i \in 1..n
        BY <2>4, <3>2
      <4>2. f[i] <= b /\ f[i] \in Nat
        BY <1>2, <2>6, <4>1
      <4> QED
        BY <2>7, <4>2
    <3> QED
      BY <3>1, <3>2
  <2> QED
    BY <2>2, <2>8
<1>4. PICK b \in Nat : Under(n, b)
  <2>1. n \in 0..n
    BY <1>0
  <2>2. n \notin T
    <3> HIDE DEF T
    <3> QED
      BY <1>3
  <2> QED
    BY <2>1, <2>2
<1>5. \A x \in S : x \in 0..b
  BY <1>1, <1>2, <1>4
<1> QED
  BY <1>5

\* The longest command
LEMMA LongestCommand == MaxLen \in Nat \ {0} /\ \A len \in Lens : len <= MaxLen
<1>1. PICK b \in Nat : Lens \subseteq 0..b
  BY ClientsConstants, Bounded
<1>2. Lens # {}
  BY ClientsConstants
<1> QED
  BY <1>1, <1>2, MaxIs, ClientsConstants DEF MaxLen

-----------------------------------------------------------------------------
(* The types *)

LEMMA HighestIs ==
  ASSUME NEW R, R \subseteq Fds \cup {CommandFd}
  PROVE  /\ Highest(R) \in 0..NFds
         /\ \A f \in R : f <= max_fd => f <= Highest(R)
<1> DEFINE S == {f \in R : f <= max_fd} \cup {CommandFd}
<1>1. NFds \in Nat
  BY ClientsConstants
<1>2. S \subseteq 0..NFds /\ S # {}
  <2>1. Fds \cup {CommandFd} \subseteq 0..NFds
    BY <1>1 DEF Fds, CommandFd
  <2>2. S \subseteq Fds \cup {CommandFd} /\ S # {}
    OBVIOUS
  <2> HIDE DEF S
  <2> QED
    BY <2>1, <2>2
<1>3. Max(S) \in S /\ \A y \in S : Max(S) >= y
  BY <1>1, <1>2, MaxIs
<1>4. Highest(R) = Max(S)
  BY DEF Highest
<1>5. \A f \in R : f <= max_fd => f \in S
  OBVIOUS
<1> HIDE DEF S
<1>6. Max(S) \in 0..NFds
  BY <1>2, <1>3
<1>7. \A f \in R : f <= max_fd => f <= Max(S)
  BY <1>2, <1>3, <1>5, <1>6
<1> QED
  BY <1>4, <1>6, <1>7

\* add_fd() of a descriptor
LEMMA Adding ==
  ASSUME TypeOK, NEW f \in Fds, AddFd(f)
  PROVE  /\ rds' = rds \cup {f} /\ rds' \subseteq Fds \cup {CommandFd}
         /\ max_fd' \in 0..(NFds + 1)
         /\ max_fd' >= max_fd /\ max_fd' >= f + 1
<1>1. NFds \in Nat
  BY ClientsConstants
<1>2. max_fd \in Nat /\ max_fd \in 0..(NFds + 1) /\ f \in Nat /\ f + 1 \in 0..(NFds + 1)
  BY <1>1 DEF TypeOK, Fds
<1>3. /\ Max({max_fd, f + 1}) \in {max_fd, f + 1}
      /\ Max({max_fd, f + 1}) >= max_fd /\ Max({max_fd, f + 1}) >= f + 1
  BY <1>2, MaxOfTwo
<1>4. max_fd' = Max({max_fd, f + 1})
  BY DEF AddFd
<1> QED
  BY <1>2, <1>3, <1>4 DEF AddFd, TypeOK

\* close() of a descriptor
LEMMA Closing1 ==
  ASSUME TypeOK, NEW f, Closed(f)
  PROVE  file' \in [Fds -> Clients \cup {Null}] /\ cl' \in [Clients -> Client]
<1>1. file' \in [Fds -> Clients \cup {Null}]
  BY DEF Closed, TypeOK
<1>2. \A c \in Clients : [cl[c] EXCEPT !.st = "dropped", !.wait = FALSE] \in Client
  BY DEF TypeOK, Client
<1> QED
  BY <1>1, <1>2 DEF Closed, TypeOK

LEMMA AtTopTyped == AtTop \in Main /\ AtTop.pc = "top" /\ AtTop.slot = 0 /\ AtTop.set = {}
<1>1. NFds \in Nat
  BY ClientsConstants
<1>2. 0 \in 0..(NFds + 1) /\ 0 \in 0..NFds
  BY <1>1
<1> QED
  BY <1>2 DEF Main, AtTop

\* The end of the process
LEMMA DieTypes ==
  ASSUME TypeOK, Die
  PROVE  /\ file' \in [Fds -> Clients \cup {Null}] /\ cl' \in [Clients -> Client]
         /\ main' \in Main /\ main'.pc = "dead"
         /\ th' = [t \in Threads |-> NoThread] /\ th' \in [Threads -> Thread]
<1>0. NFds \in Nat
  BY ClientsConstants
<1>1. \A c \in Clients : [cl[c] EXCEPT !.st = "dropped", !.wait = FALSE] \in Client
  BY DEF TypeOK, Client
<1>2. cl' \in [Clients -> Client]
  BY <1>1 DEF Die, TypeOK
<1>3. main' \in Main /\ main'.pc = "dead"
  <2>1. AtTop \in Main
    BY AtTopTyped
  <2> QED
    BY <2>1 DEF Die, Main
<1>4. NoThread \in Thread
  BY <1>0 DEF NoThread, Thread
<1> QED
  BY <1>2, <1>3, <1>4 DEF Die

\* Steps of the clients, of main loop and of command threads change few things each.
LEMMA InitTypes == Init => TypeInv
<1> SUFFICES ASSUME Init PROVE TypeInv
  OBVIOUS
<1>0. NFds \in Nat /\ MaxLen \in Nat /\ MaxCmds \in Nat /\ MaxVisits \in Nat
  BY ClientsConstants, LongestCommand
<1>1. EmptySlot \in Slot /\ ~EmptySlot.used
  BY <1>0 DEF EmptySlot, Slot
<1>2. NewClient \in Client
  BY <1>0 DEF NewClient, Client, Commands
<1>3. NoThread \in Thread /\ NoThread.pc = "none"
  BY <1>0 DEF NoThread, Thread
<1>4. TypeOK
  BY <1>0, <1>1, <1>2, <1>3, AtTopTyped DEF Init, TypeOK
<1>5. Slotted
  BY <1>1, <1>3, AtTopTyped DEF Init, Slotted
<1> QED
  BY <1>4, <1>5 DEF TypeInv

LEMMA ClientStepTypes ==
  ASSUME TypeInv, ClientStep
  PROVE  TypeInv'
<1>0. MaxLen \in Nat /\ MaxCmds \in Nat /\ MaxVisits \in Nat /\ 0 \in 0..MaxLen
  BY ClientsConstants, LongestCommand
<1>1. TypeOK
  BY DEF TypeInv
<1>2. PICK c \in Clients :
        \/ Connect(c) \/ Arrive(c) \/ Leave(c)
        \/ \E cmd \in Commands, len \in Lens, sent \in 1..MaxLen : Ask(c, cmd, len, sent)
  BY DEF ClientStep
<1>3. /\ UNCHANGED <<pool, rds, max_fd, file, main, th, ending, races>>
      /\ cmds' \in 0..MaxCmds /\ visits' \in 0..MaxVisits
  <2>1. CASE Connect(c)
    BY <1>0, <1>1, <2>1 DEF TypeOK, Connect
  <2>2. CASE Arrive(c) \/ Leave(c)
    BY <1>1, <2>2 DEF TypeOK, Arrive, Leave
  <2>3. CASE \E cmd \in Commands, len \in Lens, sent \in 1..MaxLen : Ask(c, cmd, len, sent)
    BY <1>0, <1>1, <2>3 DEF TypeOK, Ask
  <2> QED
    BY <1>2, <2>1, <2>2, <2>3
<1>4. cl' \in [Clients -> Client]
  <2>1. cl[c] \in Client
    BY <1>1 DEF TypeOK
  <2>2. CASE Connect(c)
    <3>0. NewClient \in Client
      BY <1>0 DEF NewClient, Client, Commands
    <3>1. [NewClient EXCEPT !.st = "queued"] \in Client
      BY <3>0 DEF Client
    <3> QED
      BY <1>1, <2>2, <3>1 DEF Connect, TypeOK
  <2>3. CASE Arrive(c)
    <3>1. [cl[c] EXCEPT !.sent = @ + 1] \in Client
      BY <1>0, <2>1, <2>3 DEF Arrive, Client
    <3> QED
      BY <1>1, <2>3, <3>1 DEF Arrive, TypeOK
  <2>4. CASE Leave(c)
    <3>1. [cl[c] EXCEPT !.st = "closed", !.wait = FALSE] \in Client
      BY <2>1 DEF Client
    <3>2. cl' = [cl EXCEPT ![c] = [cl[c] EXCEPT !.st = "closed", !.wait = FALSE]]
      BY <1>1, <2>1, <2>4 DEF Leave, TypeOK, Client
    <3> QED
      BY <1>1, <3>1, <3>2 DEF TypeOK
  <2>5. CASE \E cmd \in Commands, len \in Lens, sent \in 1..MaxLen : Ask(c, cmd, len, sent)
    <3>1. PICK cmd \in Commands, len \in Lens, sent \in 1..MaxLen : Ask(c, cmd, len, sent)
      BY <2>5
    <3>2. len \in 0..MaxLen /\ sent \in 0..MaxLen
      BY <1>0, <3>1, LongestCommand, ClientsConstants
    <3>3. [cl[c] EXCEPT !.cmd = cmd, !.len = len, !.sent = sent, !.read = 0, !.wait = TRUE] \in Client
      BY <1>0, <2>1, <3>1, <3>2 DEF Client
    <3> QED
      BY <1>1, <3>1, <3>3 DEF Ask, TypeOK
  <2> QED
    BY <1>2, <2>2, <2>3, <2>4, <2>5
<1> QED
  BY <1>3, <1>4 DEF TypeInv, TypeOK, Slotted, FdOf

\* What a step of main loop leaves alone, but for its own state and the pool
LEMMA SlottedKept ==
  ASSUME TypeInv, pool' \in [Slots -> Slot], th' \in [Threads -> Thread],
         \A s \in Slots : pool'[s].used => pool[s].used \/ pool'[s].fd \in Fds,
         \A s \in Slots : pool[s].fd \in Fds => pool'[s].fd \in Fds,
         \A t \in Threads : th'[t].pc # "none" =>
           \/ th[t].pc # "none" /\ th'[t].slot = th[t].slot
           \/ th'[t].slot \in Slots /\ pool'[th'[t].slot].fd \in Fds,
         main'.pc \in {"read", "drop", "lower", "clear"} =>
           main'.slot \in Slots /\ pool'[main'.slot].fd \in Fds
  PROVE  Slotted'
<1>1. \A s \in Slots : pool'[s].used => pool'[s].fd \in Fds
  BY DEF TypeInv, Slotted
<1>2. \A t \in Threads : th'[t].pc # "none" => th'[t].slot \in Slots /\ pool'[th'[t].slot].fd \in Fds
  BY DEF TypeInv, Slotted, FdOf
<1> QED
  BY <1>1, <1>2 DEF Slotted, FdOf

LEMMA DieKeepsTypes ==
  ASSUME TypeInv, Die, pool' \in [Slots -> Slot],
         \A s \in Slots : pool'[s].fd = pool[s].fd /\ (pool'[s].used => pool[s].used)
  PROVE  /\ file' \in [Fds -> Clients \cup {Null}] /\ cl' \in [Clients -> Client]
         /\ main' \in Main /\ th' \in [Threads -> Thread] /\ Slotted'
<1>1. /\ file' \in [Fds -> Clients \cup {Null}] /\ cl' \in [Clients -> Client]
      /\ main' \in Main /\ main'.pc = "dead"
      /\ th' = [t \in Threads |-> NoThread] /\ th' \in [Threads -> Thread]
  BY DieTypes DEF TypeInv
<1>2. \A t \in Threads : th'[t].pc = "none"
  BY <1>1 DEF NoThread
<1>3. Slotted'
  BY <1>1, <1>2, SlottedKept
<1> QED
  BY <1>1, <1>3

LEMMA CopyTypes == ASSUME TypeInv, Copy PROVE TypeInv'
<1>1. TypeOK
  BY DEF TypeInv
<1>2. main' = [AtTop EXCEPT !.pc = "select", !.set = rds, !.n = max_fd]
  BY DEF Copy
<1>3. main' \in Main /\ main'.pc = "select"
  BY <1>1, <1>2, AtTopTyped DEF Main, TypeOK
<1>4. TypeOK'
  BY <1>1, <1>3 DEF Copy, TypeOK
<1>5. Slotted'
  BY <1>3, <1>4 DEF TypeInv, Slotted, Copy, FdOf
<1> QED
  BY <1>4, <1>5 DEF TypeInv

LEMMA SelectTypes == ASSUME TypeInv, Select PROVE TypeInv'
<1>1. TypeOK
  BY DEF TypeInv
<1>2. UNCHANGED <<pool, rds, max_fd, cmds, visits, races>>
  BY DEF Select
<1>3. ending' \in {"no", "asked", "started", "over"}
  BY <1>1 DEF Select, TypeOK
<1>4. CASE Die
  <2>1. /\ file' \in [Fds -> Clients \cup {Null}] /\ cl' \in [Clients -> Client]
        /\ main' \in Main /\ th' \in [Threads -> Thread] /\ Slotted'
    BY <1>1, <1>2, <1>4, DieKeepsTypes DEF TypeOK
  <2> QED
    BY <1>1, <1>2, <1>3, <2>1 DEF TypeInv, TypeOK
<1>5. CASE ~Die
  <2>1. UNCHANGED <<file, cl, th>>
    BY <1>5 DEF Select
  <2> DEFINE ready == {f \in Watched : Readable(f)}
  <2>2. main' = [main EXCEPT !.pc = "scan", !.set = ready, !.n = 0] \/ main' = AtTop
    BY <1>5 DEF Select, Loop
  <2>3. ready \subseteq Fds \cup {CommandFd}
    BY <1>1 DEF Watched, TypeOK, Main
  <2> HIDE DEF ready
  <2>4. main' \in Main /\ main'.pc \in {"scan", "top"}
    <3>1. 0 \in 0..(NFds + 1)
      BY ClientsConstants
    <3>2. main \in Main
      BY <1>1 DEF TypeOK
    <3>3. CASE main' = [main EXCEPT !.pc = "scan", !.set = ready, !.n = 0]
      BY <2>3, <3>1, <3>2, <3>3 DEF Main
    <3>4. CASE main' = AtTop
      BY <3>4, AtTopTyped
    <3> QED
      BY <2>2, <3>3, <3>4
  <2> QED
    BY <1>1, <1>2, <1>3, <2>1, <2>4 DEF TypeInv, TypeOK, Slotted, FdOf
<1> QED
  BY <1>4, <1>5

LEMMA EndTypes == ASSUME TypeInv, End PROVE TypeInv'
<1>1. TypeOK
  BY DEF TypeInv
<1>2. \A s \in Slots : [pool[s] EXCEPT !.used = FALSE] \in Slot
  BY <1>1 DEF TypeOK, Slot
<1>3. TypeOK'
  BY <1>1, <1>2 DEF End, TypeOK
<1>4. \A s \in Slots : pool'[s].fd = pool[s].fd /\ ~pool'[s].used
  BY <1>1 DEF End, TypeOK, Slot
<1>5. Slotted'
  BY <1>3, <1>4 DEF TypeInv, Slotted, End, FdOf
<1> QED
  BY <1>3, <1>5 DEF TypeInv

LEMMA AcceptTypes == ASSUME TypeInv, Accept PROVE TypeInv'
<1>1. TypeOK
  BY DEF TypeInv
<1>2. main' = AtTop /\ UNCHANGED <<th, ending, cmds, visits>>
  BY DEF Accept, Loop
<1>3. PICK c \in Clients, f \in Fds :
       /\ file' = [file EXCEPT ![f] = c]
       /\ cl' = [cl EXCEPT ![c].st = "open"]
       /\ pool' = [s \in Slots |-> IF s \in FirstFree
                                   THEN [EmptySlot EXCEPT !.used = TRUE, !.fd = f] ELSE pool[s]]
       /\ AddFd(f)
       /\ races' = races \cup {x \in {"pool_full"} : FirstFree = {}}
                         \cup {x \in {"fd_reused"} : \E s \in Slots : pool[s].used /\ pool[s].fd = f}
  BY DEF Accept
<1>4. [EmptySlot EXCEPT !.used = TRUE, !.fd = f] \in Slot /\ [EmptySlot EXCEPT !.used = TRUE, !.fd = f].fd = f
  <2>1. 0 \in 0..MaxLen
    BY LongestCommand
  <2> QED
    BY <2>1 DEF EmptySlot, Slot
<1>5. pool' \in [Slots -> Slot] /\ \A s \in Slots : pool'[s] = pool[s] \/ pool'[s].fd = f
  BY <1>1, <1>3, <1>4 DEF TypeOK
<1>6. cl' \in [Clients -> Client]
  <2>1. [cl[c] EXCEPT !.st = "open"] \in Client
    BY <1>1 DEF TypeOK, Client
  <2> QED
    BY <1>1, <1>3, <2>1 DEF TypeOK
<1>7. file' \in [Fds -> Clients \cup {Null}]
  BY <1>1, <1>3 DEF TypeOK
<1>8. races' \subseteq RaceKinds
  BY <1>1, <1>3 DEF TypeOK, RaceKinds
<1>9. rds' \subseteq Fds \cup {CommandFd} /\ max_fd' \in 0..(NFds + 1)
  BY <1>1, <1>3, Adding
<1>10. TypeOK'
  BY <1>1, <1>2, <1>5, <1>6, <1>7, <1>8, <1>9, AtTopTyped DEF TypeOK
<1>11. Slotted'
  BY <1>1, <1>2, <1>5, <1>10, AtTopTyped, SlottedKept DEF TypeOK
<1> QED
  BY <1>10, <1>11 DEF TypeInv

LEMMA FindClientTypes == ASSUME TypeInv, FindClient PROVE TypeInv'
<1>1. TypeOK
  BY DEF TypeInv
<1> DEFINE found == {s \in Slots : pool[s].used /\ pool[s].fd \in main.set}
<1>2. \/ main' = AtTop
      \/ found # {} /\ main' = [main EXCEPT !.pc = "read", !.slot = Min(found)]
  BY DEF FindClient, Loop
<1>3. UNCHANGED <<pool, rds, max_fd, file, cl, th, ending, cmds, visits, races>>
  BY DEF FindClient
<1>4. found # {} => Min(found) \in found
  <2>1. found \subseteq Nat
    BY ClientsConstants DEF Slots
  <2> HIDE DEF found
  <2> QED
    BY <2>1, MinIs
<1>5. main' \in Main
  <2>1. \A s \in Slots : [main EXCEPT !.pc = "read", !.slot = s] \in Main
    BY <1>1 DEF TypeOK, Main
  <2>2. found \subseteq Slots
    OBVIOUS
  <2> HIDE DEF found
  <2> QED
    BY <1>2, <1>4, <2>1, <2>2, AtTopTyped
<1>6. main'.pc = "read" => main'.slot \in Slots /\ pool[main'.slot].fd \in Fds
  BY <1>1, <1>2, <1>4, AtTopTyped DEF TypeOK, Main, TypeInv, Slotted
<1>7. main'.pc \in {"top", "read"}
  BY <1>1, <1>2, AtTopTyped DEF TypeOK, Main
<1>8. TypeOK'
  BY <1>1, <1>3, <1>5 DEF TypeOK
<1>9. Slotted'
  BY <1>3, <1>6, <1>7 DEF TypeInv, Slotted, FdOf
<1> QED
  BY <1>8, <1>9 DEF TypeInv

LEMMA ReadEndTypes == ASSUME TypeInv, ReadEnd PROVE TypeInv'
<1>1. TypeOK
  BY DEF TypeInv
<1>2. main' \in Main /\ main'.pc = "drop" /\ main'.slot = main.slot
  BY <1>1 DEF ReadEnd, TypeOK, Main
<1>3. TypeOK'
  BY <1>1, <1>2 DEF ReadEnd, TypeOK
<1>4. Slotted'
  BY <1>2 DEF ReadEnd, MainAt, TypeInv, Slotted, FdOf
<1> QED
  BY <1>3, <1>4 DEF TypeInv

LEMMA ReadShortTypes == ASSUME TypeInv, ReadShort PROVE TypeInv'
<1>1. TypeOK
  BY DEF TypeInv
<1>2. Die /\ races' = races \cup {"short_header"} /\ UNCHANGED <<pool, rds, max_fd, ending, cmds, visits>>
  BY DEF ReadShort
<1>3. /\ file' \in [Fds -> Clients \cup {Null}] /\ cl' \in [Clients -> Client]
      /\ main' \in Main /\ th' \in [Threads -> Thread] /\ Slotted'
  BY <1>1, <1>2, DieKeepsTypes DEF TypeOK
<1>4. races' \subseteq RaceKinds
  BY <1>1, <1>2 DEF TypeOK, RaceKinds
<1> QED
  BY <1>1, <1>2, <1>3, <1>4 DEF TypeInv, TypeOK

\* A read() of the client at main loop's slot
LEMMA Reading ==
  ASSUME TypeInv, Reads
  PROVE  /\ main.pc = "read" /\ main.slot \in Slots /\ pool[main.slot].fd \in Fds
         /\ Peer \in Clients /\ cl[Peer].sent > cl[Peer].read
         /\ Amount \in Nat \ {0}
         /\ cl' = [cl EXCEPT ![Peer] = [cl[Peer] EXCEPT !.read = cl[Peer].read + Amount]]
         /\ cl' \in [Clients -> Client]
<1>0. MaxLen \in Nat
  BY LongestCommand
<1>1. TypeOK
  BY DEF TypeInv
<1>2. main.pc = "read" /\ main.slot \in Slots /\ pool[main.slot].fd \in Fds
  BY DEF Reads, MainAt, TypeInv, Slotted
<1>3. Peer \in Clients
  BY <1>1, <1>2 DEF Reads, Peer, TypeOK
<1>4. cl[Peer] \in Client
  BY <1>1, <1>3 DEF TypeOK
<1>5. cl[Peer].sent > cl[Peer].read /\ cl[Peer].sent \in 0..MaxLen /\ cl[Peer].read \in 0..MaxLen
  BY <1>4 DEF Reads, Client
<1>6. Amount \in Nat \ {0} /\ cl[Peer].read + Amount \in 0..MaxLen
  BY <1>0, <1>5 DEF Amount
<1>7. cl' = [cl EXCEPT ![Peer] = [cl[Peer] EXCEPT !.read = cl[Peer].read + Amount]]
  BY <1>1, <1>3, <1>4 DEF Reads, TypeOK, Client
<1>8. [cl[Peer] EXCEPT !.read = cl[Peer].read + Amount] \in Client
  BY <1>4, <1>6 DEF Client
<1> QED
  BY <1>1, <1>2, <1>3, <1>5, <1>6, <1>7, <1>8 DEF TypeOK

LEMMA ReadPartTypes == ASSUME TypeInv, ReadPart PROVE TypeInv'
<1>0. MaxLen \in Nat
  BY LongestCommand
<1>1. TypeOK /\ Reads
  BY DEF TypeInv, ReadPart
<1>2. /\ main.pc = "read" /\ main.slot \in Slots /\ pool[main.slot].fd \in Fds
      /\ Peer \in Clients /\ Amount \in Nat \ {0} /\ cl' \in [Clients -> Client]
  BY <1>1, Reading
<1>3. pool[main.slot] \in Slot /\ cl[Peer] \in Client
  BY <1>1, <1>2 DEF TypeOK
<1>4. pool[main.slot].size + Amount \in 0..MaxLen
  <2>1. pool[main.slot].size \in 0..MaxLen /\ cl[Peer].len \in 0..MaxLen
    BY <1>3 DEF Slot, Client
  <2>2. pool[main.slot].size + Amount < cl[Peer].len
    BY DEF ReadPart
  <2> QED
    BY <1>0, <1>2, <2>1, <2>2
<1>5. pool' = [pool EXCEPT ![main.slot] = [pool[main.slot] EXCEPT !.size = pool[main.slot].size + Amount]]
  BY <1>1, <1>2, <1>3 DEF ReadPart, TypeOK, Slot
<1>6. [pool[main.slot] EXCEPT !.size = pool[main.slot].size + Amount] \in Slot
  BY <1>3, <1>4 DEF Slot
<1>7. /\ pool' \in [Slots -> Slot]
      /\ \A s \in Slots : pool'[s].fd = pool[s].fd /\ pool'[s].used = pool[s].used
  BY <1>1, <1>3, <1>5, <1>6 DEF TypeOK, Slot
<1>8. /\ main' \in Main /\ main'.pc \in {"top", "clear"}
      /\ main'.pc = "clear" => main'.slot = main.slot
  <2>1. CASE main' = AtTop
    BY <2>1, AtTopTyped
  <2>2. CASE main' = [main EXCEPT !.pc = "clear", !.set = {}]
    BY <1>1, <2>2 DEF TypeOK, Main
  <2> QED
    BY <2>1, <2>2 DEF ReadPart, Loop
<1>9. races' \subseteq RaceKinds
  BY <1>1 DEF ReadPart, TypeOK, RaceKinds
<1>10. UNCHANGED <<rds, max_fd, file, th, ending, cmds, visits>>
  BY DEF ReadPart
<1>11. TypeOK'
  BY <1>1, <1>2, <1>7, <1>8, <1>9, <1>10 DEF TypeOK
<1>12. Slotted'
  BY <1>1, <1>2, <1>7, <1>8, <1>10, SlottedKept DEF TypeOK
<1> QED
  BY <1>11, <1>12 DEF TypeInv

LEMMA ReadAllTypes == ASSUME TypeInv, ReadAll PROVE TypeInv'
<1>0. 0 \in 0..MaxLen
  BY LongestCommand
<1>1. TypeOK /\ Reads
  BY DEF TypeInv, ReadAll
<1>2. /\ main.pc = "read" /\ main.slot \in Slots /\ pool[main.slot].fd \in Fds
      /\ cl' \in [Clients -> Client]
  BY <1>1, Reading
<1>3. pool' = [pool EXCEPT ![main.slot].size = 0]
  BY DEF ReadAll
<1>4. /\ pool' \in [Slots -> Slot]
      /\ \A s \in Slots : pool'[s].fd = pool[s].fd /\ pool'[s].used = pool[s].used
  BY <1>0, <1>1, <1>2, <1>3 DEF TypeOK, Slot
<1>5. rds' \subseteq Fds \cup {CommandFd}
  BY <1>1 DEF ReadAll, TypeOK
<1>6. Highest(rds') \in 0..NFds
  BY <1>5, HighestIs
<1>7. main' = [main EXCEPT !.pc = "lower", !.set = {}, !.top = Highest(rds')]
  BY DEF ReadAll
<1>8. main' \in Main /\ main'.pc = "lower" /\ main'.slot = main.slot
  BY <1>1, <1>6, <1>7 DEF TypeOK, Main
<1>9. UNCHANGED <<max_fd, file, th, ending, cmds, visits, races>>
  BY DEF ReadAll
<1>10. TypeOK'
  BY <1>1, <1>2, <1>4, <1>5, <1>8, <1>9 DEF TypeOK
<1>11. Slotted'
  BY <1>1, <1>2, <1>4, <1>8, <1>9, SlottedKept DEF TypeOK
<1> QED
  BY <1>10, <1>11 DEF TypeInv

\* The last lines of rm_fd()
LEMMA Lowering ==
  ASSUME TypeOK, NEW top \in 0..NFds, LowerMaxFd(top)
  PROVE  max_fd' \in 0..(NFds + 1) /\ max_fd' = top + 1 /\ races' \subseteq RaceKinds
<1>1. NFds \in Nat
  BY ClientsConstants
<1>2. races' \subseteq RaceKinds
  BY DEF LowerMaxFd, TypeOK, RaceKinds
<1> QED
  BY <1>1, <1>2 DEF LowerMaxFd

LEMMA StartThreadTypes == ASSUME TypeInv, StartThread PROVE TypeInv'
<1>0. NFds \in Nat /\ 0 \in 0..NFds
  BY ClientsConstants
<1>1. TypeOK /\ main.pc = "lower" /\ main.slot \in Slots /\ pool[main.slot].fd \in Fds
  BY DEF TypeInv, Slotted, StartThread, MainAt
<1>2. main.top \in 0..NFds /\ LowerMaxFd(main.top)
  BY <1>1 DEF TypeOK, Main, StartThread
<1>3. max_fd' \in 0..(NFds + 1) /\ races' \subseteq RaceKinds
  BY <1>1, <1>2, Lowering
<1>4. PICK t \in Threads :
        th' = [th EXCEPT ![t] = [NoThread EXCEPT !.pc = "work", !.slot = main.slot, !.who = Peer]]
  BY DEF StartThread
<1>5. Peer \in Clients \cup {Null}
  BY <1>1 DEF Peer, TypeOK
<1>6. [NoThread EXCEPT !.pc = "work", !.slot = main.slot, !.who = Peer] \in Thread
  BY <1>0, <1>1, <1>5 DEF NoThread, Thread
<1>7. [NoThread EXCEPT !.pc = "work", !.slot = main.slot, !.who = Peer].slot = main.slot
  BY DEF NoThread
<1>8. /\ th' \in [Threads -> Thread]
      /\ \A u \in Threads : th'[u] = th[u] \/ th'[u].slot = main.slot
  BY <1>1, <1>4, <1>6, <1>7 DEF TypeOK
<1>9. pool' = [pool EXCEPT ![main.slot].ran = TRUE]
  BY DEF StartThread
<1>10. /\ pool' \in [Slots -> Slot]
       /\ \A s \in Slots : pool'[s].fd = pool[s].fd /\ pool'[s].used = pool[s].used
  BY <1>1, <1>9 DEF TypeOK, Slot
<1>11. main' \in Main /\ main'.pc = "clear" /\ main'.slot = main.slot
  BY <1>0, <1>1 DEF StartThread, TypeOK, Main
<1>12. UNCHANGED <<rds, file, cl, ending, cmds, visits>>
  BY DEF StartThread
<1>13. TypeOK'
  BY <1>1, <1>3, <1>8, <1>10, <1>11, <1>12 DEF TypeOK
<1>14. Slotted'
  BY <1>1, <1>8, <1>10, <1>11, SlottedKept
<1> QED
  BY <1>13, <1>14 DEF TypeInv

LEMMA ClearTypes == ASSUME TypeInv, Clear PROVE TypeInv'
<1>1. TypeOK
  BY DEF TypeInv
<1>2. main' = AtTop /\ UNCHANGED <<pool, max_fd, file, cl, th, ending, cmds, visits>>
  BY DEF Clear, Loop
<1>3. rds' \subseteq Fds \cup {CommandFd} /\ races' \subseteq RaceKinds
  BY <1>1 DEF Clear, TypeOK, RaceKinds
<1>4. TypeOK'
  BY <1>1, <1>2, <1>3, AtTopTyped DEF TypeOK
<1>5. Slotted'
  BY <1>2, AtTopTyped DEF TypeInv, Slotted, FdOf
<1> QED
  BY <1>4, <1>5 DEF TypeInv

LEMMA DropTypes == ASSUME TypeInv, Drop PROVE TypeInv'
<1>0. NFds \in Nat
  BY ClientsConstants
<1>1. TypeOK /\ main.slot \in Slots
  BY DEF TypeInv, Slotted, Drop, MainAt
<1> DEFINE s == main.slot
           f == pool[s].fd
           S == {g \in main.set : g <= max_fd}
<1>2. rds' \subseteq Fds \cup {CommandFd} /\ races' \subseteq RaceKinds
  BY <1>1 DEF Drop, TypeOK, RaceKinds
<1>3. max_fd' \in 0..(NFds + 1)
  <2>1. max_fd' = IF S # {} THEN Max(S) ELSE max_fd
    BY DEF Drop
  <2>2. Fds \cup {CommandFd} \subseteq 0..(NFds + 1)
    BY <1>0 DEF Fds, CommandFd
  <2>3. S \subseteq Fds \cup {CommandFd}
    BY <1>1 DEF TypeOK, Main
  <2> HIDE DEF S
  <2>4. S # {} => Max(S) \in 0..(NFds + 1)
    BY <1>0, <2>2, <2>3, MaxIs
  <2> QED
    BY <1>1, <2>1, <2>4 DEF TypeOK
<1>4. pool' = [pool EXCEPT ![s].used = FALSE]
  BY DEF Drop
<1>5. /\ pool' \in [Slots -> Slot]
      /\ \A r \in Slots : pool'[r].fd = pool[r].fd /\ (pool'[r].used => pool[r].used)
  <2>1. [pool[s] EXCEPT !.used = FALSE] \in Slot /\ s \in Slots
    BY <1>1 DEF TypeOK, Slot
  <2>2. PICK r \in Slot : r = [pool[s] EXCEPT !.used = FALSE]
    BY <2>1
  <2>3. r.fd = pool[s].fd /\ ~r.used
    BY <1>1, <2>1, <2>2 DEF TypeOK, Slot
  <2> HIDE DEF s
  <2>4. pool' = [pool EXCEPT ![s] = r]
    BY <1>4, <2>2
  <2> QED
    BY <1>1, <2>1, <2>3, <2>4 DEF TypeOK
<1>6. /\ file' \in [Fds -> Clients \cup {Null}] /\ cl' \in [Clients -> Client]
      /\ main' \in Main /\ th' \in [Threads -> Thread] /\ Slotted'
  <2>1. CASE Die
    BY <1>5, <2>1, DieKeepsTypes
  <2>2. CASE Closed(f) /\ Loop /\ UNCHANGED th
    <3>1. file' \in [Fds -> Clients \cup {Null}] /\ cl' \in [Clients -> Client]
      BY <1>1, <2>2, Closing1
    <3>2. main' \in Main /\ main'.pc = "top"
      BY <2>2, AtTopTyped DEF Loop
    <3>3. Slotted'
      BY <1>1, <1>5, <2>2, <3>2, SlottedKept DEF TypeOK
    <3> QED
      BY <1>1, <2>2, <3>1, <3>2, <3>3 DEF TypeOK
  <2> QED
    BY <2>1, <2>2 DEF Drop
<1>7. UNCHANGED <<ending, cmds, visits>>
  BY DEF Drop
<1> QED
  BY <1>1, <1>2, <1>3, <1>5, <1>6, <1>7 DEF TypeInv, TypeOK

\* A step of a command thread
LEMMA RunTypes == ASSUME TypeInv, NEW t \in Threads, Run(t) PROVE TypeInv'
<1>0. /\ NFds \in Nat /\ 0 \in 0..MaxLen
      /\ NoThread \in Thread /\ NoThread.pc = "none"
  <2>1. NFds \in Nat /\ 0 \in 0..NFds /\ 0 \in 0..MaxLen
    BY ClientsConstants, LongestCommand
  <2> QED
    BY <2>1 DEF NoThread, Thread
<1>1. TypeOK /\ th[t] \in Thread
  BY DEF TypeInv, TypeOK
<1>2. /\ cmds' = cmds /\ visits' = visits /\ main' = main
      /\ ending' \in {"no", "asked", "started", "over"}
  BY <1>1 DEF Run, Answer, Mute, Exit, Continue, Reset, Close, Unadd, Lower, Shut, RemoveClient, TypeOK
<1>3. th[t].pc # "none" /\ th[t].slot \in Slots /\ FdOf(t) \in Fds
  <2>1. th[t].pc # "none"
    BY DEF Run, Answer, Mute, Exit, Continue, Reset, Close, Unadd, Lower, Shut, RemoveClient, At
  <2> QED
    BY <2>1 DEF TypeInv, Slotted
<1>4. /\ th' \in [Threads -> Thread]
      /\ \A u \in Threads : th'[u].pc # "none" => th[u].pc # "none" /\ th'[u].slot = th[u].slot
  <2>1. ASSUME NEW pc \in {"readd", "reset", "close", "unadd", "lower", "shut", "remove"}, Goto(t, pc)
        PROVE  /\ th' \in [Threads -> Thread]
               /\ \A u \in Threads : th'[u].pc # "none" => th[u].pc # "none" /\ th'[u].slot = th[u].slot
    <3>1. [th[t] EXCEPT !.pc = pc] \in Thread
      BY <1>1 DEF Thread
    <3>2. th' = [th EXCEPT ![t] = [th[t] EXCEPT !.pc = pc]]
      BY <1>1, <2>1 DEF Goto, TypeOK
    <3> QED
      BY <1>1, <1>3, <3>1, <3>2 DEF TypeOK, Thread
  <2>2. CASE Finish(t)
    BY <1>0, <1>1, <2>2 DEF Finish, TypeOK
  <2>3. CASE Unadd(t)
    <3>1. rds' \subseteq Fds \cup {CommandFd}
      BY <1>1, <2>3 DEF Unadd, TypeOK
    <3>2. Highest(rds') \in 0..NFds
      BY <3>1, HighestIs
    <3>3. [th[t] EXCEPT !.pc = "lower", !.top = Highest(rds')] \in Thread
      BY <1>1, <3>2 DEF Thread
    <3>4. th' = [th EXCEPT ![t] = [th[t] EXCEPT !.pc = "lower", !.top = Highest(rds')]]
      BY <1>1, <2>3 DEF Unadd, TypeOK, Thread
    <3> QED
      BY <1>1, <1>3, <3>3, <3>4 DEF TypeOK, Thread
  <2>4. \/ Finish(t) \/ Unadd(t)
        \/ \E pc \in {"readd", "reset", "close", "unadd", "lower", "shut", "remove"} : Goto(t, pc)
    BY DEF Run, Answer, Mute, Exit, Continue, Reset, Close, Lower, Shut, RemoveClient
  <2> QED
    BY <2>1, <2>2, <2>3, <2>4
<1>5. /\ pool' \in [Slots -> Slot]
      /\ \A s \in Slots : pool'[s].fd = pool[s].fd /\ (pool'[s].used => pool[s].used)
  <2>1. CASE pool' = [pool EXCEPT ![th[t].slot].size = 0]
    BY <1>0, <1>1, <1>3, <2>1 DEF TypeOK, Slot
  <2>2. CASE pool' = [pool EXCEPT ![th[t].slot].used = FALSE]
    <3>1. PICK s \in Slots : s = th[t].slot
      BY <1>3
    <3>2. PICK r : r = [pool[s] EXCEPT !.used = FALSE]
      OBVIOUS
    <3>3. r \in Slot /\ r.fd = pool[s].fd /\ ~r.used
      BY <1>1, <3>2 DEF TypeOK, Slot
    <3>4. pool' = [pool EXCEPT ![s] = r]
      BY <2>2, <3>1, <3>2
    <3> QED
      BY <1>1, <3>3, <3>4 DEF TypeOK
  <2>3. CASE pool' = pool
    BY <1>1, <2>3 DEF TypeOK
  <2> QED
    BY <2>1, <2>2, <2>3 DEF Run, Answer, Mute, Exit, Continue, Reset, Close, Unadd, Lower, Shut, RemoveClient
<1>6. Slotted'
  <2>1. main'.pc \in {"read", "drop", "lower", "clear"} =>
           main'.slot \in Slots /\ pool'[main'.slot].fd \in Fds
    BY <1>2, <1>5 DEF TypeInv, Slotted
  <2> QED
    BY <1>3, <1>4, <1>5, <2>1, SlottedKept
<1>7. rds' \subseteq Fds \cup {CommandFd} /\ max_fd' \in 0..(NFds + 1) /\ races' \subseteq RaceKinds
  <2>1. CASE AddFd(FdOf(t)) /\ races' = races
    BY <1>1, <1>3, <2>1, Adding DEF TypeOK
  <2>2. CASE Lower(t)
    <3>1. th[t].top \in 0..NFds /\ rds' = rds
      BY <1>1, <2>2 DEF Thread, Lower
    <3> QED
      BY <1>1, <2>2, <3>1, Lowering DEF Lower, TypeOK
  <2>3. CASE Reset(t)
    BY <1>1, <2>3 DEF Reset, TypeOK, RaceKinds
  <2>4. CASE rds' \subseteq rds /\ max_fd' = max_fd /\ races' = races
    BY <1>1, <2>4 DEF TypeOK
  <2> QED
    BY <2>1, <2>2, <2>3, <2>4 DEF Run, Answer, Mute, Exit, Continue, Close, Unadd, Shut, RemoveClient
<1>8. file' \in [Fds -> Clients \cup {Null}] /\ cl' \in [Clients -> Client]
  <2>1. CASE Shut(t)
    BY <1>1, <2>1, Closing1 DEF Shut
  <2>2. CASE Answer(t)
    <3> DEFINE c == file[FdOf(t)]
    <3>1. file' = file /\ (cl' = IF c = Null THEN cl ELSE [cl EXCEPT ![c] = [@ EXCEPT !.wait = FALSE, !.len = 0,
                                                        !.sent = 0, !.read = 0]])
      BY <2>2 DEF Answer
    <3>2. c \in Clients \cup {Null}
      BY <1>1, <1>3 DEF TypeOK
    <3>3. c \in Clients => [cl[c] EXCEPT !.wait = FALSE, !.len = 0, !.sent = 0, !.read = 0] \in Client
      <4> HIDE DEF c
      <4>1. c \in Clients => cl[c] \in Client
        BY <1>1 DEF TypeOK
      <4>2. \A x \in Client : [x EXCEPT !.wait = FALSE, !.len = 0, !.sent = 0, !.read = 0] \in Client
        BY <1>0 DEF Client
      <4> QED
        BY <4>1, <4>2
    <3> HIDE DEF c
    <3> QED
      BY <1>1, <3>1, <3>2, <3>3 DEF TypeOK
  <2>3. CASE Mute(t)
    <3>1. file' = file /\ cl' = [cl EXCEPT ![th[t].who] = [@ EXCEPT !.len = 0, !.sent = 0, !.read = 0]]
      BY <2>3 DEF Mute
    <3>2. \A c \in Clients : [cl[c] EXCEPT !.len = 0, !.sent = 0, !.read = 0] \in Client
      BY <1>0, <1>1 DEF TypeOK, Client
    <3> QED
      BY <1>1, <3>1, <3>2 DEF TypeOK
  <2>4. CASE file' = file /\ cl' = cl
    BY <1>1, <2>4 DEF TypeOK
  <2> QED
    BY <2>1, <2>2, <2>3, <2>4 DEF Run, Exit, Continue, Reset, Close, Unadd, Lower, RemoveClient
<1> QED
  BY <1>1, <1>2, <1>4, <1>5, <1>6, <1>7, <1>8 DEF TypeInv, TypeOK

LEMMA NextTypes == TypeInv /\ [Next]_vars => TypeInv'
<1> SUFFICES ASSUME TypeInv, [Next]_vars PROVE TypeInv'
  OBVIOUS
<1>1. CASE ClientStep
  BY <1>1, ClientStepTypes
<1>2. CASE MainLoop
  BY <1>2, CopyTypes, SelectTypes, AcceptTypes, FindClientTypes, ReadEndTypes, ReadShortTypes,
     ReadPartTypes, ReadAllTypes, StartThreadTypes, ClearTypes, DropTypes DEF MainLoop
<1>3. CASE End
  BY <1>3, EndTypes
<1>4. CASE \E t \in Threads : Run(t)
  BY <1>4, RunTypes
<1>5. CASE UNCHANGED vars
  BY <1>5 DEF vars, TypeInv, TypeOK, Slotted, FdOf
<1> QED
  BY <1>1, <1>2, <1>3, <1>4, <1>5 DEF Next

\* The pool, the descriptor set and its bound, the descriptors, the connections, main
\* loop and every command thread stay within the types the code gives them.
THEOREM ClientsTypes == Spec => []TypeOK
<1>1. TypeInv => TypeOK
  BY DEF TypeInv
<1> QED
  BY <1>1, InitTypes, NextTypes, PTL DEF Spec

-----------------------------------------------------------------------------
(* The invariant: clients *)

\* A mute command's client stays forgotten while it keeps its descriptor and sends
\* nothing more.
LEMMA StillForgotten ==
  ASSUME TypeInv, NEW s \in Slots, pool[s].used, Forgotten(s),
         pool'[s].fd = pool[s].fd, file'[pool[s].fd] = file[pool[s].fd],
         \A c \in Clients :
           (\E f \in Fds : file[f] = c) /\ cl[c].cmd = "mute" /\ cl[c].len = 0
             => cl'[c].cmd = "mute" /\ cl'[c].len = 0
  PROVE  Forgotten(s)'
<1>1. pool[s].fd \in Fds
  BY DEF TypeInv, Slotted
<1>2. file[pool[s].fd] \in Clients
  BY <1>1 DEF TypeInv, TypeOK, Forgotten
<1>3. cl'[file[pool[s].fd]].cmd = "mute" /\ cl'[file[pool[s].fd]].len = 0
  BY <1>1, <1>2 DEF Forgotten
<1> QED
  BY <1>3 DEF Forgotten

LEMMA ClientStepKeeps ==
  ASSUME TypeInv, InOrder, ClientStep
  PROVE  InOrder'
<1>1. PICK c \in Clients :
        \/ Connect(c) \/ Arrive(c) \/ Leave(c)
        \/ \E cmd \in Commands, len \in Lens, sent \in 1..MaxLen : Ask(c, cmd, len, sent)
  BY DEF ClientStep
<1>2. UNCHANGED <<pool, rds, max_fd, file, main, th, ending, races>>
  BY <1>1, Zenon DEF Connect, Arrive, Leave, Ask
<1>3. cl \in [Clients -> Client] /\ \A d \in Clients : d # c => cl'[d] = cl[d]
  BY <1>1 DEF TypeInv, TypeOK, Connect, Arrive, Leave, Ask
<1>4. cl'[c].st = "queued" => \A f \in Fds : file[f] # c
  <2>1. CASE Connect(c)
    BY <2>1 DEF Connect
  <2>2. CASE ~Connect(c)
    <3>0. cl[c] \in Client
      BY DEF TypeInv, TypeOK
    <3>1. CASE Arrive(c)
      BY <1>3, <3>0, <3>1 DEF Arrive, Client, InOrder, Distinct
    <3>2. CASE Leave(c)
      BY <1>3, <3>0, <3>2 DEF Leave, Client
    <3>3. CASE \E cmd \in Commands, len \in Lens, sent \in 1..MaxLen : Ask(c, cmd, len, sent)
      <4>1. PICK cmd \in Commands, len \in Lens, sent \in 1..MaxLen : Ask(c, cmd, len, sent)
        BY <3>3
      <4>2. cl'[c].st = cl[c].st
        BY <1>3, <3>0, <4>1 DEF Ask, Client
      <4> QED
        BY <4>2 DEF InOrder, Distinct
    <3> QED
      BY <1>1, <2>2, <3>1, <3>2, <3>3
  <2> QED
    BY <2>1, <2>2
<1>5. ASSUME \E f \in Fds : file[f] = c, cl[c].cmd = "close", cl[c].sent = cl[c].read, ~cl[c].wait
      PROVE  cl'[c].cmd = "close" /\ cl'[c].sent = cl'[c].read /\ ~cl'[c].wait
  <2>1. ~Connect(c)
    BY <1>5 DEF Connect
  <2>2. ~Arrive(c)
    BY <1>5 DEF Arrive
  <2>3. \A cmd, len, sent : ~Ask(c, cmd, len, sent)
    BY <1>5 DEF Ask
  <2>4. Leave(c)
    BY <1>1, <2>1, <2>2, <2>3
  <2> QED
    BY <1>3, <1>5, <2>4 DEF Leave, Client
<1>6. Distinct'
  BY <1>2, <1>3, <1>4 DEF InOrder, Distinct
<1>7. ASSUME NEW t \in Threads PROVE OwnClient(t)'
  <2>1. OwnClient(t) /\ (th[t].pc # "none" => FdOf(t) \in Fds)
    BY DEF InOrder, TypeInv, Slotted
  <2>2. FdOf(t)' = FdOf(t) /\ Seen(t)' = Seen(t)
    BY <1>2 DEF FdOf, Seen
  <2>3. th[t].pc \in {"close", "unadd", "lower", "shut"} => Quiet(t)'
    <3> SUFFICES ASSUME th[t].pc \in {"close", "unadd", "lower", "shut"} PROVE Quiet(t)'
      OBVIOUS
    <3>1. /\ th[t].who \in Clients /\ file[FdOf(t)] = th[t].who /\ FdOf(t) \in Fds
          /\ Quiet(t)
      BY <2>1 DEF OwnClient, Busy, Closing
    <3>2. CASE th[t].who = c
      BY <1>2, <1>5, <3>1, <3>2 DEF Quiet
    <3>3. CASE th[t].who # c
      BY <1>2, <1>3, <3>1, <3>3 DEF Quiet
    <3> QED
      BY <3>2, <3>3
  <2> QED
    BY <1>2, <2>1, <2>2, <2>3 DEF OwnClient
<1>8. Selectable' /\ MainsClient'
  BY <1>2 DEF InOrder, Selectable, MainsClient
<1>9. ASSUME \E f \in Fds : file[f] = c, cl[c].cmd = "mute", cl[c].len = 0
      PROVE  cl'[c].cmd = "mute" /\ cl'[c].len = 0
  <2>0. cl[c] \in Client
    BY DEF TypeInv, TypeOK
  <2>1. ~Connect(c) /\ \A cmd, len, sent : ~Ask(c, cmd, len, sent)
    BY <1>9 DEF Connect, Ask
  <2>2. CASE Arrive(c)
    BY <1>3, <1>9, <2>0, <2>2 DEF Arrive, Client
  <2>3. CASE Leave(c)
    BY <1>3, <1>9, <2>0, <2>3 DEF Leave, Client
  <2> QED
    BY <1>1, <2>1, <2>2, <2>3
<1>10. Listened'
  <2> SUFFICES ASSUME ending = "no", NEW s \in Slots, pool[s].used, ~Forgotten(s)',
                      \A t \in Threads : ~BusyOn(t, s), ~(main.pc = "lower" /\ main.slot = s)
               PROVE  pool[s].fd \in rds
    BY <1>2 DEF Listened, BusyOn
  <2>1. ~Forgotten(s)
    BY <1>2, <1>3, <1>9, StillForgotten
  <2> QED
    BY <2>1 DEF InOrder, Listened
<1> QED
  BY <1>6, <1>7, <1>8, <1>10 DEF InOrder

-----------------------------------------------------------------------------
(* The invariant: main loop *)

\* A step that leaves the pool, the descriptors, the connections, their threads and the
\* end alone, and main loop somewhere where it may come to fewer slots.
LEMMA MainMoves ==
  ASSUME TypeInv, InOrder, UNCHANGED <<pool, rds, max_fd, file, cl, th>>,
         ending' = "no" => ending = "no",
         main.pc # "lower", main'.pc # "lower",
         \A t \in Threads : th[t].pc \in Busy /\ Seen(t)' => th[t].pc \in Closing,
         main'.pc \in {"read", "drop"} => MainsClient'
  PROVE  InOrder'
<1>1. Distinct' /\ Selectable'
  BY DEF InOrder, Distinct, Selectable
<1>2. MainsClient'
  BY DEF MainsClient
<1>3. Listened'
  BY DEF InOrder, Listened, BusyOn, Forgotten
<1>4. ASSUME NEW t \in Threads PROVE OwnClient(t)'
  <2>1. OwnClient(t) /\ FdOf(t)' = FdOf(t) /\ Quiet(t)' = Quiet(t)
    BY DEF InOrder, FdOf, Quiet
  <2> QED
    BY <2>1 DEF OwnClient
<1> QED
  BY <1>1, <1>2, <1>3, <1>4 DEF InOrder

LEMMA CopyKeeps ==
  ASSUME TypeInv, InOrder, Copy
  PROVE  InOrder'
<1>1. main.pc = "top" /\ main' = [AtTop EXCEPT !.pc = "select", !.set = rds, !.n = max_fd]
  BY DEF Copy, MainAt
<1>2. main'.pc = "select" /\ main'.set = rds
  BY <1>1, AtTopTyped DEF Main
<1>3. UNCHANGED <<pool, rds, max_fd, file, cl, th, ending>>
  BY DEF Copy
<1>4. ASSUME NEW t \in Threads, th[t].pc \in Busy, Seen(t)' PROVE th[t].pc \in Closing
  <2>1. FdOf(t) \in rds
    BY <1>2, <1>3, <1>4 DEF Seen, FdOf
  <2>2. th[t].pc = "unadd"
    BY <1>4, <2>1 DEF InOrder, OwnClient
  <2> QED
    BY <2>2 DEF Closing
<1> QED
  BY <1>1, <1>2, <1>3, <1>4, MainMoves

LEMMA SelectKeeps ==
  ASSUME TypeInv, InOrder, Select, ~MainAt("dead")'
  PROVE  InOrder'
<1>1. main \in Main /\ main.pc = "select"
  BY DEF TypeInv, TypeOK, Select, MainAt
<1>2. ~Die
  BY AtTopTyped DEF Die, MainAt, Main
<1>3. /\ UNCHANGED <<pool, rds, max_fd, file, cl, th>>
      /\ ending' = "no" => ending = "no"
  BY <1>2 DEF Select
<1> DEFINE ready == {f \in Watched : Readable(f)}
<1>4. main' = [main EXCEPT !.pc = "scan", !.set = ready, !.n = 0] \/ main' = AtTop
  BY <1>2 DEF Select, Loop
<1>5. ready \subseteq main.set
  BY DEF Watched
<1> HIDE DEF ready
<1>6. main'.pc \in {"scan", "top"} /\ (main'.pc = "scan" => main'.set \subseteq main.set)
  BY <1>1, <1>4, <1>5, AtTopTyped DEF Main
<1>7. ASSUME NEW t \in Threads, th[t].pc \in Busy, Seen(t)' PROVE th[t].pc \in Closing
  <2>1. Seen(t)
    BY <1>1, <1>3, <1>6, <1>7 DEF Seen, FdOf
  <2> QED
    BY <1>7, <2>1 DEF InOrder, OwnClient
<1> QED
  BY <1>1, <1>3, <1>6, <1>7, MainMoves

LEMMA FindClientKeeps ==
  ASSUME TypeInv, InOrder, FindClient
  PROVE  InOrder'
<1>1. main \in Main /\ main.pc = "scan"
  BY DEF TypeInv, TypeOK, FindClient, MainAt
<1> DEFINE found == {s \in Slots : pool[s].used /\ pool[s].fd \in main.set}
<1>2. \/ main' = AtTop
      \/ found # {} /\ main' = [main EXCEPT !.pc = "read", !.slot = Min(found)]
  BY DEF FindClient, Loop
<1>3. UNCHANGED <<pool, rds, max_fd, file, cl, th, ending>>
  BY DEF FindClient
<1>4. found # {} => Min(found) \in found
  <2>1. found \subseteq Nat
    BY ClientsConstants DEF Slots
  <2> HIDE DEF found
  <2> QED
    BY <2>1, MinIs
<1>5. \/ main'.pc = "top"
      \/ /\ main'.pc = "read" /\ main'.slot \in Slots
         /\ pool[main'.slot].used /\ pool[main'.slot].fd \in main.set
  BY <1>1, <1>2, <1>4, AtTopTyped DEF Main
<1>6. ASSUME NEW t \in Threads, th[t].pc \in Busy, Seen(t)' PROVE th[t].pc \in Closing
  <2>1. Seen(t)
    BY <1>1, <1>3, <1>5, <1>6 DEF Seen, FdOf
  <2> QED
    BY <1>6, <2>1 DEF InOrder, OwnClient
<1>7. main'.pc = "read" => MainsClient'
  BY <1>3, <1>5 DEF InOrder, Distinct, MainsClient
<1> QED
  BY <1>1, <1>3, <1>5, <1>6, <1>7, MainMoves

LEMMA ReadEndKeeps ==
  ASSUME TypeInv, InOrder, ReadEnd
  PROVE  InOrder'
<1>1. main \in Main /\ main.pc = "read" /\ main' = [main EXCEPT !.pc = "drop"]
  BY DEF TypeInv, TypeOK, ReadEnd, MainAt
<1>2. UNCHANGED <<pool, rds, max_fd, file, cl, th, ending>>
  BY DEF ReadEnd
<1>3. main'.pc = "drop" /\ main'.slot = main.slot
  BY <1>1 DEF Main
<1>4. ASSUME NEW t \in Threads, th[t].pc \in Busy, Seen(t)' PROVE th[t].pc \in Closing
  <2>1. Seen(t)
    BY <1>1, <1>2, <1>3, <1>4 DEF Seen
  <2> QED
    BY <1>4, <2>1 DEF InOrder, OwnClient
<1>5. MainsClient'
  BY <1>1, <1>2, <1>3 DEF InOrder, MainsClient
<1> QED
  BY <1>1, <1>2, <1>3, <1>4, <1>5, MainMoves

LEMMA AcceptKeeps ==
  ASSUME TypeInv, TypeInv', InOrder, Accept, races' = {}
  PROVE  InOrder'
<1>1. TypeOK /\ main' = AtTop /\ main.pc = "scan" /\ UNCHANGED <<th, ending>>
  BY DEF TypeInv, Accept, Loop, MainAt
<1>2. PICK c \in Clients, f \in Fds :
       /\ cl[c].st = "queued" /\ file[f] = Null
       /\ file' = [file EXCEPT ![f] = c]
       /\ cl' = [cl EXCEPT ![c].st = "open"]
       /\ pool' = [s \in Slots |-> IF s \in FirstFree
                                   THEN [EmptySlot EXCEPT !.used = TRUE, !.fd = f] ELSE pool[s]]
       /\ AddFd(f)
       /\ races' = races \cup {x \in {"pool_full"} : FirstFree = {}}
                         \cup {x \in {"fd_reused"} : \E s \in Slots : pool[s].used /\ pool[s].fd = f}
  BY DEF Accept
<1>3. PICK new \in FirstFree : new \in Slots /\ ~pool[new].used
  BY <1>2 DEF FirstFree
<1>4. FirstFree = {new}
  <2>1. \A s \in FirstFree : s = new
    <3> SUFFICES ASSUME NEW s \in FirstFree PROVE s = new
      OBVIOUS
    <3>1. s \in Nat /\ new \in Nat /\ s >= 1 /\ new >= 1
      BY <1>3, ClientsConstants DEF FirstFree, Slots
    <3>2. ~(new < s)
      BY <1>3, <3>1 DEF FirstFree
    <3>3. ~(s < new)
      BY <1>3, <3>1 DEF FirstFree
    <3> QED
      BY <3>1, <3>2, <3>3
  <2> QED
    BY <2>1
<1>5. /\ pool'[new].used /\ pool'[new].fd = f
      /\ \A s \in Slots : s # new => pool'[s] = pool[s]
  BY <1>2, <1>3, <1>4 DEF EmptySlot
<1>6. \A s \in Slots : pool[s].used => pool[s].fd # f /\ s # new
  BY <1>2, <1>3
<1>7. file'[f] = c /\ \A g \in Fds : g # f => file'[g] = file[g]
  BY <1>1, <1>2 DEF TypeOK
<1>8. /\ cl'[c].st = "open" /\ cl'[c].cmd = cl[c].cmd /\ cl'[c].sent = cl[c].sent
      /\ cl'[c].read = cl[c].read /\ cl'[c].wait = cl[c].wait
      /\ \A d \in Clients : d # c => cl'[d] = cl[d]
  BY <1>1, <1>2 DEF TypeOK, Client
<1>9. \A g \in Fds : file[g] # c
  BY <1>2 DEF InOrder, Distinct
<1>10. rds' = rds \cup {f} /\ max_fd' \in Nat /\ max_fd \in Nat /\ max_fd' >= max_fd /\ max_fd' >= f + 1
  <2>1. NFds \in Nat
    BY ClientsConstants
  <2> QED
    BY <1>1, <1>2, <2>1, Adding DEF TypeOK
<1>11. Distinct'
  <2>1. \A r, s \in Slots : pool'[r].used /\ pool'[s].used /\ pool'[r].fd = pool'[s].fd => r = s
    BY <1>5, <1>6 DEF InOrder, Distinct
  <2>2. \A g, h \in Fds : file'[g] # Null /\ file'[g] = file'[h] => g = h
    BY <1>7, <1>9 DEF InOrder, Distinct
  <2>3. \A d \in Clients : cl'[d].st = "queued" => \A g \in Fds : file'[g] # d
    BY <1>7, <1>8 DEF InOrder, Distinct
  <2> QED
    BY <2>1, <2>2, <2>3 DEF Distinct
<1>12. Selectable'
  <2>1. \A g \in rds' \ {CommandFd} : file'[g] # Null
    <3>1. rds \subseteq Fds \cup {CommandFd} /\ c # Null
      BY <1>1, ClientsConstants DEF TypeOK
    <3> QED
      BY <1>7, <1>10, <3>1 DEF InOrder, Selectable
  <2>2. \A g \in rds' : g < max_fd'
    <3>1. rds \subseteq Nat /\ f \in Nat
      BY <1>1, ClientsConstants DEF TypeOK, Fds, CommandFd
    <3> QED
      BY <1>10, <3>1 DEF InOrder, Selectable
  <2> QED
    BY <2>1, <2>2 DEF Selectable
<1>13. ASSUME NEW t \in Threads PROVE OwnClient(t)'
  <2> SUFFICES ASSUME th[t].pc \in Busy PROVE OwnClient(t)'
    BY <1>1 DEF OwnClient
  <2>1. OwnClient(t) /\ th[t].slot \in Slots /\ FdOf(t) \in Fds
    BY DEF InOrder, TypeInv, Slotted, Busy, Closing
  <2>2. /\ pool[th[t].slot].used /\ th[t].slot # new /\ FdOf(t) # f /\ FdOf(t)' = FdOf(t)
        /\ pool'[th[t].slot].used
    BY <1>1, <1>5, <1>6, <2>1 DEF OwnClient, FdOf
  <2>3. file'[FdOf(t)] = file[FdOf(t)]
    BY <1>7, <2>1, <2>2
  <2>4. FdOf(t) \in rds' <=> FdOf(t) \in rds
    BY <1>10, <2>2
  <2>5. th[t].pc # "remove" /\ Quiet(t) => Quiet(t)'
    BY <1>1, <1>8, <2>1 DEF OwnClient, Quiet
  <2>6. ~Seen(t)' /\ main'.pc # "lower"
    BY <1>1, AtTopTyped DEF Seen
  <2> QED
    BY <1>1, <2>1, <2>2, <2>3, <2>4, <2>5, <2>6 DEF OwnClient
<1>14. MainsClient'
  BY <1>1, AtTopTyped DEF MainsClient
<1>15. Listened'
  <2> SUFFICES ASSUME ending = "no", NEW s \in Slots, pool'[s].used, ~Forgotten(s)',
                      \A t \in Threads : ~BusyOn(t, s)
               PROVE  pool'[s].fd \in rds'
    BY <1>1 DEF Listened, BusyOn
  <2>1. CASE s = new
    BY <1>5, <1>10, <2>1
  <2>2. CASE s # new
    <3>1. pool'[s] = pool[s] /\ pool[s].used /\ pool[s].fd # f /\ pool[s].fd \in Fds
      BY <1>5, <1>6, <2>2 DEF TypeInv, Slotted
    <3>2. file'[pool[s].fd] = file[pool[s].fd]
      BY <1>7, <3>1
    <3>3. \A d \in Clients :
            (\E g \in Fds : file[g] = d) /\ cl[d].cmd = "mute" /\ cl[d].len = 0
              => cl'[d].cmd = "mute" /\ cl'[d].len = 0
      BY <1>8, <1>9
    <3>4. ~Forgotten(s)
      BY <3>1, <3>2, <3>3, StillForgotten
    <3> QED
      BY <1>1, <1>10, <3>1, <3>4 DEF InOrder, Listened
  <2> QED
    BY <2>1, <2>2
<1> QED
  BY <1>11, <1>12, <1>13, <1>14, <1>15 DEF InOrder

\* Who has just been read is no thread's client.
LEMMA Alone ==
  ASSUME TypeInv, InOrder, Reads
  PROVE  /\ pool[main.slot].used
         /\ \A t \in Threads : th[t].pc \in Busy =>
              th[t].slot # main.slot /\ FdOf(t) # pool[main.slot].fd
         /\ \A t \in Threads : th[t].pc \in Busy /\ th[t].pc # "remove" => th[t].who # Peer
<1>1. /\ main.pc = "read" /\ main.slot \in Slots /\ pool[main.slot].fd \in Fds
      /\ Peer \in Clients /\ cl[Peer].sent > cl[Peer].read /\ Peer = file[pool[main.slot].fd]
  BY Reading DEF Peer
<1>2. Peer # Null
  BY <1>1, ClientsConstants
<1>3. pool[main.slot].used
  BY <1>1, <1>2 DEF InOrder, MainsClient
<1>4. ASSUME NEW t \in Threads, th[t].pc \in Busy
      PROVE  th[t].slot # main.slot /\ FdOf(t) # pool[main.slot].fd
  <2>1. OwnClient(t) /\ th[t].slot \in Slots /\ FdOf(t) \in Fds
    BY <1>4 DEF InOrder, TypeInv, Slotted, Busy, Closing
  <2>2. th[t].slot # main.slot
    <3> SUFFICES ASSUME th[t].slot = main.slot PROVE FALSE
      OBVIOUS
    <3>1. th[t].pc \in Closing /\ FdOf(t) = pool[main.slot].fd
      BY <1>1, <1>4, <2>1 DEF OwnClient, Seen, FdOf
    <3>2. th[t].pc # "remove" /\ th[t].who = Peer
      BY <1>1, <1>2, <1>4, <2>1, <3>1 DEF OwnClient
    <3>3. Quiet(t)
      BY <1>4, <2>1, <3>1, <3>2 DEF OwnClient, Closing
    <3>4. cl[Peer].sent \in Nat
      <4>1. MaxLen \in Nat
        BY LongestCommand
      <4> QED
        BY <1>1, <4>1 DEF TypeInv, TypeOK, Client
    <3> QED
      BY <1>1, <3>2, <3>3, <3>4 DEF Quiet
  <2>3. pool[th[t].slot].used
    BY <1>4, <2>1 DEF OwnClient
  <2> QED
    BY <1>1, <2>1, <2>2, <2>3 DEF InOrder, MainsClient, FdOf
<1>5. ASSUME NEW t \in Threads, th[t].pc \in Busy, th[t].pc # "remove" PROVE th[t].who # Peer
  <2>1. FdOf(t) \in Fds /\ file[FdOf(t)] = th[t].who
    BY <1>5 DEF InOrder, OwnClient, TypeInv, Slotted, Busy, Closing
  <2> QED
    BY <1>1, <1>2, <1>4, <1>5, <2>1 DEF InOrder, Distinct
<1> QED
  BY <1>3, <1>4, <1>5

LEMMA ReadPartKeeps ==
  ASSUME TypeInv, InOrder, ReadPart, races' = {}
  PROVE  InOrder'
<1>1. TypeOK /\ Reads /\ UNCHANGED <<rds, max_fd, file, th, ending>>
  BY DEF TypeInv, ReadPart
<1>2. /\ main.pc = "read" /\ main.slot \in Slots /\ Peer \in Clients
      /\ cl' = [cl EXCEPT ![Peer] = [cl[Peer] EXCEPT !.read = cl[Peer].read + Amount]]
  BY <1>1, Reading
<1>3. main' = AtTop
  BY DEF ReadPart, Loop
<1>4. pool' = [pool EXCEPT ![main.slot].size = @ + Amount]
  BY DEF ReadPart
<1>5. \A s \in Slots : pool'[s].used = pool[s].used /\ pool'[s].fd = pool[s].fd
  BY <1>1, <1>2, <1>4 DEF TypeOK, Slot
<1>6. /\ cl'[Peer].st = cl[Peer].st /\ cl'[Peer].cmd = cl[Peer].cmd /\ cl'[Peer].len = cl[Peer].len
      /\ \A d \in Clients : d # Peer => cl'[d] = cl[d]
  BY <1>1, <1>2 DEF TypeOK, Client
<1>7. Distinct' /\ Selectable'
  BY <1>1, <1>5, <1>6 DEF InOrder, Distinct, Selectable
<1>8. ASSUME NEW t \in Threads PROVE OwnClient(t)'
  <2> SUFFICES ASSUME th[t].pc \in Busy PROVE OwnClient(t)'
    BY <1>1 DEF OwnClient
  <2>1. OwnClient(t) /\ th[t].slot \in Slots
    BY DEF InOrder, TypeInv, Slotted, Busy, Closing
  <2>2. FdOf(t)' = FdOf(t) /\ pool'[th[t].slot].used = pool[th[t].slot].used
    BY <1>1, <1>5, <2>1 DEF FdOf
  <2>3. th[t].pc # "remove" /\ Quiet(t) => Quiet(t)'
    BY <1>1, <1>6, <2>1, Alone DEF OwnClient, Quiet
  <2>4. ~Seen(t)' /\ main'.pc # "lower"
    BY <1>3, AtTopTyped DEF Seen
  <2> QED
    BY <1>1, <2>1, <2>2, <2>3, <2>4 DEF OwnClient
<1>9. MainsClient'
  BY <1>3, AtTopTyped DEF MainsClient
<1>10. Listened'
  <2> SUFFICES ASSUME ending = "no", NEW s \in Slots, pool[s].used, ~Forgotten(s)',
                      \A t \in Threads : ~BusyOn(t, s)
               PROVE  pool[s].fd \in rds
    BY <1>1, <1>5 DEF Listened, BusyOn
  <2>1. \A d \in Clients : cl'[d].cmd = cl[d].cmd /\ cl'[d].len = cl[d].len
    BY <1>6
  <2>2. ~Forgotten(s)
    BY <1>1, <1>5, <2>1, StillForgotten
  <2> QED
    BY <1>2, <2>2 DEF InOrder, Listened
<1> QED
  BY <1>7, <1>8, <1>9, <1>10 DEF InOrder

LEMMA ReadAllKeeps ==
  ASSUME TypeInv, InOrder, ReadAll
  PROVE  InOrder'
<1>1. TypeOK /\ Reads /\ UNCHANGED <<max_fd, file, th, ending>>
  BY DEF TypeInv, ReadAll
<1>2. /\ main.pc = "read" /\ main.slot \in Slots /\ Peer \in Clients /\ pool[main.slot].fd \in Fds
      /\ cl' = [cl EXCEPT ![Peer] = [cl[Peer] EXCEPT !.read = cl[Peer].read + Amount]]
  BY <1>1, Reading
<1>3. main'.pc = "lower" /\ main'.slot = main.slot
  BY <1>1 DEF ReadAll, TypeOK, Main
<1>4. pool' = [pool EXCEPT ![main.slot].size = 0] /\ rds' = rds \ {pool[main.slot].fd}
  BY DEF ReadAll
<1>5. \A s \in Slots : pool'[s].used = pool[s].used /\ pool'[s].fd = pool[s].fd
  BY <1>1, <1>2, <1>4 DEF TypeOK, Slot
<1>6. /\ cl'[Peer].st = cl[Peer].st /\ cl'[Peer].cmd = cl[Peer].cmd /\ cl'[Peer].len = cl[Peer].len
      /\ \A d \in Clients : d # Peer => cl'[d] = cl[d]
  BY <1>1, <1>2 DEF TypeOK, Client
<1>7. Distinct' /\ Selectable'
  BY <1>1, <1>4, <1>5, <1>6 DEF InOrder, Distinct, Selectable
<1>8. ASSUME NEW t \in Threads PROVE OwnClient(t)'
  <2> SUFFICES ASSUME th[t].pc \in Busy PROVE OwnClient(t)'
    BY <1>1 DEF OwnClient
  <2>1. OwnClient(t) /\ th[t].slot \in Slots
    BY DEF InOrder, TypeInv, Slotted, Busy, Closing
  <2>2. FdOf(t)' = FdOf(t) /\ pool'[th[t].slot].used = pool[th[t].slot].used
    BY <1>1, <1>5, <2>1 DEF FdOf
  <2>3. th[t].pc # "remove" /\ Quiet(t) => Quiet(t)'
    BY <1>1, <1>6, <2>1, Alone DEF OwnClient, Quiet
  <2>4. ~Seen(t)' /\ th[t].slot # main'.slot
    BY <1>1, <1>3, Alone DEF Seen
  <2> QED
    BY <1>1, <1>4, <2>1, <2>2, <2>3, <2>4 DEF OwnClient
<1>9. MainsClient'
  <2>1. pool[main.slot].used
    BY <1>1, Alone
  <2>2. file[pool[main.slot].fd] # Null
    BY <1>2, ClientsConstants DEF Peer
  <2> QED
    BY <1>1, <1>2, <1>3, <1>4, <1>5, <2>1, <2>2 DEF MainsClient
<1>10. Listened'
  <2> SUFFICES ASSUME ending = "no", NEW s \in Slots, pool[s].used, s # main.slot, ~Forgotten(s)',
                      \A t \in Threads : ~BusyOn(t, s)
               PROVE  pool[s].fd \in rds'
    BY <1>1, <1>3, <1>5 DEF Listened, BusyOn
  <2>0. ~Forgotten(s)
    <3>1. \A d \in Clients : cl'[d].cmd = cl[d].cmd /\ cl'[d].len = cl[d].len
      BY <1>6
    <3> QED
      BY <1>1, <1>5, <3>1, StillForgotten
  <2>1. pool[s].fd \in rds
    BY <1>2, <2>0 DEF InOrder, Listened
  <2>2. pool[s].fd # pool[main.slot].fd
    BY <1>2 DEF InOrder, MainsClient
  <2> QED
    BY <1>4, <2>1, <2>2
<1> QED
  BY <1>7, <1>8, <1>9, <1>10 DEF InOrder

\* The last lines of rm_fd(), when no descriptor has been added in the meantime
LEMMA LoweringKeeps ==
  ASSUME TypeOK, InOrder, NEW top \in 0..NFds, LowerMaxFd(top), races' = {}
  PROVE  \A f \in rds : f < max_fd'
<1>1. \A f \in rds : ~(f > top)
  BY DEF LowerMaxFd
<1>2. max_fd' = top + 1 /\ top \in Nat /\ rds \subseteq Nat
  BY ClientsConstants DEF LowerMaxFd, TypeOK, Fds, CommandFd
<1> QED
  BY <1>1, <1>2

LEMMA StartThreadKeeps ==
  ASSUME TypeInv, InOrder, StartThread, races' = {}
  PROVE  InOrder'
<1>1. /\ TypeOK /\ main.pc = "lower" /\ main.slot \in Slots /\ pool[main.slot].fd \in Fds
      /\ UNCHANGED <<rds, file, cl, ending>>
  BY DEF TypeInv, Slotted, StartThread, MainAt
<1>2. PICK t \in Threads :
        /\ th[t].pc = "none"
        /\ th' = [th EXCEPT ![t] = [NoThread EXCEPT !.pc = "work", !.slot = main.slot, !.who = Peer]]
  BY DEF StartThread
<1>3. /\ th'[t].pc = "work" /\ th'[t].slot = main.slot /\ th'[t].who = Peer
      /\ \A u \in Threads : u # t => th'[u] = th[u]
  BY <1>1, <1>2 DEF TypeOK, NoThread
<1>4. main'.pc = "clear" /\ main'.slot = main.slot
  BY <1>1 DEF StartThread, TypeOK, Main
<1>5. \A s \in Slots : pool'[s].used = pool[s].used /\ pool'[s].fd = pool[s].fd
  BY <1>1 DEF StartThread, TypeOK, Slot
<1>6. main.top \in 0..NFds /\ LowerMaxFd(main.top)
  BY <1>1 DEF TypeOK, Main, StartThread
<1>7. \A f \in rds : f < max_fd'
  BY <1>1, <1>6, LoweringKeeps
<1>8. Distinct' /\ Selectable'
  BY <1>1, <1>5, <1>7 DEF InOrder, Distinct, Selectable
<1>9. /\ pool[main.slot].used /\ pool[main.slot].fd \notin rds
      /\ Peer \in Clients /\ file[pool[main.slot].fd] = Peer
  BY <1>1 DEF InOrder, MainsClient, Peer, TypeOK
<1>10. \A u \in Threads : th[u].pc \in Busy => th[u].slot # main.slot
  BY <1>1 DEF InOrder, OwnClient
<1>11. ASSUME NEW u \in Threads PROVE OwnClient(u)'
  <2>1. CASE u = t
    <3>1. FdOf(u)' = pool[main.slot].fd
      BY <1>1, <1>3, <1>5, <2>1 DEF FdOf
    <3>2. ~Seen(u)'
      BY <1>4 DEF Seen
    <3> QED
      BY <1>1, <1>3, <1>4, <1>5, <1>9, <1>10, <2>1, <3>1, <3>2 DEF OwnClient
  <2>2. CASE u # t
    <3> SUFFICES ASSUME th[u].pc \in Busy PROVE OwnClient(u)'
      BY <1>3, <2>2 DEF OwnClient
    <3>1. OwnClient(u) /\ th[u].slot \in Slots
      BY DEF InOrder, TypeInv, Slotted, Busy, Closing
    <3>2. FdOf(u)' = FdOf(u) /\ pool'[th[u].slot].used = pool[th[u].slot].used
      BY <1>3, <1>5, <2>2, <3>1 DEF FdOf
    <3>3. Quiet(u)' = Quiet(u) /\ ~Seen(u)'
      BY <1>1, <1>3, <1>4, <2>2 DEF Quiet, Seen
    <3>4. \A v \in Threads : th'[v].pc \in Busy /\ th'[v].slot = th[u].slot => v = u
      BY <1>3, <1>10, <3>1 DEF OwnClient
    <3> QED
      BY <1>1, <1>3, <1>4, <2>2, <3>1, <3>2, <3>3, <3>4 DEF OwnClient
  <2> QED
    BY <2>1, <2>2
<1>12. MainsClient'
  BY <1>4 DEF MainsClient
<1>13. Listened'
  <2> SUFFICES ASSUME ending = "no", NEW s \in Slots, pool[s].used, ~Forgotten(s)',
                      \A u \in Threads : ~BusyOn(u, s)'
               PROVE  pool[s].fd \in rds
    BY <1>1, <1>5 DEF Listened
  <2>0. ~Forgotten(s)
    BY <1>1, <1>5 DEF Forgotten
  <2>1. s # main.slot
    BY <1>3 DEF BusyOn, Busy
  <2>2. \A u \in Threads : ~BusyOn(u, s)
    BY <1>2, <1>3 DEF BusyOn, Busy, Closing
  <2> QED
    BY <2>0, <2>1, <2>2 DEF InOrder, Listened
<1> QED
  BY <1>8, <1>11, <1>12, <1>13 DEF InOrder

LEMMA ClearKeeps ==
  ASSUME TypeInv, InOrder, Clear, races' = {}
  PROVE  InOrder'
<1>1. /\ main.pc = "clear" /\ main.slot \in Slots /\ main' = AtTop
      /\ UNCHANGED <<pool, max_fd, file, cl, th, ending>>
  BY DEF Clear, Loop, MainAt, TypeInv, Slotted
<1>2. rds' = rds \ {pool[main.slot].fd}
  BY DEF Clear
<1>3. \/ pool[main.slot].fd \notin rds
      \/ \E t \in Threads : th[t].slot = main.slot /\ th[t].pc \in Closing
  BY DEF Clear, Closing
<1>4. Distinct' /\ Selectable'
  BY <1>1, <1>2 DEF InOrder, Distinct, Selectable
<1>5. ASSUME NEW t \in Threads PROVE OwnClient(t)'
  <2>1. OwnClient(t) /\ FdOf(t)' = FdOf(t) /\ Quiet(t)' = Quiet(t)
    BY <1>1 DEF InOrder, FdOf, Quiet
  <2>2. ~Seen(t)' /\ main'.pc # "lower"
    BY <1>1, AtTopTyped DEF Seen
  <2> QED
    BY <1>1, <1>2, <2>1, <2>2 DEF OwnClient
<1>6. MainsClient'
  BY <1>1, AtTopTyped DEF MainsClient
<1>7. Listened'
  <2> SUFFICES ASSUME ending = "no", NEW s \in Slots, pool[s].used, ~Forgotten(s),
                      \A t \in Threads : ~BusyOn(t, s)
               PROVE  pool[s].fd \in rds'
    BY <1>1 DEF Listened, BusyOn, Forgotten
  <2>1. pool[s].fd \in rds
    BY <1>1 DEF InOrder, Listened
  <2>2. CASE pool[main.slot].fd \notin rds
    BY <1>2, <2>1, <2>2
  <2>3. ASSUME NEW t \in Threads, th[t].slot = main.slot, th[t].pc \in Closing
        PROVE  pool[s].fd # pool[main.slot].fd
    <3>1. pool[main.slot].used
      BY <2>3 DEF InOrder, OwnClient, Busy
    <3>2. s # main.slot
      BY <2>3 DEF BusyOn, Busy
    <3> QED
      BY <1>1, <3>1, <3>2 DEF InOrder, Distinct
  <2> QED
    BY <1>2, <1>3, <2>1, <2>2, <2>3
<1> QED
  BY <1>4, <1>5, <1>6, <1>7 DEF InOrder

\* What close() of a descriptor leaves alone
LEMMA Closing2 ==
  ASSUME TypeOK, NEW f, Closed(f)
  PROVE  /\ \A g \in Fds : g # f => file'[g] = file[g]
         /\ f \in Fds => file'[f] = Null
         /\ \A c \in Clients : /\ cl'[c].st \in {cl[c].st, "dropped"} /\ cl'[c].cmd = cl[c].cmd
                               /\ cl'[c].len = cl[c].len /\ cl'[c].sent = cl[c].sent /\ cl'[c].read = cl[c].read
                               /\ cl'[c].wait => cl[c].wait
<1>1. cl \in [Clients -> Client] /\ file \in [Fds -> Clients \cup {Null}]
  BY DEF TypeOK
<1>2. \A g \in Fds : file'[g] = IF g = f THEN Null ELSE file[g]
  BY <1>1 DEF Closed
<1>3. ASSUME NEW c \in Clients
      PROVE  /\ cl'[c].st \in {cl[c].st, "dropped"} /\ cl'[c].cmd = cl[c].cmd
             /\ cl'[c].len = cl[c].len /\ cl'[c].sent = cl[c].sent /\ cl'[c].read = cl[c].read
             /\ cl'[c].wait => cl[c].wait
  <2>1. cl[c] \in Client
    BY <1>1
  <2>2. cl'[c] = cl[c] \/ cl'[c] = [cl[c] EXCEPT !.st = "dropped", !.wait = FALSE]
    BY DEF Closed
  <2> QED
    BY <2>1, <2>2 DEF Client
<1> QED
  BY <1>2, <1>3

LEMMA DropKeeps ==
  ASSUME TypeInv, TypeInv', InOrder, Drop, races' = {}
  PROVE  InOrder'
<1> DEFINE m == main.slot
           f == pool[m].fd
<1>1. /\ TypeOK /\ main.pc = "drop" /\ m \in Slots /\ f \in Fds
      /\ UNCHANGED ending
  BY DEF TypeInv, Slotted, Drop, MainAt
<1>2. ~MainAt("dead")'
  BY DEF Drop
<1>3. ~Die
  BY <1>2, <1>1, DieTypes DEF MainAt
<1>4. Closed(f) /\ main' = AtTop /\ UNCHANGED th
  BY <1>3 DEF Drop, Loop
<1>5. /\ \A t \in Threads : th[t].slot # m
      /\ \A g \in rds' : ~(g >= max_fd')
      /\ rds' = rds \ {f}
  BY DEF Drop
<1>6. pool' = [pool EXCEPT ![m].used = FALSE]
  BY DEF Drop
<1>7. /\ ~pool'[m].used
      /\ \A s \in Slots : pool'[s].fd = pool[s].fd /\ (s # m => pool'[s].used = pool[s].used)
  BY <1>1, <1>6 DEF TypeOK, Slot
<1> HIDE DEF f
<1>8. \A s \in Slots : pool[s].used /\ pool[s].fd = f => s = m
  BY <1>1 DEF InOrder, MainsClient, f
<1>9. /\ file'[f] = Null
      /\ \A g \in Fds : g # f => file'[g] = file[g]
      /\ \A c \in Clients : /\ cl'[c].st \in {cl[c].st, "dropped"} /\ cl'[c].cmd = cl[c].cmd
                            /\ cl'[c].len = cl[c].len
                            /\ cl'[c].sent = cl[c].sent /\ cl'[c].read = cl[c].read
                            /\ cl'[c].wait => cl[c].wait
  <2>1. TypeOK /\ f \in Fds /\ Closed(f)
    BY <1>1, <1>4
  <2> QED
    BY <2>1, Closing2
<1>10. Distinct'
  <2>1. \A r, s \in Slots : pool'[r].used /\ pool'[s].used /\ pool'[r].fd = pool'[s].fd => r = s
    BY <1>7 DEF InOrder, Distinct
  <2>2. \A g, h \in Fds : file'[g] # Null /\ file'[g] = file'[h] => g = h
    BY <1>9 DEF InOrder, Distinct
  <2>3. \A d \in Clients : cl'[d].st = "queued" => \A g \in Fds : file'[g] # d
    <3>1. Null \notin Clients
      BY ClientsConstants
    <3> QED
      BY <1>9, <3>1 DEF InOrder, Distinct
  <2> QED
    BY <2>1, <2>2, <2>3 DEF Distinct
<1>11. Selectable'
  <2>1. \A g \in rds' : g < max_fd'
    <3>0. rds' \subseteq Fds \cup {CommandFd} /\ Fds \cup {CommandFd} \subseteq Nat
      BY ClientsConstants DEF TypeInv, TypeOK, Fds, CommandFd
    <3>1. \A g \in rds' : g \in Nat
      BY <3>0
    <3>2. max_fd' \in Nat
      BY ClientsConstants DEF TypeInv, TypeOK
    <3> QED
      BY <1>5, <3>1, <3>2
  <2>2. \A g \in rds' \ {CommandFd} : file'[g] # Null
    <3>1. \A g \in rds' : g \in Fds \cup {CommandFd} /\ g # f /\ g \in rds
      BY <1>1, <1>5 DEF TypeOK
    <3> QED
      BY <1>9, <3>1 DEF InOrder, Selectable
  <2> QED
    BY <2>1, <2>2 DEF Selectable
<1>12. ASSUME NEW t \in Threads PROVE OwnClient(t)'
  <2> SUFFICES ASSUME th[t].pc \in Busy PROVE OwnClient(t)'
    BY <1>4 DEF OwnClient
  <2>1. OwnClient(t) /\ th[t].slot \in Slots /\ FdOf(t) \in Fds /\ th[t].slot # m
    BY <1>5 DEF InOrder, TypeInv, Slotted, Busy, Closing
  <2>2. FdOf(t)' = FdOf(t) /\ pool'[th[t].slot].used = pool[th[t].slot].used
    BY <1>4, <1>7, <2>1 DEF FdOf
  <2>3. FdOf(t) # f
    BY <1>8, <2>1 DEF OwnClient, FdOf
  <2>4. th[t].pc # "remove" /\ Quiet(t) => Quiet(t)'
    BY <1>4, <1>9, <2>1 DEF OwnClient, Quiet
  <2>5. ~Seen(t)' /\ main'.pc # "lower"
    BY <1>4, AtTopTyped DEF Seen
  <2> QED
    BY <1>4, <1>5, <1>9, <2>1, <2>2, <2>3, <2>4, <2>5 DEF OwnClient
<1>13. MainsClient'
  BY <1>4, AtTopTyped DEF MainsClient
<1>14. Listened'
  <2> SUFFICES ASSUME ending = "no", NEW s \in Slots, pool'[s].used, ~Forgotten(s)',
                      \A t \in Threads : ~BusyOn(t, s)
               PROVE  pool[s].fd \in rds'
    BY <1>1, <1>4, <1>7 DEF Listened, BusyOn
  <2>1. s # m /\ pool[s].used /\ pool[s].fd # f /\ pool[s].fd \in Fds
    BY <1>7, <1>8 DEF TypeInv, Slotted
  <2>0. ~Forgotten(s)
    BY <1>7, <1>9, <2>1, StillForgotten
  <2>2. pool[s].fd \in rds
    BY <1>1, <2>0, <2>1 DEF InOrder, Listened
  <2> QED
    BY <1>5, <1>8, <2>1, <2>2
<1> QED
  BY <1>10, <1>11, <1>12, <1>13, <1>14 DEF InOrder

-----------------------------------------------------------------------------
(* The invariant: command threads *)

\* A step of thread t that closes nothing, empties no slot, and puts back or takes out
\* t's descriptor at most: the others do not notice.
LEMMA OthersKeep ==
  ASSUME TypeInv, InOrder, NEW t \in Threads, th[t].pc \in Busy, UNCHANGED <<main, file>>,
         \A s \in Slots : pool'[s].used = pool[s].used /\ pool'[s].fd = pool[s].fd,
         th'[t].slot = th[t].slot \/ th'[t].pc = "none",
         \A u \in Threads : u # t => th'[u] = th[u],
         rds' \subseteq rds \cup {FdOf(t)},
         \A c \in Clients : cl[c].cmd = "close" /\ cl[c].sent = cl[c].read /\ ~cl[c].wait =>
                              cl'[c].cmd = "close" /\ cl'[c].sent = cl'[c].read /\ ~cl'[c].wait
  PROVE  \A u \in Threads : u # t => OwnClient(u)'
<1> SUFFICES ASSUME NEW u \in Threads, u # t, th[u].pc \in Busy PROVE OwnClient(u)'
  BY DEF OwnClient
<1>1. OwnClient(u) /\ OwnClient(t)
  BY DEF InOrder
<1>2. /\ th[u].slot \in Slots /\ FdOf(u) \in Fds /\ th[t].slot \in Slots
      /\ pool[th[u].slot].used /\ pool[th[t].slot].used
  BY <1>1 DEF OwnClient, TypeInv, Slotted, Busy, Closing
<1>3. FdOf(u)' = FdOf(u) /\ pool'[th[u].slot].used
  BY <1>2 DEF FdOf
<1>4. th[u].slot # th[t].slot
  BY <1>1 DEF OwnClient
<1>5. FdOf(u) # FdOf(t)
  BY <1>2, <1>4 DEF InOrder, Distinct, FdOf
<1>6. \A v \in Threads : th'[v].pc \in Busy /\ th'[v].slot = th[u].slot => v = u
  BY <1>1, <1>4 DEF OwnClient, Busy, Closing
<1>7. th[u].pc \in {"close", "unadd", "lower", "shut"} => Quiet(u)'
  <2> SUFFICES ASSUME th[u].pc \in {"close", "unadd", "lower", "shut"} PROVE Quiet(u)'
    OBVIOUS
  <2>1. th[u].who \in Clients /\ Quiet(u)
    BY <1>1 DEF OwnClient
  <2> QED
    BY <2>1 DEF Quiet
<1>8. Seen(u)' => Seen(u)
  BY <1>3 DEF Seen
<1> QED
  BY <1>1, <1>3, <1>5, <1>6, <1>7, <1>8 DEF OwnClient

LEMMA AnswerKeeps ==
  ASSUME TypeInv, InOrder, NEW t \in Threads, Answer(t)
  PROVE  InOrder'
<1> DEFINE c == file[FdOf(t)]
<1>1. /\ TypeOK /\ th[t].pc = "work" /\ th[t].slot \in Slots /\ FdOf(t) \in Fds
      /\ UNCHANGED <<pool, rds, max_fd, file, main, ending>>
  BY DEF TypeInv, Slotted, Answer, At
<1>2. OwnClient(t)
  BY DEF InOrder
<1>3. c \in Clients /\ c = th[t].who /\ c # Null
  BY <1>1, <1>2, ClientsConstants DEF OwnClient, Busy
<1>4. cl' = [cl EXCEPT ![c] = [@ EXCEPT !.wait = FALSE, !.len = 0, !.sent = 0, !.read = 0]]
  BY <1>3 DEF Answer
<1>5. /\ cl'[c].st = cl[c].st /\ cl'[c].cmd = cl[c].cmd
      /\ cl'[c].len = 0 /\ cl'[c].sent = 0 /\ cl'[c].read = 0 /\ cl'[c].wait = FALSE
      /\ \A d \in Clients : d # c => cl'[d] = cl[d]
  BY <1>1, <1>3, <1>4 DEF TypeOK, Client
<1>6. /\ th'[t].pc = IF cl[c].cmd = "close" THEN "close" ELSE "readd"
      /\ th'[t].slot = th[t].slot /\ th'[t].who = th[t].who
      /\ \A u \in Threads : u # t => th'[u] = th[u]
  BY <1>1, <1>3 DEF Answer, Goto, TypeOK, Thread
<1>7. Distinct' /\ Selectable'
  BY <1>1, <1>5 DEF InOrder, Distinct, Selectable
<1>8. \A u \in Threads : u # t => OwnClient(u)'
  BY <1>1, <1>5, <1>6, OthersKeep DEF Busy
<1>9. OwnClient(t)'
  <2>1. FdOf(t)' = FdOf(t) /\ Seen(t)' = Seen(t)
    BY <1>1, <1>6 DEF FdOf, Seen
  <2>2. ~Seen(t)
    BY <1>1, <1>2 DEF OwnClient, Busy, Closing
  <2>3. th'[t].pc = "close" => Quiet(t)'
    BY <1>3, <1>5, <1>6 DEF Quiet
  <2>4. \A u \in Threads : th'[u].pc \in Busy /\ th'[u].slot = th[t].slot => u = t
    BY <1>1, <1>2, <1>6 DEF OwnClient, Busy
  <2>5. th'[t].pc \in {"close", "readd"}
    BY <1>6
  <2> QED
    BY <1>1, <1>2, <1>6, <2>1, <2>2, <2>3, <2>4, <2>5 DEF OwnClient, Busy
<1>10. MainsClient'
  BY <1>1 DEF InOrder, MainsClient
<1>11. \A s \in Slots : (\A u \in Threads : ~BusyOn(u, s)') => \A u \in Threads : ~BusyOn(u, s)
  BY <1>6 DEF BusyOn, Busy
<1>12. \A s \in Slots : pool[s].used /\ ~Forgotten(s)' => ~Forgotten(s)
  <2>1. \A d \in Clients : cl[d].cmd = "mute" /\ cl[d].len = 0 => cl'[d].cmd = "mute" /\ cl'[d].len = 0
    BY <1>5
  <2> QED
    BY <1>1, <2>1, StillForgotten
<1>13. Listened'
  BY <1>1, <1>11, <1>12 DEF InOrder, Listened
<1> QED
  BY <1>7, <1>8, <1>9, <1>10, <1>13 DEF InOrder

\* The thread of a mute command: its client is forgotten.
LEMMA MuteKeeps ==
  ASSUME TypeInv, InOrder, NEW t \in Threads, Mute(t)
  PROVE  InOrder'
<1>0. PICK c, m : c = th[t].who /\ m = th[t].slot
  OBVIOUS
<1>1. /\ TypeOK /\ th[t].pc = "work" /\ m \in Slots /\ FdOf(t) \in Fds /\ cl[c].cmd = "mute"
      /\ UNCHANGED <<pool, rds, max_fd, file, main, ending>>
      /\ cl' = [cl EXCEPT ![c] = [@ EXCEPT !.len = 0, !.sent = 0, !.read = 0]]
  BY <1>0 DEF TypeInv, Slotted, Mute, At
<1>2. OwnClient(t)
  BY DEF InOrder
<1>3. c \in Clients /\ file[FdOf(t)] = c /\ c # Null
  BY <1>0, <1>1, <1>2, ClientsConstants DEF OwnClient, Busy
<1>4. th'[t].pc = "none" /\ \A u \in Threads : u # t => th'[u] = th[u]
  BY <1>1 DEF Mute, Finish, TypeOK, NoThread
<1>5. /\ cl'[c].st = cl[c].st /\ cl'[c].cmd = "mute" /\ cl'[c].len = 0
      /\ \A d \in Clients : d # c => cl'[d] = cl[d]
  BY <1>1, <1>3 DEF TypeOK, Client
<1>6. Distinct' /\ Selectable' /\ MainsClient'
  BY <1>1, <1>5 DEF InOrder, Distinct, Selectable, MainsClient
<1>7. \A d \in Clients : cl[d].cmd = "close" /\ cl[d].sent = cl[d].read /\ ~cl[d].wait =>
                          cl'[d].cmd = "close" /\ cl'[d].sent = cl'[d].read /\ ~cl'[d].wait
  BY <1>1, <1>5
<1>8. \A u \in Threads : u # t => OwnClient(u)'
  BY <1>1, <1>4, <1>7, OthersKeep DEF Busy
<1>9. OwnClient(t)'
  BY <1>4 DEF OwnClient, Busy, Closing
<1>10. Listened'
  <2> SUFFICES ASSUME ending = "no", NEW s \in Slots, pool[s].used, ~Forgotten(s)',
                      \A u \in Threads : ~BusyOn(u, s)', ~(main.pc = "lower" /\ main.slot = s)
               PROVE  pool[s].fd \in rds
    BY <1>1 DEF Listened
  <2>1. s # m
    <3>1. pool'[m].fd = FdOf(t) /\ file' = file
      BY <1>0, <1>1 DEF FdOf
    <3>2. Forgotten(m)'
      BY <1>3, <1>5, <3>1 DEF Forgotten
    <3> QED
      BY <3>2
  <2>2. \A u \in Threads : ~BusyOn(u, s)
    BY <1>0, <1>4, <2>1 DEF BusyOn
  <2>3. ~Forgotten(s)
    BY <1>1, <1>5, StillForgotten
  <2> QED
    BY <2>2, <2>3 DEF InOrder, Listened
<1> QED
  BY <1>6, <1>8, <1>9, <1>10 DEF InOrder

\* A thread that finishes, its slot being still in use or not
LEMMA ExitKeeps ==
  ASSUME TypeInv, InOrder, NEW t \in Threads, Exit(t)
  PROVE  InOrder'
<1>1. /\ TypeOK /\ th[t].pc = "work" /\ ending' # "no"
      /\ UNCHANGED <<pool, rds, max_fd, file, cl, main>>
  BY DEF TypeInv, Exit, At
<1>2. th'[t].pc = "none" /\ \A u \in Threads : u # t => th'[u] = th[u]
  BY <1>1 DEF Exit, Finish, TypeOK, NoThread
<1>3. Distinct' /\ Selectable' /\ MainsClient' /\ Listened'
  BY <1>1 DEF InOrder, Distinct, Selectable, MainsClient, Listened
<1>4. \A u \in Threads : u # t => OwnClient(u)'
  BY <1>1, <1>2, OthersKeep DEF Busy
<1>5. OwnClient(t)'
  BY <1>2 DEF OwnClient, Busy, Closing
<1> QED
  BY <1>3, <1>4, <1>5 DEF InOrder

\* A descriptor that is put back is one of a connection.
LEMMA AddingKeeps ==
  ASSUME TypeOK, InOrder, NEW f \in Fds, AddFd(f), file' = file, file[f] # Null
  PROVE  Selectable'
<1>1. rds' = rds \cup {f} /\ max_fd' \in Nat /\ max_fd \in Nat /\ max_fd' >= max_fd /\ max_fd' >= f + 1
  BY Adding, ClientsConstants DEF TypeOK
<1>2. rds \subseteq Nat /\ f \in Nat
  BY ClientsConstants DEF TypeOK, Fds, CommandFd
<1>3. \A g \in rds' : g < max_fd'
  BY <1>1, <1>2 DEF InOrder, Selectable
<1> QED
  BY <1>1, <1>3 DEF InOrder, Selectable

LEMMA ContinueKeeps ==
  ASSUME TypeInv, InOrder, NEW t \in Threads, Continue(t)
  PROVE  InOrder'
<1>1. /\ TypeOK /\ th[t].pc = "readd" /\ th[t].slot \in Slots /\ FdOf(t) \in Fds
      /\ UNCHANGED <<pool, file, cl, main, ending>> /\ AddFd(FdOf(t))
  BY DEF TypeInv, Slotted, Continue, At
<1>2. OwnClient(t) /\ file[FdOf(t)] # Null
  BY <1>1, ClientsConstants DEF InOrder, OwnClient, Busy
<1>3. /\ th'[t].pc = "reset" /\ th'[t].slot = th[t].slot
      /\ \A u \in Threads : u # t => th'[u] = th[u]
  BY <1>1 DEF Continue, Goto, TypeOK, Thread
<1>4. rds' = rds \cup {FdOf(t)}
  BY <1>1 DEF AddFd
<1>5. Selectable'
  BY <1>1, <1>2, AddingKeeps
<1>6. \A u \in Threads : u # t => OwnClient(u)'
  BY <1>1, <1>3, <1>4, OthersKeep DEF Busy
<1>7. OwnClient(t)'
  BY <1>3 DEF OwnClient, Busy, Closing
<1>8. Distinct'
  BY <1>1 DEF InOrder, Distinct
<1>9. MainsClient'
  <2>1. pool[th[t].slot].used
    BY <1>1, <1>2 DEF OwnClient, Busy
  <2>2. ~(main.pc = "lower" /\ main.slot = th[t].slot)
    BY <1>1, <1>2 DEF OwnClient, Busy
  <2>3. main.pc \in {"read", "drop"} /\ ~pool[main.slot].used => pool[main.slot].fd # FdOf(t)
    BY <1>1, <1>2 DEF InOrder, MainsClient
  <2>4. main.pc = "lower" => pool[main.slot].fd # FdOf(t)
    BY <1>1, <2>1, <2>2 DEF InOrder, MainsClient, Distinct, FdOf, TypeInv, Slotted
  <2> QED
    BY <1>1, <1>4, <2>3, <2>4 DEF InOrder, MainsClient
<1>10. Listened'
  <2> SUFFICES ASSUME ending = "no", NEW s \in Slots, pool[s].used, ~Forgotten(s),
                      \A u \in Threads : ~BusyOn(u, s)', ~(main.pc = "lower" /\ main.slot = s)
               PROVE  pool[s].fd \in rds'
    BY <1>1 DEF Listened, Forgotten
  <2>1. CASE s = th[t].slot
    BY <1>4, <2>1 DEF FdOf
  <2>2. CASE s # th[t].slot
    <3>1. \A u \in Threads : ~BusyOn(u, s)
      BY <1>3, <2>2 DEF BusyOn
    <3> QED
      BY <1>4, <3>1 DEF InOrder, Listened
  <2> QED
    BY <2>1, <2>2
<1> QED
  BY <1>5, <1>6, <1>7, <1>8, <1>9, <1>10 DEF InOrder

LEMMA ResetKeeps ==
  ASSUME TypeInv, InOrder, NEW t \in Threads, Reset(t)
  PROVE  InOrder'
<1>1. /\ TypeOK /\ th[t].pc = "reset" /\ th[t].slot \in Slots
      /\ UNCHANGED <<rds, max_fd, file, cl, main, ending>>
      /\ pool' = [pool EXCEPT ![th[t].slot].size = 0]
  BY DEF TypeInv, Slotted, Reset, At
<1>2. th'[t].pc = "none" /\ \A u \in Threads : u # t => th'[u] = th[u]
  BY <1>1 DEF Reset, Finish, TypeOK, NoThread
<1>3. \A s \in Slots : pool'[s].used = pool[s].used /\ pool'[s].fd = pool[s].fd
  BY <1>1 DEF TypeOK, Slot
<1>4. Distinct' /\ Selectable'
  BY <1>1, <1>3 DEF InOrder, Distinct, Selectable
<1>5. ASSUME NEW u \in Threads PROVE OwnClient(u)'
  <2> SUFFICES ASSUME th'[u].pc \in Busy PROVE OwnClient(u)'
    BY DEF OwnClient
  <2>1. u # t /\ th'[u] = th[u]
    BY <1>2 DEF Busy, Closing
  <2>2. OwnClient(u) /\ th[u].slot \in Slots
    BY <2>1 DEF InOrder, TypeInv, Slotted, Busy, Closing
  <2>3. FdOf(u)' = FdOf(u) /\ Quiet(u)' = Quiet(u)
    BY <1>1, <1>3, <2>1, <2>2 DEF FdOf, Quiet
  <2>4. Seen(u)' = Seen(u)
    BY <1>1, <2>1, <2>3 DEF Seen
  <2>5. \A v \in Threads : th'[v].pc \in Busy => th[v] = th'[v]
    BY <1>2 DEF Busy, Closing
  <2> QED
    BY <1>1, <1>3, <2>1, <2>2, <2>3, <2>4, <2>5 DEF OwnClient
<1>6. MainsClient'
  BY <1>1, <1>3 DEF InOrder, MainsClient, TypeInv, Slotted
<1>7. Listened'
  <2>1. \A s \in Slots, u \in Threads : BusyOn(u, s) => BusyOn(u, s)'
    BY <1>1, <1>2 DEF BusyOn, Busy, Closing
  <2>2. \A s \in Slots : Forgotten(s)' <=> Forgotten(s)
    BY <1>1, <1>3 DEF Forgotten
  <2> QED
    BY <1>1, <1>3, <2>1, <2>2 DEF InOrder, Listened
<1> QED
  BY <1>4, <1>5, <1>6, <1>7 DEF InOrder

\* A step of a thread that goes on and keeps its slot: main loop's client and those
\* nobody has are as before.
LEMMA StaysBusy ==
  ASSUME TypeInv, InOrder, NEW t \in Threads, th[t].pc \in Busy, th'[t].pc \in Busy,
         th'[t].slot = th[t].slot, \A u \in Threads : u # t => th'[u] = th[u],
         \A s \in Slots : pool'[s].used = pool[s].used /\ pool'[s].fd = pool[s].fd,
         UNCHANGED <<main, file, cl, ending>>, rds \subseteq rds' \cup {FdOf(t)},
         rds' \subseteq rds \cup {FdOf(t)}
  PROVE  MainsClient' /\ Listened'
<1>1. OwnClient(t) /\ th[t].slot \in Slots
  BY DEF InOrder, TypeInv, Slotted, Busy, Closing
<1>2. pool[th[t].slot].used /\ ~(main.pc = "lower" /\ main.slot = th[t].slot)
  BY <1>1 DEF OwnClient
<1>3. \A s \in Slots : pool[s].used /\ pool[s].fd = FdOf(t) => s = th[t].slot
  BY <1>1, <1>2 DEF InOrder, Distinct, FdOf
<1>4. MainsClient'
  <2>1. main.pc \in {"read", "drop"} /\ ~pool[main.slot].used => pool[main.slot].fd # FdOf(t)
    BY <1>1, <1>2 DEF InOrder, MainsClient, FdOf
  <2>2. main.pc = "lower" => pool[main.slot].fd # FdOf(t)
    BY <1>2, <1>3 DEF InOrder, MainsClient, TypeInv, Slotted
  <2> QED
    BY <2>1, <2>2 DEF InOrder, MainsClient, TypeInv, Slotted
<1>5. Listened'
  <2> SUFFICES ASSUME ending = "no", NEW s \in Slots, pool[s].used, ~Forgotten(s),
                      \A u \in Threads : ~BusyOn(u, s)', ~(main.pc = "lower" /\ main.slot = s)
               PROVE  pool[s].fd \in rds'
    BY DEF Listened, Forgotten
  <2>1. s # th[t].slot
    BY DEF BusyOn
  <2>2. \A u \in Threads : ~BusyOn(u, s)
    BY <2>1 DEF BusyOn
  <2> QED
    BY <1>3, <2>1, <2>2 DEF InOrder, Listened
<1> QED
  BY <1>4, <1>5

LEMMA CloseKeeps ==
  ASSUME TypeInv, InOrder, NEW t \in Threads, Close(t)
  PROVE  InOrder'
<1>1. /\ TypeOK /\ th[t].pc = "close" /\ th[t].slot \in Slots /\ FdOf(t) \in Fds
      /\ UNCHANGED <<file, cl, main, ending>> /\ AddFd(FdOf(t))
      /\ pool' = [pool EXCEPT ![th[t].slot].size = 0]
  BY DEF TypeInv, Slotted, Close, At
<1>2. OwnClient(t) /\ file[FdOf(t)] # Null
  BY <1>1, ClientsConstants DEF InOrder, OwnClient, Busy
<1>3. /\ th'[t].pc = "unadd" /\ th'[t].slot = th[t].slot /\ th'[t].who = th[t].who
      /\ \A u \in Threads : u # t => th'[u] = th[u]
  BY <1>1 DEF Close, Goto, TypeOK, Thread
<1>4. rds' = rds \cup {FdOf(t)}
  BY <1>1 DEF AddFd
<1>5. \A s \in Slots : pool'[s].used = pool[s].used /\ pool'[s].fd = pool[s].fd
  BY <1>1 DEF TypeOK, Slot
<1>6. Selectable'
  BY <1>1, <1>2, AddingKeeps
<1>7. \A u \in Threads : u # t => OwnClient(u)'
  BY <1>1, <1>3, <1>4, <1>5, OthersKeep DEF Busy
<1>8. OwnClient(t)'
  <2>1. FdOf(t)' = FdOf(t) /\ Quiet(t)' = Quiet(t)
    BY <1>1, <1>3, <1>5 DEF FdOf, Quiet
  <2>2. \A u \in Threads : th'[u].pc \in Busy /\ th'[u].slot = th[t].slot => u = t
    BY <1>1, <1>2, <1>3 DEF OwnClient, Busy
  <2> QED
    BY <1>1, <1>2, <1>3, <1>5, <2>1, <2>2 DEF OwnClient, Busy, Closing
<1>9. Distinct'
  BY <1>1, <1>5 DEF InOrder, Distinct
<1>10. MainsClient' /\ Listened'
  BY <1>1, <1>3, <1>4, <1>5, StaysBusy DEF Busy, Closing
<1> QED
  BY <1>6, <1>7, <1>8, <1>9, <1>10 DEF InOrder

LEMMA UnaddKeeps ==
  ASSUME TypeInv, InOrder, NEW t \in Threads, Unadd(t)
  PROVE  InOrder'
<1>1. /\ TypeOK /\ th[t].pc = "unadd" /\ th[t].slot \in Slots /\ FdOf(t) \in Fds
      /\ UNCHANGED <<pool, max_fd, file, cl, main, ending>> /\ rds' = rds \ {FdOf(t)}
  BY DEF TypeInv, Slotted, Unadd, At
<1>2. OwnClient(t)
  BY DEF InOrder
<1>3. /\ th'[t].pc = "lower" /\ th'[t].slot = th[t].slot /\ th'[t].who = th[t].who
      /\ \A u \in Threads : u # t => th'[u] = th[u]
  BY <1>1 DEF Unadd, TypeOK, Thread
<1>4. Distinct' /\ Selectable'
  BY <1>1 DEF InOrder, Distinct, Selectable
<1>5. \A u \in Threads : u # t => OwnClient(u)'
  BY <1>1, <1>3, OthersKeep DEF Busy, Closing
<1>6. OwnClient(t)'
  <2>1. FdOf(t)' = FdOf(t) /\ Quiet(t)' = Quiet(t)
    BY <1>1, <1>3 DEF FdOf, Quiet
  <2>2. \A u \in Threads : th'[u].pc \in Busy /\ th'[u].slot = th[t].slot => u = t
    BY <1>1, <1>2, <1>3 DEF OwnClient, Busy, Closing
  <2> QED
    BY <1>1, <1>2, <1>3, <2>1, <2>2 DEF OwnClient, Busy, Closing
<1>7. MainsClient' /\ Listened'
  BY <1>1, <1>3, StaysBusy DEF Busy, Closing
<1> QED
  BY <1>4, <1>5, <1>6, <1>7 DEF InOrder

LEMMA LowerKeeps ==
  ASSUME TypeInv, InOrder, NEW t \in Threads, Lower(t), races' = {}
  PROVE  InOrder'
<1>1. /\ TypeOK /\ th[t].pc = "lower" /\ th[t].slot \in Slots /\ FdOf(t) \in Fds
      /\ UNCHANGED <<pool, rds, file, cl, main, ending>> /\ LowerMaxFd(th[t].top)
  BY DEF TypeInv, Slotted, Lower, At
<1>2. OwnClient(t) /\ th[t].top \in 0..NFds
  BY <1>1 DEF InOrder, TypeOK, Thread
<1>3. /\ th'[t].pc = "shut" /\ th'[t].slot = th[t].slot /\ th'[t].who = th[t].who
      /\ \A u \in Threads : u # t => th'[u] = th[u]
  BY <1>1 DEF Lower, Goto, TypeOK, Thread
<1>4. \A f \in rds : f < max_fd'
  BY <1>1, <1>2, LoweringKeeps
<1>5. Distinct' /\ Selectable'
  BY <1>1, <1>4 DEF InOrder, Distinct, Selectable
<1>6. \A u \in Threads : u # t => OwnClient(u)'
  BY <1>1, <1>3, OthersKeep DEF Busy, Closing
<1>7. OwnClient(t)'
  <2>1. FdOf(t)' = FdOf(t) /\ Quiet(t)' = Quiet(t)
    BY <1>1, <1>3 DEF FdOf, Quiet
  <2>2. \A u \in Threads : th'[u].pc \in Busy /\ th'[u].slot = th[t].slot => u = t
    BY <1>1, <1>2, <1>3 DEF OwnClient, Busy, Closing
  <2> QED
    BY <1>1, <1>2, <1>3, <2>1, <2>2 DEF OwnClient, Busy, Closing
<1>8. MainsClient' /\ Listened'
  BY <1>1, <1>3, StaysBusy DEF Busy, Closing
<1> QED
  BY <1>5, <1>6, <1>7, <1>8 DEF InOrder

LEMMA ShutKeeps ==
  ASSUME TypeInv, InOrder, NEW t \in Threads, Shut(t)
  PROVE  InOrder'
<1> DEFINE f == FdOf(t)
<1>1. /\ TypeOK /\ th[t].pc = "shut" /\ th[t].slot \in Slots /\ f \in Fds
      /\ UNCHANGED <<pool, rds, max_fd, main, ending>> /\ Closed(f)
  BY DEF TypeInv, Slotted, Shut, At
<1>2. OwnClient(t)
  BY DEF InOrder
<1>3. /\ th'[t].pc = "remove" /\ th'[t].slot = th[t].slot
      /\ \A u \in Threads : u # t => th'[u] = th[u]
  BY <1>1 DEF Shut, Goto, TypeOK, Thread
<1>4. f = pool[th[t].slot].fd /\ pool[th[t].slot].used /\ f \notin rds
  BY <1>1, <1>2 DEF OwnClient, Busy, Closing, FdOf
<1>5. FdOf(t)' = f
  BY <1>1, <1>3 DEF FdOf
<1> HIDE DEF f
<1>6. /\ file'[f] = Null
      /\ \A g \in Fds : g # f => file'[g] = file[g]
      /\ \A c \in Clients : /\ cl'[c].st \in {cl[c].st, "dropped"} /\ cl'[c].cmd = cl[c].cmd
                            /\ cl'[c].len = cl[c].len
                            /\ cl'[c].sent = cl[c].sent /\ cl'[c].read = cl[c].read
                            /\ cl'[c].wait => cl[c].wait
  <2>1. TypeOK /\ f \in Fds /\ Closed(f)
    BY <1>1
  <2> QED
    BY <2>1, Closing2
<1>7. \A s \in Slots : pool[s].used /\ pool[s].fd = f => s = th[t].slot
  BY <1>1, <1>4 DEF InOrder, Distinct
<1>8. Distinct'
  <2>1. \A g, h \in Fds : file'[g] # Null /\ file'[g] = file'[h] => g = h
    BY <1>6 DEF InOrder, Distinct
  <2>2. \A d \in Clients : cl'[d].st = "queued" => \A g \in Fds : file'[g] # d
    <3>1. Null \notin Clients
      BY ClientsConstants
    <3> QED
      BY <1>6, <3>1 DEF InOrder, Distinct
  <2> QED
    BY <1>1, <2>1, <2>2 DEF InOrder, Distinct
<1>9. Selectable'
  <2>1. \A g \in rds : g \in Fds \cup {CommandFd} /\ g # f
    BY <1>1, <1>4 DEF TypeOK
  <2> QED
    BY <1>1, <1>6, <2>1 DEF InOrder, Selectable
<1>10. ASSUME NEW u \in Threads, u # t PROVE OwnClient(u)'
  <2> SUFFICES ASSUME th[u].pc \in Busy PROVE OwnClient(u)'
    BY <1>3, <1>10 DEF OwnClient
  <2>1. OwnClient(u) /\ th[u].slot \in Slots /\ FdOf(u) \in Fds
    BY DEF InOrder, TypeInv, Slotted, Busy, Closing
  <2>2. th[u].slot # th[t].slot
    BY <1>1, <1>2, <1>10 DEF OwnClient, Busy, Closing
  <2>3. FdOf(u)' = FdOf(u) /\ FdOf(u) # f /\ th'[u] = th[u]
    BY <1>1, <1>3, <1>7, <1>10, <2>1, <2>2 DEF OwnClient, FdOf
  <2>4. Seen(u)' = Seen(u)
    BY <1>1, <2>3 DEF Seen
  <2>5. th[u].pc # "remove" /\ Quiet(u) => Quiet(u)'
    BY <1>6, <2>1, <2>3 DEF OwnClient, Quiet
  <2>6. \A v \in Threads : th'[v].pc \in Busy /\ th'[v].slot = th[u].slot => v = u
    BY <1>3, <2>1, <2>2 DEF OwnClient
  <2> QED
    BY <1>1, <1>6, <2>1, <2>3, <2>4, <2>5, <2>6 DEF OwnClient
<1>11. OwnClient(t)'
  <2>1. \A u \in Threads : th'[u].pc \in Busy /\ th'[u].slot = th[t].slot => u = t
    BY <1>1, <1>2, <1>3 DEF OwnClient, Busy, Closing
  <2>2. ~(main.pc = "lower" /\ main.slot = th[t].slot)
    BY <1>1, <1>2 DEF OwnClient, Busy, Closing
  <2> QED
    BY <1>1, <1>3, <1>4, <1>5, <1>6, <2>1, <2>2 DEF OwnClient, Closing
<1>12. MainsClient'
  <2>1. main.pc = "lower" => pool[main.slot].fd \in Fds /\ pool[main.slot].fd # f
    BY <1>1, <1>2, <1>7 DEF InOrder, MainsClient, TypeInv, Slotted, OwnClient, Busy, Closing
  <2>2. main.pc \in {"read", "drop"} => pool[main.slot].fd \in Fds
    BY DEF TypeInv, Slotted
  <2> QED
    BY <1>1, <1>6, <2>1, <2>2 DEF InOrder, MainsClient
<1>13. Listened'
  <2>1. \A s \in Slots, u \in Threads : BusyOn(u, s) => BusyOn(u, s)'
    BY <1>1, <1>3 DEF BusyOn, Busy, Closing
  <2> SUFFICES ASSUME ending = "no", NEW s \in Slots, pool[s].used, ~Forgotten(s)',
                      \A u \in Threads : ~BusyOn(u, s)', ~(main.pc = "lower" /\ main.slot = s)
               PROVE  pool[s].fd \in rds
    BY <1>1 DEF Listened
  <2>2. pool[s].fd # f /\ pool[s].fd \in Fds
    BY <1>3, <1>7 DEF BusyOn, Busy, Closing, TypeInv, Slotted
  <2>3. ~Forgotten(s)
    BY <1>1, <1>6, <2>2, StillForgotten
  <2> QED
    BY <2>1, <2>3 DEF InOrder, Listened
<1> QED
  BY <1>8, <1>9, <1>10, <1>11, <1>12, <1>13 DEF InOrder

LEMMA RemoveClientKeeps ==
  ASSUME TypeInv, InOrder, NEW t \in Threads, RemoveClient(t)
  PROVE  InOrder'
<1>1. /\ TypeOK /\ th[t].pc = "remove" /\ th[t].slot \in Slots
      /\ UNCHANGED <<rds, max_fd, file, cl, main, ending>>
      /\ pool' = [pool EXCEPT ![th[t].slot].used = FALSE]
  BY DEF TypeInv, Slotted, RemoveClient, At
<1>2. OwnClient(t)
  BY DEF InOrder
<1>3. th'[t].pc = "none" /\ \A u \in Threads : u # t => th'[u] = th[u]
  BY <1>1 DEF RemoveClient, Finish, TypeOK, NoThread
<1>4. \A s \in Slots : /\ pool'[s].fd = pool[s].fd
                       /\ pool'[s].used => pool[s].used /\ s # th[t].slot
                       /\ s # th[t].slot => pool'[s].used = pool[s].used
  BY <1>1 DEF TypeOK, Slot
<1>5. Distinct' /\ Selectable'
  BY <1>1, <1>4 DEF InOrder, Distinct, Selectable
<1>6. ASSUME NEW u \in Threads PROVE OwnClient(u)'
  <2> SUFFICES ASSUME th'[u].pc \in Busy PROVE OwnClient(u)'
    BY DEF OwnClient
  <2>1. u # t /\ th'[u] = th[u]
    BY <1>3 DEF Busy, Closing
  <2>2. OwnClient(u) /\ th[u].slot \in Slots
    BY <2>1 DEF InOrder, TypeInv, Slotted, Busy, Closing
  <2>3. FdOf(u)' = FdOf(u) /\ Quiet(u)' = Quiet(u)
    BY <1>1, <1>4, <2>1, <2>2 DEF FdOf, Quiet
  <2>4. Seen(u)' = Seen(u)
    BY <1>1, <2>1, <2>3 DEF Seen
  <2>5. \A v \in Threads : th'[v].pc \in Busy => th[v] = th'[v]
    BY <1>3 DEF Busy, Closing
  <2>6. th[u].slot # th[t].slot
    BY <1>1, <1>2, <2>1 DEF OwnClient, Busy, Closing
  <2> QED
    BY <1>1, <1>4, <2>1, <2>2, <2>3, <2>4, <2>5, <2>6 DEF OwnClient
<1>7. MainsClient'
  <2>1. /\ file[FdOf(t)] = Null /\ FdOf(t) \notin rds
        /\ ~(main.pc = "lower" /\ main.slot = th[t].slot)
    BY <1>1, <1>2 DEF OwnClient, Busy, Closing
  <2>2. main.pc \in {"read", "drop", "lower"} => main.slot \in Slots
    BY DEF TypeInv, Slotted
  <2> QED
    BY <1>1, <1>4, <2>1, <2>2 DEF InOrder, MainsClient, FdOf
<1>8. Listened'
  <2> SUFFICES ASSUME ending' = "no", NEW s \in Slots, pool'[s].used,
                      \A u \in Threads : ~BusyOn(u, s)', ~(main'.pc = "lower" /\ main'.slot = s),
                      ~Forgotten(s)'
               PROVE  pool'[s].fd \in rds'
    BY DEF Listened
  <2>0. pool[s].used /\ pool'[s].fd = pool[s].fd /\ s # th[t].slot
    BY <1>4
  <2>1. \A u \in Threads : ~BusyOn(u, s)
    BY <1>3, <2>0 DEF BusyOn
  <2>2. ~Forgotten(s)
    BY <1>1, <2>0 DEF Forgotten
  <2> QED
    BY <1>1, <2>0, <2>1, <2>2 DEF InOrder, Listened
<1> QED
  BY <1>5, <1>6, <1>7, <1>8 DEF InOrder

-----------------------------------------------------------------------------
(* The theorems *)

\* Races are not forgotten, the end is not undone, and nothing happens after it.
LEMMA WasOrderly ==
  ASSUME TypeInv, DeadInv, Next, Orderly'
  PROVE  Orderly
<1>1. races \subseteq races'
  <2>1. CASE ClientStep
    BY <2>1 DEF ClientStep, Connect, Arrive, Leave, Ask
  <2>2. CASE MainLoop
    BY <2>2 DEF MainLoop, Copy, Select, Accept, FindClient, ReadEnd, ReadShort, ReadPart, ReadAll,
         StartThread, LowerMaxFd, Clear, Drop
  <2>3. CASE End
    BY <2>3 DEF End
  <2>4. CASE \E t \in Threads : Run(t)
    BY <2>4 DEF Run, Answer, Mute, Exit, Continue, Reset, Close, Unadd, Lower, LowerMaxFd, Shut, RemoveClient
  <2> QED
    BY <2>1, <2>2, <2>3, <2>4 DEF Next
<1>2. ending = "over" => ending' = "over"
  <2>1. CASE ClientStep
    BY <2>1 DEF ClientStep, Connect, Arrive, Leave, Ask
  <2>2. CASE MainLoop
    BY <2>2 DEF MainLoop, Copy, Select, Accept, FindClient, ReadEnd, ReadShort, ReadPart, ReadAll,
         StartThread, Clear, Drop
  <2>3. CASE End
    BY <2>3 DEF End
  <2>4. CASE \E t \in Threads : Run(t)
    BY <2>4 DEF Run, Answer, Mute, Exit, Continue, Reset, Close, Unadd, Lower, Shut, RemoveClient
  <2> QED
    BY <2>1, <2>2, <2>3, <2>4 DEF Next
<1>3. MainAt("dead") => MainAt("dead")'
  <2> SUFFICES ASSUME main.pc = "dead" PROVE main'.pc = "dead"
    BY DEF MainAt
  <2>1. CASE ClientStep
    BY <2>1 DEF ClientStep, Connect, Arrive, Leave, Ask
  <2>2. ~MainLoop
    BY DEF MainLoop, MainAt, Copy, Select, Accept, FindClient, ReadEnd, ReadShort, ReadPart, ReadAll,
         Reads, StartThread, Clear, Drop
  <2>3. ~End
    BY DEF End, MainAt
  <2>4. \A t \in Threads : ~Run(t)
    BY DEF DeadInv, MainAt, Run, At, Answer, Mute, Exit, Continue, Reset, Close, Unadd, Lower, Shut,
         RemoveClient
  <2> QED
    BY <2>1, <2>2, <2>3, <2>4 DEF Next
<1> QED
  BY <1>1, <1>2, <1>3 DEF Orderly

\* The process ends when it has been asked to; otherwise one of the races made it.
LEMMA DeadKept ==
  ASSUME TypeInv, DeadInv, Next
  PROVE  DeadInv'
<1>1. CASE MainAt("dead")
  <2>1. \A t \in Threads : th[t].pc = "none"
    BY <1>1 DEF DeadInv
  <2>2. ClientStep
    <3>1. ~MainLoop
      BY <1>1 DEF MainLoop, MainAt, Copy, Select, Accept, FindClient, ReadEnd, ReadShort, ReadPart,
           ReadAll, Reads, StartThread, Clear, Drop
    <3>2. ~End
      BY <1>1 DEF End
    <3>3. \A t \in Threads : ~Run(t)
      BY <2>1 DEF Run, At, Answer, Mute, Exit, Continue, Reset, Close, Unadd, Lower, Shut, RemoveClient
    <3> QED
      BY <3>1, <3>2, <3>3 DEF Next
  <2>3. UNCHANGED <<th, races, ending>>
    BY <2>2, Zenon DEF ClientStep, Connect, Arrive, Leave, Ask
  <2> QED
    BY <1>1, <2>3 DEF DeadInv
<1>2. CASE ~MainAt("dead")
  <2> SUFFICES ASSUME main'.pc = "dead"
               PROVE  (\A t \in Threads : th'[t].pc = "none") /\ (races' = {} => ending' = "over")
    BY DEF DeadInv, MainAt
  <2>1. main \in Main /\ main.pc # "dead"
    BY <1>2 DEF TypeInv, TypeOK, MainAt
  <2>2. main' # main /\ main' # AtTop
    BY <2>1, AtTopTyped
  <2>3. Select \/ ReadShort \/ Drop
    <3>1. ~ClientStep /\ ~End /\ \A t \in Threads : ~Run(t)
      BY <2>2 DEF ClientStep, Connect, Arrive, Leave, Ask, End, Run, Answer, Mute, Exit, Continue, Reset,
           Close, Unadd, Lower, Shut, RemoveClient
    <3>2. ~Copy
      BY AtTopTyped DEF Copy, Main
    <3>3. ~Accept /\ ~Clear
      BY <2>2 DEF Accept, Clear, Loop
    <3>4. ~FindClient
      BY <2>1, <2>2 DEF FindClient, Loop, Main
    <3>5. ~ReadEnd /\ ~ReadPart /\ ~ReadAll /\ ~StartThread
      BY <2>1, <2>2 DEF ReadEnd, ReadPart, ReadAll, StartThread, Loop, Main
    <3> QED
      BY <3>1, <3>2, <3>3, <3>4, <3>5 DEF Next, MainLoop
  <2>4. CASE Select
    <3>1. Die /\ ending' = "over"
      BY <2>1, <2>2, <2>4 DEF Select, Ended, Loop, Main
    <3> QED
      BY <3>1 DEF Die, NoThread
  <2>5. CASE ReadShort
    <3>1. Die /\ races' # {}
      BY <2>5 DEF ReadShort
    <3> QED
      BY <3>1 DEF Die, NoThread
  <2>6. CASE Drop
    <3>1. Die
      BY <2>2, <2>6 DEF Drop, Loop
    <3>2. MainAt("dead")'
      BY DEF MainAt
    <3>3. "bad_join" \in races'
      BY <2>6, <3>2 DEF Drop
    <3> QED
      BY <3>1, <3>3 DEF Die, NoThread
  <2> QED
    BY <2>3, <2>4, <2>5, <2>6
<1> QED
  BY <1>1, <1>2

LEMMA InitKeeps == Init => ClientsInv
<1> SUFFICES ASSUME Init PROVE ClientsInv
  OBVIOUS
<1>1. /\ \A s \in Slots : ~pool[s].used
      /\ \A t \in Threads : th[t].pc = "none"
      /\ \A f \in Fds : file[f] = Null
      /\ \A c \in Clients : cl[c].st = "new"
  BY DEF Init, EmptySlot, NoThread, NewClient
<1>2. main.pc = "top" /\ rds = {CommandFd} /\ max_fd = 1
  BY DEF Init, AtTop
<1>3. Distinct
  BY <1>1 DEF Distinct
<1>4. Selectable
  BY <1>2 DEF Selectable, CommandFd
<1>5. \A t \in Threads : OwnClient(t)
  BY <1>1 DEF OwnClient, Busy, Closing
<1>6. MainsClient /\ Listened
  BY <1>1, <1>2 DEF MainsClient, Listened
<1>7. DeadInv
  BY <1>2 DEF DeadInv, MainAt
<1> QED
  BY <1>3, <1>4, <1>5, <1>6, <1>7 DEF ClientsInv, InOrder

LEMMA NextKeeps == TypeInv /\ ClientsInv /\ [Next]_vars => ClientsInv'
<1> SUFFICES ASSUME TypeInv, ClientsInv, [Next]_vars PROVE ClientsInv'
  OBVIOUS
<1>1. TypeInv'
  BY NextTypes
<1>2. CASE Next
  <2>1. DeadInv'
    BY <1>2, DeadKept DEF ClientsInv
  <2>2. ASSUME Orderly' PROVE InOrder'
    <3>1. Orderly
      BY <1>2, <2>2, WasOrderly DEF ClientsInv
    <3>2. InOrder /\ races' = {} /\ ending' # "over" /\ ~MainAt("dead")'
      BY <2>2, <3>1 DEF ClientsInv, Orderly
    <3>3. CASE ClientStep
      BY <3>2, <3>3, ClientStepKeeps
    <3>4. CASE MainLoop
      <4>1. ~ReadShort
        BY <3>2 DEF ReadShort
      <4> QED
        BY <1>1, <3>2, <3>4, <4>1, CopyKeeps, SelectKeeps, AcceptKeeps, FindClientKeeps, ReadEndKeeps,
           ReadPartKeeps, ReadAllKeeps, StartThreadKeeps, ClearKeeps, DropKeeps DEF MainLoop
    <3>5. ~End
      BY <3>2 DEF End
    <3>6. CASE \E t \in Threads : Run(t)
      BY <3>2, <3>6, AnswerKeeps, MuteKeeps, ExitKeeps, ContinueKeeps, ResetKeeps, CloseKeeps, UnaddKeeps,
         LowerKeeps, ShutKeeps, RemoveClientKeeps DEF Run
    <3> QED
      BY <1>2, <3>3, <3>4, <3>5, <3>6 DEF Next
  <2> QED
    BY <2>1, <2>2 DEF ClientsInv
<1>3. CASE UNCHANGED vars
  <2>1. Orderly' = Orderly /\ DeadInv' = DeadInv
    BY <1>3 DEF vars, Orderly, MainAt, DeadInv
  <2>2. Distinct' = Distinct /\ Selectable' = Selectable /\ MainsClient' = MainsClient /\ Listened' = Listened
    BY <1>3 DEF vars, Distinct, Selectable, MainsClient, Listened, BusyOn, Forgotten
  <2>3. \A t \in Threads : OwnClient(t) => OwnClient(t)'
    BY <1>3 DEF vars, OwnClient, FdOf, Quiet, Seen
  <2> QED
    BY <2>1, <2>2, <2>3 DEF ClientsInv, InOrder
<1> QED
  BY <1>2, <1>3

LEMMA ClientsAlways == Spec => [](TypeInv /\ ClientsInv)
<1>1. Init => TypeInv /\ ClientsInv
  BY InitTypes, InitKeeps
<1>2. TypeInv /\ ClientsInv /\ [Next]_vars => (TypeInv /\ ClientsInv)'
  BY NextTypes, NextKeeps
<1> QED
  BY <1>1, <1>2, PTL DEF Spec

\* Whatever command threads have taken out of main loop's descriptor set, put back and
\* closed: a client that main loop and the threads have done with is listened to,
\* unless its command was one that no handler answers.
THEOREM ClientsAreHeard == Spec => []Heard
<1>1. TypeInv /\ ClientsInv => Heard
  <2> SUFFICES ASSUME TypeInv, ClientsInv, races = {}, ending = "no", ~MainAt("dead"),
                      NEW s \in Slots, pool[s].used, ~InHand(s), ~Forgotten(s)
               PROVE  pool[s].fd \in rds /\ pool[s].fd < max_fd
    BY DEF Heard
  <2>1. InOrder
    BY DEF ClientsInv, Orderly
  <2>2. main.slot # s /\ \A t \in Threads : ~BusyOn(t, s)
    BY DEF InHand, BusyOn
  <2>3. pool[s].fd \in rds
    BY <2>1, <2>2 DEF InOrder, Listened
  <2> QED
    BY <2>1, <2>3 DEF InOrder, Selectable
<1> QED
  BY <1>1, ClientsAlways, PTL

\* What main loop gives to pselect() is open, until the pool is emptied at the end.
THEOREM ClientsFdsAreOpen == Spec => []NoBadDescriptor
<1>1. ClientsInv => NoBadDescriptor
  BY DEF ClientsInv, InOrder, Selectable, Orderly, NoBadDescriptor
<1> QED
  BY <1>1, ClientsAlways, PTL

\* afpfsd ends because a client has asked it to, after the forced ending hook.
THEOREM DaemonEndsWhenAsked == Spec => []EndsWhenAsked
<1>1. ClientsInv => EndsWhenAsked
  BY DEF ClientsInv, DeadInv, EndsWhenAsked
<1> QED
  BY <1>1, ClientsAlways, PTL

\* A command thread at work answers on the connection of the client that sent the command.
THEOREM ThreadsAnswerTheAsker == Spec => AnswersTheAsker
<1> DEFINE Mine == \A t \in Threads :
                     races = {} /\ ending # "over" /\ At(t, "work") /\ ~MainAt("dead")'
                       => file[FdOf(t)] = th[t].who
<1>1. TypeInv /\ ClientsInv => Mine
  <2> SUFFICES ASSUME ClientsInv, NEW t \in Threads, races = {}, ending # "over", At(t, "work")
               PROVE  file[FdOf(t)] = th[t].who
    OBVIOUS
  <2>1. ~MainAt("dead")
    BY DEF ClientsInv, DeadInv, At
  <2>2. OwnClient(t)
    BY <2>1 DEF ClientsInv, Orderly, InOrder
  <2> QED
    BY <2>2 DEF OwnClient, At, Busy
<1>2. TypeInv /\ ClientsInv /\ [Next]_vars => [Mine]_vars
  BY <1>1
<1>3. Spec => [][Mine]_vars
  <2> HIDE DEF Mine
  <2> QED
    BY <1>2, ClientsAlways, PTL DEF Spec
<1> QED
  BY <1>3 DEF AnswersTheAsker
=============================================================================
