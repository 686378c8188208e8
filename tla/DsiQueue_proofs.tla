--------------------------- MODULE DsiQueue_proofs ---------------------------
(***************************************************************************)
(* Theorems about the DSI request engine, for every set of callers, every  *)
(* heap, every bound and every combination of faults: first the list of    *)
(* requests, then what the engine gives back.  As long as none of the      *)
(* races has happened, a call returns the code of its own reply, replies   *)
(* are unpacked only into the memory of the call they answer, and the      *)
(* engine implements its contract, DsiService.                             *)
(***************************************************************************)
EXTENDS DsiQueue, SequenceTheorems, TLAPS

-----------------------------------------------------------------------------
(* Unlinking a request from the list *)

\* RemoveAt, which models the unlinking of the i-th request in
\* dsi_remove_from_request_queue(), shortens the list by one and shifts what
\* follows.
LEMMA RemoveAtFacts ==
  ASSUME NEW S, NEW s \in Seq(S), NEW i \in 1..Len(s)
  PROVE  /\ RemoveAt(s, i) \in Seq(S)
         /\ Len(RemoveAt(s, i)) = Len(s) - 1
         /\ \A j \in 1..(Len(s) - 1) : RemoveAt(s, i)[j] = IF j < i THEN s[j] ELSE s[j + 1]
<1> DEFINE a == SubSeq(s, 1, i - 1)
           b == SubSeq(s, i + 1, Len(s))
<1>1. Len(s) \in Nat /\ \A j \in 1..Len(s) : s[j] \in S
  BY LenProperties, ElementOfSeq
<1>2. /\ a \in Seq(S) /\ Len(a) = i - 1
      /\ \A j \in 1..(i - 1) : a[j] = s[j]
  <2>1. i - 1 \in Int /\ \A j \in 1..(i - 1) : s[j] \in S
    BY <1>1
  <2>2. QED
    BY <1>1, <2>1, SubSeqProperties
<1>3. /\ b \in Seq(S) /\ Len(b) = Len(s) - i
      /\ \A j \in 1..(Len(s) - i) : b[j] = s[i + j]
  <2>1. i + 1 \in Int /\ Len(s) \in Int /\ \A j \in (i + 1)..Len(s) : s[j] \in S
    BY <1>1
  <2>2. QED
    BY <1>1, <2>1, SubSeqProperties
<1>4. /\ a \o b \in Seq(S)
      /\ Len(a \o b) = Len(a) + Len(b)
      /\ \A j \in 1..(Len(a) + Len(b)) : (a \o b)[j] = IF j <= Len(a) THEN a[j] ELSE b[j - Len(a)]
  BY <1>2, <1>3, ConcatProperties
<1>5. RemoveAt(s, i) = a \o b
  BY DEF RemoveAt
<1> HIDE DEF a, b
<1>6. ASSUME NEW j \in 1..(Len(s) - 1)
      PROVE  (a \o b)[j] = IF j < i THEN s[j] ELSE s[j + 1]
  <2>1. j \in 1..(Len(a) + Len(b)) /\ i \in Nat
    BY <1>1, <1>2, <1>3
  <2>2. CASE j < i
    BY <1>1, <1>2, <1>4, <2>1, <2>2
  <2>3. CASE ~(j < i)
    <3>1. (a \o b)[j] = b[j - (i - 1)] /\ j - (i - 1) \in 1..(Len(s) - i)
      BY <1>1, <1>2, <1>4, <2>1, <2>3
    <3>2. b[j - (i - 1)] = s[i + (j - (i - 1))]
      BY <1>3, <3>1
    <3>3. i + (j - (i - 1)) = j + 1
      BY <2>1
    <3>4. QED
      BY <2>3, <3>1, <3>2, <3>3
  <2>4. QED
    BY <2>2, <2>3
<1>7. QED
  BY <1>1, <1>2, <1>3, <1>4, <1>5, <1>6

-----------------------------------------------------------------------------
(* Type correctness *)

\* The values the actions write into a frame have its types.
LEMMA Members ==
  /\ {"idle", "header", "send", "append", "check", "write", "branch",
      "enter", "waiting", "code", "remove", "stuck"} \subseteq SendPCs
  /\ {"none", "unwaited", "ok", "unanswered", "wrong", "timeout", "error"} \subseteq Results
  /\ {"select", "store", "process", "tickling", "finish", "signal"} \subseteq LoopPCs
  /\ "none" \in WaitKinds
  /\ 0 \in Ids /\ 0 \in CallNums
  /\ Loop \in Senders
BY DsiConstants DEF SendPCs, Results, LoopPCs, WaitKinds, Ids, CallNums, Senders

\* A step of thread t that changes its program counter, its result or its
\* whole frame leaves a function from senders to frames.
LEMMA FrameFacts ==
  ASSUME TypeOK, NEW t \in Senders
  PROVE  /\ \A pc \in SendPCs : [th EXCEPT ![t].pc = pc] \in [Senders -> Frame]
         /\ \A pc \in SendPCs, rc \in Results :
              [th EXCEPT ![t].pc = pc, ![t].rc = rc] \in [Senders -> Frame]
         /\ \A pc \in SendPCs, id \in Ids :
              [th EXCEPT ![t].pc = pc, ![t].id = id] \in [Senders -> Frame]
         /\ \A pc \in SendPCs, w \in WaitKinds :
              [th EXCEPT ![t].pc = pc, ![t].wait = w] \in [Senders -> Frame]
         /\ \A pc \in SendPCs, b \in Blocks :
              [th EXCEPT ![t].pc = pc, ![t].block = b] \in [Senders -> Frame]
         /\ \A fr \in Frame : [th EXCEPT ![t] = fr] \in [Senders -> Frame]
<1>1. \A fr \in Frame : [th EXCEPT ![t] = fr] \in [Senders -> Frame]
  BY DEF TypeOK
<1>2. th[t] \in Frame
  BY DEF TypeOK
<1>3. ASSUME NEW pc \in SendPCs
      PROVE  /\ [th EXCEPT ![t].pc = pc] \in [Senders -> Frame]
             /\ \A rc \in Results : [th EXCEPT ![t].pc = pc, ![t].rc = rc] \in [Senders -> Frame]
  <2>1. [th[t] EXCEPT !.pc = pc] \in Frame
    BY <1>2 DEF Frame
  <2>2. \A rc \in Results : [th[t] EXCEPT !.pc = pc, !.rc = rc] \in Frame
    BY <1>2 DEF Frame
  <2>3. QED
    BY <2>1, <2>2 DEF TypeOK
<1>4. ASSUME NEW pc \in SendPCs, NEW id \in Ids
      PROVE  [th EXCEPT ![t].pc = pc, ![t].id = id] \in [Senders -> Frame]
  <2>1. [th[t] EXCEPT !.pc = pc, !.id = id] \in Frame
    BY <1>2 DEF Frame
  <2>2. QED
    BY <2>1 DEF TypeOK
<1>5. ASSUME NEW pc \in SendPCs, NEW w \in WaitKinds
      PROVE  [th EXCEPT ![t].pc = pc, ![t].wait = w] \in [Senders -> Frame]
  <2>1. [th[t] EXCEPT !.pc = pc, !.wait = w] \in Frame
    BY <1>2 DEF Frame
  <2>2. QED
    BY <2>1 DEF TypeOK
<1>6. ASSUME NEW pc \in SendPCs, NEW b \in Blocks
      PROVE  [th EXCEPT ![t].pc = pc, ![t].block = b] \in [Senders -> Frame]
  <2>1. [th[t] EXCEPT !.pc = pc, !.block = b] \in Frame
    BY <1>2 DEF Frame
  <2>2. QED
    BY <2>1 DEF TypeOK
<1>7. QED
  BY <1>1, <1>3, <1>4, <1>5, <1>6

\* A sender that has returned is a frame.
LEMMA IdleFrame ==
  \A k \in CallNums, rc \in Results : Idle(k, rc) \in Frame
BY Members DEF Idle, Frame

\* Return writes a frame.
LEMMA ReturnType ==
  ASSUME TypeOK, NEW t \in Senders, NEW rc \in Results, Return(t, rc)
  PROVE  th' \in [Senders -> Frame]
<1>1. th[t].call \in CallNums
  BY DEF TypeOK, Frame
<1>2. th' = [th EXCEPT ![t] = Idle(th[t].call, rc)]
  BY DEF Return, TypeOK
<1>3. QED
  BY <1>1, <1>2, IdleFrame, FrameFacts

\* dsi_setup_header() preserves the types of what it writes.
LEMMA BeginType ==
  ASSUME TypeOK, NEW t \in Senders, NEW k \in CallNums, NEW w \in WaitKinds, Begin(t, k, w)
  PROVE  /\ lastrequestid' \in Ids
         /\ th' \in [Senders -> Frame]
         /\ got' \in [Senders -> CallNums]
         /\ races' \in SUBSET RaceKinds /\ woken' \in SUBSET Senders
<1>1. lastrequestid' \in Ids
  BY DsiConstants DEF TypeOK, Begin, NextId, Ids
<1>2. th' \in [Senders -> Frame]
  <2>1. [pc |-> "header", call |-> k, id |-> 0, wait |-> w, block |-> NoBlock,
         rc |-> IF w = "none" THEN "unwaited" ELSE "none"] \in Frame
    BY Members DEF Frame
  <2>2. QED
    BY <2>1, FrameFacts DEF Begin
<1>3. got' \in [Senders -> CallNums]
  BY Members DEF TypeOK, Begin
<1>4. races' \in SUBSET RaceKinds /\ woken' \in SUBSET Senders
  BY DEF TypeOK, Begin, RaceKinds
<1>5. QED
  BY <1>1, <1>2, <1>3, <1>4

\* dsi_remove_from_request_queue() preserves the types of what it writes,
\* provided that the count is that of the list.
LEMMA RemoveType ==
  ASSUME TypeOK, PendingMatches, NEW b, RemoveIfValid(b)
  PROVE  queue' \in Seq(Blocks) /\ pending' \in Nat /\ allocated' \in SUBSET Blocks
<1>1. CASE \E i \in 1..Len(queue) :
             /\ queue[i] = b
             /\ queue' = RemoveAt(queue, i)
             /\ pending' = pending - 1
             /\ allocated' = allocated \ {b}
  BY <1>1, RemoveAtFacts DEF TypeOK, PendingMatches
<1>2. CASE UNCHANGED <<queue, pending, allocated>>
  BY <1>2 DEF TypeOK
<1>3. QED
  BY <1>1, <1>2 DEF RemoveFromQueue, RemoveIfValid

-----------------------------------------------------------------------------
(* The inductive invariant *)

\* A call that has its request holds a pointer to a heap block, not NULL.
HoldsRequest ==
  \A t \in Senders :
    th[t].pc \in {"append", "check", "write", "branch", "enter", "waiting", "code", "remove"}
      => th[t].block \in Blocks

\* A request that is about to be listed is not on the list yet, and is not the
\* one another thread is about to list, as long as there is a server.
AppendsFresh ==
  removal.pc # "freed" =>
    \A t \in Senders : At(t, "append") =>
      /\ th[t].block \notin ToSet(queue)
      /\ \A u \in Senders : At(u, "append") /\ u # t => th[u].block # th[t].block

QueueInv == PendingMatches /\ RequestsAccounted /\ AppendsFresh

IInv == TypeOK /\ HoldsRequest /\ QueueInv

LEMMA InitIInv == Init => IInv
<1> SUFFICES ASSUME Init PROVE IInv
  OBVIOUS
<1>1. TypeOK
  <2>1. queue \in Seq(Blocks) /\ pending \in Nat
    BY EmptySeq DEF Init
  <2>2. heap \in [Blocks -> Request]
    BY Members DEF Init, Request
  <2>3. loop \in LoopState
    BY Members DEF Init, Selecting, LoopState, Packet
  <2>4. th \in [Senders -> Frame]
    BY Members, IdleFrame DEF Init
  <2>5. lastrequestid \in Ids /\ got \in [Senders -> CallNums]
    BY Members DEF Init
  <2>6. serverid \in 0..MaxTickles
    BY DsiConstants DEF Init
  <2>7. allocated \in SUBSET Blocks /\ atserver \in SUBSET [id : Ids, call : CallNums]
        /\ races \in SUBSET RaceKinds /\ woken \in SUBSET Senders /\ removal \in RemovalState
    BY DEF Init, RemovalState
  <2>8. connected \in BOOLEAN /\ send_mutex \in Senders \cup {NoThread}
    BY DEF Init
  <2>9. QED
    BY <2>1, <2>2, <2>3, <2>4, <2>5, <2>6, <2>7, <2>8 DEF TypeOK
<1>2. \A t \in Senders : th[t].pc = "idle"
  BY DEF Init, Idle
<1>3. HoldsRequest /\ AppendsFresh
  BY <1>2 DEF HoldsRequest, AppendsFresh, At
<1>4. PendingMatches /\ RequestsAccounted
  <2>1. queue = <<>> /\ Len(queue) = 0 /\ DOMAIN queue = {}
    BY DEF Init
  <2>2. QED
    BY <1>2, <2>1 DEF Init, PendingMatches, RequestsAccounted, IsInjective, ToSet, At
<1>5. QED
  BY <1>1, <1>3, <1>4 DEF IInv, QueueInv

-----------------------------------------------------------------------------
(* Every step preserves the types *)

\* The senders' steps preserve TypeOK.
LEMMA SendType ==
  ASSUME IInv, NEW t \in Senders, Send(t)
  PROVE  TypeOK'
<1> USE Members
<1>0. TypeOK /\ PendingMatches
      /\ (th[t].pc \in {"append", "check", "write", "branch", "enter", "waiting", "code", "remove"}
            => th[t].block \in Blocks)
  BY DEF IInv, QueueInv, HoldsRequest
<1>1. CASE CopyId(t)
  BY <1>0, <1>1, FrameFacts DEF CopyId, TypeOK
<1>2. CASE Allocate(t)
  <2>1. CASE \E b \in Blocks \ allocated :
               /\ StillValid
               /\ allocated' = allocated \cup {b}
               /\ heap' = [heap EXCEPT ![b] = [id |-> lastrequestid, wait |-> th[t].wait,
                                               done |-> FALSE, code |-> 0, other |-> t]]
               /\ th' = [th EXCEPT ![t].pc = "append", ![t].block = b]
    <3>1. PICK b \in Blocks \ allocated :
               /\ allocated' = allocated \cup {b}
               /\ heap' = [heap EXCEPT ![b] = [id |-> lastrequestid, wait |-> th[t].wait,
                                               done |-> FALSE, code |-> 0, other |-> t]]
               /\ th' = [th EXCEPT ![t].pc = "append", ![t].block = b]
      BY <2>1
    <3>2. [id |-> lastrequestid, wait |-> th[t].wait, done |-> FALSE, code |-> 0, other |-> t]
            \in Request
      BY <1>0 DEF TypeOK, Frame, Request
    <3>3. th' \in [Senders -> Frame]
      BY <1>0, <3>1, FrameFacts
    <3>4. heap' \in [Blocks -> Request] /\ allocated' \in SUBSET Blocks
      BY <1>0, <3>1, <3>2 DEF TypeOK
    <3>5. QED
      BY <1>0, <1>2, <3>3, <3>4 DEF Allocate, TypeOK
  <2>2. CASE Return(t, "error") /\ UNCHANGED <<heap, allocated>>
    BY <1>0, <1>2, <2>2, ReturnType DEF Allocate, TypeOK
  <2>3. QED
    BY <1>2, <2>1, <2>2 DEF Allocate
<1>3. CASE AppendRequest(t)
  <2>1. queue' \in Seq(Blocks)
    BY <1>0, <1>3, AppendProperties DEF AppendRequest, TypeOK, At
  <2>2. pending' \in Nat
    BY <1>0, <1>3 DEF AppendRequest, TypeOK
  <2>3. th' \in [Senders -> Frame]
    BY <1>0, <1>3, FrameFacts DEF AppendRequest, Goto
  <2>4. QED
    BY <1>0, <1>3, <2>1, <2>2, <2>3 DEF AppendRequest, TypeOK
<1>4. CASE CheckState(t)
  BY <1>0, <1>4, FrameFacts DEF CheckState, TypeOK, Goto
<1>5. CASE ReconnectFails(t)
  BY <1>0, <1>5, FrameFacts DEF ReconnectFails, TypeOK, Goto
<1>6. CASE ReconnectWorks(t)
  <2>1. lastrequestid' \in Ids
    BY <1>6, DsiConstants DEF ReconnectWorks, Ids
  <2>2. th' \in [Senders -> Frame]
    <3>1. Goto(t, "stuck") \/ Goto(t, "write")
      BY <1>6 DEF ReconnectWorks
    <3>2. CASE Goto(t, "stuck")
      BY <1>0, <3>2, FrameFacts DEF Goto
    <3>3. CASE Goto(t, "write")
      BY <1>0, <3>3, FrameFacts DEF Goto
    <3>4. QED
      BY <3>1, <3>2, <3>3
  <2>3. races' \in SUBSET RaceKinds /\ connected' \in BOOLEAN
    BY <1>0, <1>6 DEF ReconnectWorks, TypeOK, RaceKinds
  <2>4. QED
    BY <1>0, <1>6, <2>1, <2>2, <2>3 DEF ReconnectWorks, TypeOK
<1>7. CASE Write(t)
  <2>1. [id |-> th[t].id, call |-> th[t].call] \in [id : Ids, call : CallNums]
    BY <1>0 DEF TypeOK, Frame
  <2>2. QED
    BY <1>0, <1>7, <2>1, FrameFacts DEF Write, TypeOK, Goto
<1>8. CASE WriteBroken(t)
  BY <1>0, <1>8, ReturnType DEF WriteBroken, TypeOK
<1>9. CASE WriteFails(t)
  BY <1>0, <1>9, FrameFacts DEF WriteFails, TypeOK
<1>10. CASE BranchOnWait(t)
  <2>1. heap[th[t].block].wait \in WaitKinds
    BY <1>0, <1>10 DEF BranchOnWait, At, TypeOK, Request
  <2>2. QED
    BY <1>0, <1>10, <2>1, FrameFacts DEF BranchOnWait, TypeOK
<1>11. CASE EnterWait(t)
  BY <1>0, <1>11, FrameFacts DEF EnterWait, TypeOK, Goto
<1>12. CASE Timeout(t)
  BY <1>0, <1>12, FrameFacts DEF Timeout, TypeOK
<1>13. CASE ReadCode(t)
  <2> DEFINE rc == IF th[t].rc = "unwaited" THEN "unwaited"
                   ELSE Meaning(heap[th[t].block].code, th[t].call)
  <2>1. th' = [th EXCEPT ![t].pc = "remove", ![t].rc = rc]
    BY <1>0, <1>13 DEF ReadCode, TypeOK, Frame
  <2>2. rc \in Results
    BY DEF Meaning
  <2>3. th' \in [Senders -> Frame]
    BY <1>0, <2>1, <2>2, FrameFacts
  <2>4. QED
    BY <1>0, <1>13, <2>3 DEF ReadCode, TypeOK
<1>14. CASE Unqueue(t)
  <2>1. queue' \in Seq(Blocks) /\ pending' \in Nat /\ allocated' \in SUBSET Blocks
    BY <1>0, <1>14, RemoveType DEF Unqueue
  <2>2. th' \in [Senders -> Frame]
    BY <1>0, <1>14, ReturnType DEF Unqueue, TypeOK, Frame
  <2>3. QED
    BY <1>0, <1>14, <2>1, <2>2 DEF Unqueue, TypeOK, RaceKinds
<1>15. CASE WakeEarly(t)
  <2>1. woken' \in SUBSET Senders
    BY <1>0, <1>15 DEF WakeEarly, TypeOK
  <2>2. QED
    BY <1>0, <1>15, <2>1, FrameFacts DEF WakeEarly, TypeOK, Goto
<1>16. QED
  BY <1>1, <1>2, <1>3, <1>4, <1>5, <1>6, <1>7, <1>8, <1>9, <1>10, <1>11, <1>12, <1>13, <1>14,
     <1>15 DEF Send

\* The loop thread's steps preserve TypeOK.
LEMMA RecvType ==
  ASSUME IInv, Recv
  PROVE  TypeOK'
<1> USE Members
<1>0. TypeOK /\ PendingMatches
  BY DEF IInv, QueueInv
<1>A. ASSUME NEW pkt \in Packet, Receive(pkt)
      PROVE  loop' \in LoopState
  <2>1. \E b \in Blocks \cup {NoBlock} : loop' = [pc |-> "store", found |-> b, pkt |-> pkt]
    BY <1>0, <1>A, ElementOfSeq DEF Receive, TypeOK
  <2>2. QED
    BY <2>1 DEF LoopState
<1>B. Selecting \in LoopState
  BY DEF Selecting, LoopState, Packet
<1>C. \A pc \in LoopPCs : [loop EXCEPT !.pc = pc] \in LoopState
  BY <1>0 DEF TypeOK, LoopState
<1>1. CASE ReceiveReply
  <2>1. PICK r \in atserver :
          /\ Receive([tickle |-> FALSE, id |-> r.id, call |-> r.call])
          /\ atserver' = atserver \ {r}
          /\ UNCHANGED <<serverid, races>>
    BY <1>1 DEF ReceiveReply
  <2>2. [tickle |-> FALSE, id |-> r.id, call |-> r.call] \in Packet
    BY <1>0 DEF TypeOK, Packet
  <2>3. loop' \in LoopState
    BY <1>A, <2>1, <2>2
  <2>4. QED
    BY <1>0, <2>1, <2>3 DEF Receive, TypeOK
<1>2. CASE ReceiveTickle
  <2>1. serverid % (MaxId + 1) \in Ids
    BY <1>0, DsiConstants DEF TypeOK, Ids
  <2>2. [tickle |-> TRUE, id |-> serverid % (MaxId + 1), call |-> 0] \in Packet
    BY <2>1 DEF Packet
  <2>3. loop' \in LoopState
    BY <1>2, <1>A, <2>2 DEF ReceiveTickle
  <2>4. serverid' \in 0..MaxTickles
    BY <1>0, <1>2, DsiConstants DEF ReceiveTickle, TypeOK
  <2>5. QED
    BY <1>0, <1>2, <2>3, <2>4 DEF ReceiveTickle, Receive, TypeOK, RaceKinds
<1>3. CASE ReceiveEOF
  BY <1>0, <1>3 DEF ReceiveEOF, TypeOK
<1>4. CASE StoreCode
  <2>1. loop.pkt.call \in CallNums
    BY <1>0 DEF TypeOK, LoopState, Packet
  <2>2. heap' \in [Blocks -> Request]
    <3>1. \A b \in Blocks : [heap[b] EXCEPT !.code = loop.pkt.call] \in Request
      BY <1>0, <2>1 DEF TypeOK, Request
    <3>2. loop.found \in Blocks \cup {NoBlock}
      BY <1>0 DEF TypeOK, LoopState
    <3>3. QED
      BY <1>0, <1>4, <3>1, <3>2 DEF StoreCode, TypeOK
  <2>3. QED
    BY <1>0, <1>4, <1>C, <2>2 DEF StoreCode, TypeOK
<1>5. CASE ProcessReply
  <2>1. loop.pkt.call \in CallNums
    BY <1>0 DEF TypeOK, LoopState, Packet
  <2>2. got' \in [Senders -> CallNums]
    BY <1>0, <1>5, <2>1 DEF ProcessReply, TypeOK
  <2>3. QED
    BY <1>0, <1>5, <1>C, <2>2 DEF ProcessReply, TypeOK
<1>6. CASE ProcessTickle
  <2>1. Begin(Loop, 0, "none") /\ loop' = [loop EXCEPT !.pc = "tickling"]
    BY <1>6 DEF ProcessTickle
  <2>2. /\ lastrequestid' \in Ids
        /\ th' \in [Senders -> Frame]
        /\ got' \in [Senders -> CallNums]
        /\ races' \in SUBSET RaceKinds
    BY <1>0, <2>1, BeginType
  <2>3. QED
    BY <1>0, <1>C, <2>1, <2>2 DEF Begin, TypeOK
<1>7. CASE TickleSent
  BY <1>0, <1>7, <1>C DEF TickleSent, TypeOK
<1>8. CASE FinishUnawaited
  <2>1. queue' \in Seq(Blocks) /\ pending' \in Nat /\ allocated' \in SUBSET Blocks
    BY <1>0, <1>8, RemoveType DEF FinishUnawaited, TypeOK
  <2>2. QED
    BY <1>0, <1>8, <1>B, <2>1 DEF FinishUnawaited, TypeOK, RaceKinds
<1>9. CASE FinishAwaited
  <2>1. heap' \in [Blocks -> Request]
    <3>1. \A b \in Blocks : [heap[b] EXCEPT !.wait = "none"] \in Request
      BY <1>0 DEF TypeOK, Request
    <3>2. QED
      BY <1>0, <1>9, <3>1 DEF FinishAwaited, TypeOK
  <2>2. QED
    BY <1>0, <1>9, <1>C, <2>1 DEF FinishAwaited, TypeOK
<1>10. CASE Signal
  <2>1. heap' \in [Blocks -> Request]
    <3>1. \A b \in Blocks : [heap[b] EXCEPT !.done = TRUE] \in Request
      BY <1>0 DEF TypeOK, Request
    <3>2. QED
      BY <1>0, <1>10, <3>1 DEF Signal, TypeOK
  <2>2. th' \in [Senders -> Frame]
    <3>1. ASSUME NEW u \in Senders PROVE [th[u] EXCEPT !.pc = "code"] \in Frame
      BY <1>0 DEF TypeOK, Frame
    <3>2. QED
      BY <1>0, <1>10, <3>1 DEF Signal, TypeOK
  <2>3. QED
    BY <1>0, <1>10, <1>B, <2>1, <2>2 DEF Signal, TypeOK
<1>11. QED
  BY <1>1, <1>2, <1>3, <1>4, <1>5, <1>6, <1>7, <1>8, <1>9, <1>10 DEF Recv

\* The steps of afp_server_remove() preserve TypeOK.
LEMMA RemovalType ==
  ASSUME TypeOK, Removal
  PROVE  TypeOK'
<1> USE Members
<1>A. \A pc \in {"none", "waking", "next", "unlinked", "freed"} :
        [removal EXCEPT !.pc = pc] \in RemovalState
  BY DEF TypeOK, RemovalState
<1>1. CASE RemovalStarts
  <2>1. (IF queue = <<>> THEN NoBlock ELSE Head(queue)) \in Blocks \cup {NoBlock}
    BY HeadTailProperties DEF TypeOK
  <2>2. removal' \in RemovalState
    BY <1>1, <2>1 DEF RemovalStarts, RemovalState
  <2>3. QED
    BY <1>1, <2>2 DEF RemovalStarts, TypeOK
<1>2. CASE WakePending
  <2>1. heap' \in [Blocks -> Request]
    <3>1. \A b \in Blocks : [heap[b] EXCEPT !.done = TRUE] \in Request
      BY DEF TypeOK, Request
    <3>2. QED
      BY <1>2, <3>1 DEF WakePending, TypeOK
  <2>2. th' \in [Senders -> Frame]
    <3>1. ASSUME NEW u \in Senders PROVE [th[u] EXCEPT !.pc = "code"] \in Frame
      BY DEF TypeOK, Frame
    <3>2. QED
      BY <1>2, <3>1 DEF WakePending, TypeOK
  <2>3. removal' \in RemovalState /\ woken' \in SUBSET Senders
    BY <1>A, <1>2 DEF WakePending, TypeOK
  <2>4. QED
    BY <1>2, <2>1, <2>2, <2>3 DEF WakePending, TypeOK
<1>3. CASE NextPending
  <2>1. removal' \in RemovalState
    BY <1>3 DEF NextPending, RemovalState
  <2>2. QED
    BY <1>3, <2>1 DEF NextPending, TypeOK
<1>4. CASE Unlink
  BY <1>A, <1>4 DEF Unlink, TypeOK
<1>5. CASE FreeServer
  BY <1>A, <1>5 DEF FreeServer, TypeOK, RaceKinds
<1>6. QED
  BY <1>1, <1>2, <1>3, <1>4, <1>5 DEF Removal

-----------------------------------------------------------------------------
(* Every step preserves the accounting of the requests *)

\* Once the server is freed only the count is left to account for.
LEMMA FreedStep ==
  ASSUME PendingMatches', removal'.pc = "freed"
  PROVE  QueueInv'
BY DEF QueueInv, RequestsAccounted, AppendsFresh

\* A step that leaves the list, the count and the heap's allocation alone and
\* moves no thread to or from the point of listing preserves the accounting.
LEMMA QuietStep ==
  ASSUME TypeOK, QueueInv, UNCHANGED <<queue, pending, allocated>>,
         removal'.pc # "freed" => removal.pc # "freed",
         \A t \in Senders : /\ th'[t].pc = "append" <=> th[t].pc = "append"
                            /\ th[t].pc = "append" => th'[t].block = th[t].block
  PROVE  QueueInv'
<1>1. PendingMatches' /\ ToSet(queue)' = ToSet(queue) /\ IsInjective(queue)' = IsInjective(queue)
  BY DEF QueueInv, PendingMatches, IsInjective, ToSet
<1>2. AppendsFresh'
  BY <1>1 DEF QueueInv, AppendsFresh, At
<1>3. {th[t].block : t \in {u \in Senders : At(u, "append")}}'
        = {th[t].block : t \in {u \in Senders : At(u, "append")}}
  BY DEF At
<1>4. RequestsAccounted'
  BY <1>1, <1>3 DEF QueueInv, RequestsAccounted
<1>5. QED
  BY <1>1, <1>2, <1>4 DEF QueueInv

\* malloc(): the new request is on no list.
LEMMA AllocateStep ==
  ASSUME TypeOK, QueueInv, NEW t \in Senders, At(t, "send"), NEW b \in Blocks \ allocated,
         allocated' = allocated \cup {b},
         th' = [th EXCEPT ![t].pc = "append", ![t].block = b],
         UNCHANGED <<queue, pending, removal>>, StillValid
  PROVE  QueueInv'
<1> USE DEF StillValid
<1> DEFINE A == {th[u].block : u \in {v \in Senders : At(v, "append")}}
<1>1. th'[t].pc = "append" /\ th'[t].block = b
      /\ \A u \in Senders : u # t => th'[u] = th[u]
  BY DEF TypeOK, Frame
<1>2. PendingMatches' /\ IsInjective(queue)' /\ ToSet(queue)' = ToSet(queue)
  BY DEF QueueInv, PendingMatches, RequestsAccounted, IsInjective, ToSet
<1>3. A' = A \cup {b}
  <2>1. \A u \in Senders : At(u, "append") => u # t
    BY DEF At
  <2>2. A \cup {b} \subseteq A'
    <3>1. At(t, "append")' /\ th'[t].block = b
      BY <1>1 DEF At
    <3>2. ASSUME NEW u \in Senders, At(u, "append") PROVE At(u, "append")' /\ th'[u].block = th[u].block
      BY <1>1, <2>1, <3>2 DEF At
    <3>3. QED
      BY <3>1, <3>2
  <2>3. A' \subseteq A \cup {b}
    <3>1. ASSUME NEW u \in Senders, At(u, "append")'
          PROVE  th'[u].block \in A \cup {b}
      BY <1>1, <3>1 DEF At
    <3>2. QED
      BY <3>1
  <2>4. QED
    BY <2>2, <2>3
<1>4. allocated = ToSet(queue) \cup A
  BY DEF QueueInv, RequestsAccounted
<1>5. RequestsAccounted'
  BY <1>2, <1>3, <1>4 DEF RequestsAccounted
<1>6. b \notin ToSet(queue) /\ b \notin A
  BY <1>4
<1>7. AppendsFresh'
  <2> SUFFICES ASSUME NEW u \in Senders, At(u, "append")'
               PROVE  /\ th'[u].block \notin ToSet(queue)
                      /\ \A v \in Senders : At(v, "append")' /\ v # u
                                           => th'[v].block # th'[u].block
    BY <1>2 DEF AppendsFresh, At
  <2>1. CASE u = t
    <3>1. th'[u].block = b
      BY <1>1, <2>1
    <3>2. ASSUME NEW v \in Senders, At(v, "append")', v # u PROVE th'[v].block # b
      <4>1. At(v, "append") /\ th'[v].block = th[v].block
        BY <1>1, <2>1, <3>2 DEF At
      <4>2. th[v].block \in A
        BY <4>1
      <4>3. QED
        BY <1>6, <4>1, <4>2
    <3>3. QED
      BY <1>6, <3>1, <3>2
  <2>2. CASE u # t
    <3>1. At(u, "append") /\ th'[u].block = th[u].block /\ th[u].block # b
      BY <1>1, <1>6, <2>2 DEF At
    <3>2. th[u].block \notin ToSet(queue)
      BY <3>1 DEF QueueInv, AppendsFresh
    <3>3. ASSUME NEW v \in Senders, At(v, "append")', v # u
          PROVE  th'[v].block # th'[u].block
      <4>1. CASE v = t
        BY <1>1, <3>1, <4>1
      <4>2. CASE v # t
        BY <1>1, <3>1, <3>3, <4>2 DEF At, QueueInv, AppendsFresh
      <4>3. QED
        BY <4>1, <4>2
    <3>4. QED
      BY <3>1, <3>2, <3>3
  <2>3. QED
    BY <2>1, <2>2
<1>8. QED
  BY <1>2, <1>5, <1>7 DEF QueueInv

\* The insertion lists the request and counts it.
LEMMA AppendStep ==
  ASSUME TypeOK, QueueInv, HoldsRequest, NEW t \in Senders, AppendRequest(t)
  PROVE  QueueInv'
<1>0. CASE removal.pc = "freed"
  <2>1. PendingMatches'
    BY AppendProperties, <1>0 DEF AppendRequest, TypeOK, QueueInv, PendingMatches, HoldsRequest, At
  <2>2. QED
    BY <1>0, <2>1, FreedStep DEF AppendRequest
<1> SUFFICES ASSUME removal.pc # "freed" PROVE QueueInv'
  BY <1>0
<1> DEFINE A == {th[u].block : u \in {v \in Senders : At(v, "append")}}
           b == th[t].block
<1>1. th'[t].pc = "check" /\ \A u \in Senders : u # t => th'[u] = th[u]
  BY DEF AppendRequest, Goto, TypeOK, Frame
<1>2. b \in Blocks /\ b \notin ToSet(queue)
      /\ \A u \in Senders : At(u, "append") /\ u # t => th[u].block # b
  BY DEF QueueInv, AppendsFresh, HoldsRequest, AppendRequest, At
<1>3. /\ queue' \in Seq(Blocks) /\ Len(queue') = Len(queue) + 1
      /\ \A i \in 1..Len(queue) : queue'[i] = queue[i]
      /\ queue'[Len(queue) + 1] = b
      /\ DOMAIN queue = 1..Len(queue) /\ DOMAIN queue' = 1..(Len(queue) + 1)
      /\ Len(queue) \in Nat
  BY <1>2, AppendProperties, LenProperties DEF AppendRequest, TypeOK
<1>4. ToSet(queue') = ToSet(queue) \cup {b}
  BY <1>3 DEF ToSet
<1>5. A = A' \cup {b}
  BY <1>1, <1>2 DEF At, AppendRequest
<1>6. IsInjective(queue')
  <2>1. \A i \in 1..Len(queue) : queue[i] # b
    BY <1>2, <1>3 DEF ToSet
  <2>2. QED
    BY <1>3, <2>1 DEF IsInjective, QueueInv, RequestsAccounted
<1>7. allocated' = ToSet(queue') \cup A'
  BY <1>4, <1>5 DEF AppendRequest, QueueInv, RequestsAccounted
<1>8. PendingMatches'
  BY <1>3 DEF AppendRequest, QueueInv, PendingMatches
<1>9. AppendsFresh'
  BY <1>1, <1>2, <1>4 DEF AppendsFresh, QueueInv, At
<1>10. QED
  BY <1>6, <1>7, <1>8, <1>9 DEF QueueInv, RequestsAccounted

\* The removal takes the request off the list, off the count and back to the
\* heap, or does nothing.
LEMMA RemoveStep ==
  ASSUME TypeOK, QueueInv, NEW b, RemoveIfValid(b), UNCHANGED removal,
         \A t \in Senders : /\ th'[t].pc = "append" <=> th[t].pc = "append"
                            /\ th[t].pc = "append" => th'[t].block = th[t].block
  PROVE  QueueInv'
<1> DEFINE A == {th[u].block : u \in {v \in Senders : At(v, "append")}}
<1>1. CASE UNCHANGED <<queue, pending, allocated>>
  BY <1>1, QuietStep
<1>2. CASE StillValid /\ \E i \in 1..Len(queue) :
             /\ queue[i] = b
             /\ queue' = RemoveAt(queue, i)
             /\ pending' = pending - 1
             /\ allocated' = allocated \ {b}
  <2>0. removal.pc # "freed"
    BY <1>2 DEF StillValid
  <2>1. PICK i \in 1..Len(queue) :
             /\ queue[i] = b
             /\ queue' = RemoveAt(queue, i)
             /\ pending' = pending - 1
             /\ allocated' = allocated \ {b}
    BY <1>2
  <2>2. /\ queue' \in Seq(Blocks) /\ Len(queue') = Len(queue) - 1
        /\ \A j \in 1..(Len(queue) - 1) : queue'[j] = IF j < i THEN queue[j] ELSE queue[j + 1]
        /\ DOMAIN queue = 1..Len(queue) /\ DOMAIN queue' = 1..(Len(queue) - 1)
        /\ Len(queue) \in Nat
    <3>1. queue \in Seq(Blocks)
      BY DEF TypeOK
    <3>2. /\ queue' \in Seq(Blocks) /\ Len(queue') = Len(queue) - 1
          /\ \A j \in 1..(Len(queue) - 1) : queue'[j] = IF j < i THEN queue[j] ELSE queue[j + 1]
      BY <2>1, <3>1, RemoveAtFacts
    <3>3. DOMAIN queue = 1..Len(queue) /\ DOMAIN queue' = 1..Len(queue') /\ Len(queue) \in Nat
      BY <3>1, <3>2, LenProperties
    <3>4. QED
      BY <3>2, <3>3
  <2>3. \A j, k \in 1..Len(queue) : queue[j] = queue[k] => j = k
    BY <2>0, <2>2 DEF QueueInv, RequestsAccounted, IsInjective
  <2>4. IsInjective(queue')
    BY <2>2, <2>3 DEF IsInjective
  <2>5. ToSet(queue') = ToSet(queue) \ {b}
    <3>1. ASSUME NEW x \in ToSet(queue') PROVE x \in ToSet(queue) \ {b}
      BY <2>1, <2>2, <2>3 DEF ToSet
    <3>2. ASSUME NEW x \in ToSet(queue) \ {b} PROVE x \in ToSet(queue')
      <4>1. PICK j \in 1..Len(queue) : queue[j] = x
        BY <2>2 DEF ToSet
      <4>2. CASE j < i
        BY <2>2, <4>1, <4>2 DEF ToSet
      <4>3. CASE j > i
        <5>1. j - 1 \in 1..(Len(queue) - 1) /\ queue'[j - 1] = queue[j]
          BY <2>2, <4>1, <4>3
        <5>2. QED
          BY <2>2, <4>1, <5>1 DEF ToSet
      <4>4. QED
        BY <2>1, <2>2, <4>1, <4>2, <4>3
    <3>3. QED
      BY <3>1, <3>2
  <2>6. A' = A
    BY DEF At
  <2>7. b \notin A
    <3>1. b \in ToSet(queue)
      BY <2>1, <2>2 DEF ToSet
    <3>2. \A u \in Senders : At(u, "append") => th[u].block \notin ToSet(queue)
      BY <2>0 DEF QueueInv, AppendsFresh
    <3>3. QED
      BY <3>1, <3>2
  <2>8. allocated' = ToSet(queue') \cup A'
    BY <2>0, <2>1, <2>5, <2>6, <2>7 DEF QueueInv, RequestsAccounted
  <2>9. PendingMatches'
    BY <2>1, <2>2 DEF QueueInv, PendingMatches
  <2>10. AppendsFresh'
    BY <2>0, <2>5 DEF QueueInv, AppendsFresh, At
  <2>11. QED
    BY <2>4, <2>8, <2>9, <2>10 DEF QueueInv, RequestsAccounted
<1>3. QED
  BY <1>1, <1>2 DEF RemoveFromQueue, RemoveIfValid

-----------------------------------------------------------------------------
(* Every step preserves the inductive invariant *)

Holding == {"append", "check", "write", "branch", "enter", "waiting", "code", "remove"}

\* A step that moves only the frame of t, not to or from the point of listing,
\* and none of the accounting.
LEMMA OwnFrameStep ==
  ASSUME TypeOK, HoldsRequest, QueueInv, NEW t \in Senders,
         \A u \in Senders : u # t => th'[u] = th[u],
         th[t].pc # "append", th'[t].pc # "append",
         th'[t].pc \in Holding => th'[t].block \in Blocks,
         UNCHANGED <<queue, pending, allocated, removal>>
  PROVE  HoldsRequest' /\ QueueInv'
<1>1. HoldsRequest'
  BY DEF HoldsRequest, Holding
<1>2. QueueInv'
  BY QuietStep
<1>3. QED
  BY <1>1, <1>2

\* A return moves only the returning thread's frame.
LEMMA ReturnMoves ==
  ASSUME TypeOK, NEW t \in Senders, NEW rc, Return(t, rc)
  PROVE  th'[t].pc = "idle" /\ \A u \in Senders : u # t => th'[u] = th[u]
BY DEF TypeOK, Return, Idle

\* A sender's step keeps HoldsRequest and the accounting.
LEMMA SendInv ==
  ASSUME IInv, NEW t \in Senders, Send(t)
  PROVE  HoldsRequest' /\ QueueInv'
<1>0. /\ TypeOK /\ HoldsRequest /\ QueueInv
      /\ (th[t].pc \in Holding => th[t].block \in Blocks)
  BY DEF IInv, HoldsRequest, Holding
<1>1. CASE CopyId(t)
  <2>1. th'[t].pc = "send" /\ \A u \in Senders : u # t => th'[u] = th[u]
    BY <1>0, <1>1 DEF CopyId, TypeOK, Frame
  <2>2. QED
    BY <1>0, <1>1, <2>1, OwnFrameStep DEF CopyId, At, Holding
<1>2. CASE Allocate(t)
  <2>1. CASE \E b \in Blocks \ allocated :
               /\ StillValid
               /\ allocated' = allocated \cup {b}
               /\ heap' = [heap EXCEPT ![b] = [id |-> lastrequestid, wait |-> th[t].wait,
                                               done |-> FALSE, code |-> 0, other |-> t]]
               /\ th' = [th EXCEPT ![t].pc = "append", ![t].block = b]
    <3>1. PICK b \in Blocks \ allocated :
               /\ StillValid
               /\ allocated' = allocated \cup {b}
               /\ th' = [th EXCEPT ![t].pc = "append", ![t].block = b]
      BY <2>1
    <3>2. QueueInv'
      BY <1>0, <1>2, <3>1, AllocateStep DEF Allocate
    <3>3. th'[t].block = b /\ \A u \in Senders : u # t => th'[u] = th[u]
      BY <1>0, <3>1 DEF TypeOK, Frame
    <3>4. HoldsRequest'
      BY <1>0, <3>1, <3>3 DEF HoldsRequest
    <3>5. QED
      BY <3>2, <3>4
  <2>2. CASE Return(t, "error") /\ UNCHANGED <<heap, allocated>>
    <3>1. th'[t].pc = "idle" /\ \A u \in Senders : u # t => th'[u] = th[u]
      BY <1>0, <2>2, ReturnMoves
    <3>2. QED
      BY <1>0, <1>2, <2>2, <3>1, OwnFrameStep DEF Allocate, At, Holding
  <2>3. QED
    BY <1>2, <2>1, <2>2 DEF Allocate
<1>3. CASE AppendRequest(t)
  <2>1. th'[t].pc = "check" /\ th'[t].block = th[t].block
        /\ \A u \in Senders : u # t => th'[u] = th[u]
    BY <1>0, <1>3 DEF AppendRequest, Goto, TypeOK, Frame
  <2>2. HoldsRequest'
    BY <1>0, <1>3, <2>1 DEF HoldsRequest, AppendRequest, At
  <2>3. QED
    BY <1>0, <1>3, <2>2, AppendStep
<1>4. CASE CheckState(t)
  <2>1. Goto(t, "write") /\ th[t].pc = "check"
    BY <1>4 DEF CheckState, At
  <2>2. th'[t].pc = "write" /\ th'[t].block = th[t].block
        /\ \A u \in Senders : u # t => th'[u] = th[u]
    BY <1>0, <2>1 DEF Goto, TypeOK, Frame
  <2>3. QED
    BY <1>0, <1>4, <2>1, <2>2, OwnFrameStep DEF CheckState, Holding
<1>5. CASE ReconnectFails(t)
  <2>1. Goto(t, "write") /\ th[t].pc = "check"
    BY <1>5 DEF ReconnectFails, At
  <2>2. th'[t].pc = "write" /\ th'[t].block = th[t].block
        /\ \A u \in Senders : u # t => th'[u] = th[u]
    BY <1>0, <2>1 DEF Goto, TypeOK, Frame
  <2>3. QED
    BY <1>0, <1>5, <2>1, <2>2, OwnFrameStep DEF ReconnectFails, Holding
<1>6. CASE ReconnectWorks(t)
  <2>1. (Goto(t, "stuck") \/ Goto(t, "write")) /\ th[t].pc = "check"
    BY <1>6 DEF ReconnectWorks, At
  <2>2. th'[t].pc \in {"stuck", "write"} /\ th'[t].block = th[t].block
        /\ \A u \in Senders : u # t => th'[u] = th[u]
    BY <1>0, <2>1 DEF Goto, TypeOK, Frame
  <2>3. QED
    BY <1>0, <1>6, <2>1, <2>2, OwnFrameStep DEF ReconnectWorks, Holding
<1>7. CASE Write(t)
  <2>1. Goto(t, "branch") /\ th[t].pc = "write"
    BY <1>7 DEF Write, At
  <2>2. th'[t].pc = "branch" /\ th'[t].block = th[t].block
        /\ \A u \in Senders : u # t => th'[u] = th[u]
    BY <1>0, <2>1 DEF Goto, TypeOK, Frame
  <2>3. QED
    BY <1>0, <1>7, <2>1, <2>2, OwnFrameStep DEF Write, Holding
<1>8. CASE WriteBroken(t)
  <2>1. th'[t].pc = "idle" /\ \A u \in Senders : u # t => th'[u] = th[u]
    BY <1>0, <1>8, ReturnMoves DEF WriteBroken
  <2>2. QED
    BY <1>0, <1>8, <2>1, OwnFrameStep DEF WriteBroken, At, Holding
<1>9. CASE WriteFails(t)
  <2>1. th'[t].pc = "remove" /\ th'[t].block = th[t].block
        /\ \A u \in Senders : u # t => th'[u] = th[u]
    BY <1>0, <1>9 DEF WriteFails, TypeOK, Frame
  <2>2. QED
    BY <1>0, <1>9, <2>1, OwnFrameStep DEF WriteFails, At, Holding
<1>10. CASE BranchOnWait(t)
  <2>1. th'[t].pc \in {"code", "enter"} /\ th'[t].block = th[t].block
        /\ \A u \in Senders : u # t => th'[u] = th[u]
    BY <1>0, <1>10 DEF BranchOnWait, TypeOK, Frame
  <2>2. QED
    BY <1>0, <1>10, <2>1, OwnFrameStep DEF BranchOnWait, At, Holding
<1>11. CASE EnterWait(t)
  <2>1. (Goto(t, "code") \/ Goto(t, "waiting")) /\ th[t].pc = "enter"
    BY <1>11 DEF EnterWait, At
  <2>2. th'[t].pc \in {"code", "waiting"} /\ th'[t].block = th[t].block
        /\ \A u \in Senders : u # t => th'[u] = th[u]
    BY <1>0, <2>1 DEF Goto, TypeOK, Frame
  <2>3. QED
    BY <1>0, <1>11, <2>1, <2>2, OwnFrameStep DEF EnterWait, Holding
<1>12. CASE Timeout(t)
  <2>1. th'[t].pc = "remove" /\ th'[t].block = th[t].block
        /\ \A u \in Senders : u # t => th'[u] = th[u]
    BY <1>0, <1>12 DEF Timeout, TypeOK, Frame
  <2>2. QED
    BY <1>0, <1>12, <2>1, OwnFrameStep DEF Timeout, At, Holding
<1>13. CASE ReadCode(t)
  <2>1. th'[t].pc = "remove" /\ th'[t].block = th[t].block
        /\ \A u \in Senders : u # t => th'[u] = th[u]
    BY <1>0, <1>13 DEF ReadCode, TypeOK, Frame
  <2>2. QED
    BY <1>0, <1>13, <2>1, OwnFrameStep DEF ReadCode, At, Holding
<1>14. CASE Unqueue(t)
  <2>1. th'[t].pc = "idle" /\ \A u \in Senders : u # t => th'[u] = th[u]
    BY <1>0, <1>14, ReturnMoves DEF Unqueue
  <2>2. HoldsRequest'
    BY <1>0, <2>1 DEF HoldsRequest
  <2>3. QueueInv'
    BY <1>0, <1>14, <2>1, RemoveStep DEF Unqueue, At
  <2>4. QED
    BY <2>2, <2>3
<1>15. CASE WakeEarly(t)
  <2>1. Goto(t, "code") /\ th[t].pc = "waiting"
    BY <1>15 DEF WakeEarly, At
  <2>2. th'[t].pc = "code" /\ th'[t].block = th[t].block
        /\ \A u \in Senders : u # t => th'[u] = th[u]
    BY <1>0, <2>1 DEF Goto, TypeOK, Frame
  <2>3. QED
    BY <1>0, <1>15, <2>1, <2>2, OwnFrameStep DEF WakeEarly, Holding
<1>16. QED
  BY <1>1, <1>2, <1>3, <1>4, <1>5, <1>6, <1>7, <1>8, <1>9, <1>10, <1>11, <1>12, <1>13, <1>14,
     <1>15 DEF Send

\* A new call keeps HoldsRequest and the accounting.
LEMMA BeginInv ==
  ASSUME TypeOK, HoldsRequest, QueueInv, NEW t \in Senders, NEW k, NEW w, Begin(t, k, w)
  PROVE  HoldsRequest' /\ QueueInv'
<1>1. th'[t].pc = "header" /\ \A u \in Senders : u # t => th'[u] = th[u]
  BY DEF Begin, TypeOK
<1>2. QED
  BY <1>1, OwnFrameStep DEF Begin, At, Holding

\* The loop thread's steps keep HoldsRequest and the accounting: it wakes
\* threads, removes requests and lists none but its own.
LEMMA RecvInv ==
  ASSUME IInv, Recv
  PROVE  HoldsRequest' /\ QueueInv'
<1>0. TypeOK /\ HoldsRequest /\ QueueInv
  BY DEF IInv
<1>A. ASSUME UNCHANGED <<queue, pending, allocated, th, removal>>
      PROVE  HoldsRequest' /\ QueueInv'
  BY <1>0, <1>A, QuietStep DEF HoldsRequest
<1>1. CASE ReceiveReply
  BY <1>1, <1>A DEF ReceiveReply, Receive
<1>2. CASE ReceiveTickle
  BY <1>2, <1>A DEF ReceiveTickle, Receive
<1>3. CASE ReceiveEOF
  BY <1>3, <1>A DEF ReceiveEOF
<1>4. CASE StoreCode
  BY <1>4, <1>A DEF StoreCode
<1>5. CASE ProcessReply
  BY <1>5, <1>A DEF ProcessReply
<1>6. CASE ProcessTickle
  BY <1>0, <1>6, BeginInv, Members DEF ProcessTickle
<1>7. CASE TickleSent
  BY <1>7, <1>A DEF TickleSent
<1>8. CASE FinishUnawaited
  <2>1. CASE RemoveIfValid(loop.found)
    BY <1>0, <1>8, <2>1, RemoveStep DEF FinishUnawaited, HoldsRequest
  <2>2. CASE UNCHANGED <<queue, pending, allocated>>
    BY <1>8, <2>2, <1>A DEF FinishUnawaited
  <2>3. QED
    BY <1>8, <2>1, <2>2 DEF FinishUnawaited
<1>9. CASE FinishAwaited
  BY <1>9, <1>A DEF FinishAwaited
<1>10. CASE Signal
  <2>1. \A u \in Senders :
          \/ th'[u] = th[u]
          \/ th[u].pc = "waiting" /\ th'[u].pc = "code" /\ th'[u].block = th[u].block
    BY <1>0, <1>10 DEF Signal, TypeOK, Frame
  <2>2. HoldsRequest'
    BY <1>0, <2>1 DEF HoldsRequest
  <2>3. QueueInv'
    BY <1>0, <1>10, <2>1, QuietStep DEF Signal
  <2>4. QED
    BY <2>2, <2>3
<1>11. QED
  BY <1>1, <1>2, <1>3, <1>4, <1>5, <1>6, <1>7, <1>8, <1>9, <1>10 DEF Recv

\* So do the steps of afp_server_remove(), which lists no request, and frees
\* requests only with the server.
LEMMA RemovalInv ==
  ASSUME IInv, Removal
  PROVE  HoldsRequest' /\ QueueInv'
<1>0. TypeOK /\ HoldsRequest /\ QueueInv
  BY DEF IInv
<1>1. CASE RemovalStarts \/ NextPending \/ Unlink
  <2>1. UNCHANGED <<queue, pending, allocated, th>> /\ removal.pc # "freed"
    BY <1>1 DEF RemovalStarts, NextPending, Unlink
  <2>2. QED
    BY <1>0, <2>1, QuietStep DEF HoldsRequest
<1>2. CASE WakePending
  <2>1. \A u \in Senders :
          \/ th'[u] = th[u]
          \/ th[u].pc = "waiting" /\ th'[u].pc = "code" /\ th'[u].block = th[u].block
    BY <1>0, <1>2 DEF WakePending, TypeOK, Frame
  <2>2. HoldsRequest'
    BY <1>0, <2>1 DEF HoldsRequest
  <2>3. QueueInv'
    BY <1>0, <1>2, <2>1, QuietStep DEF WakePending
  <2>4. QED
    BY <2>2, <2>3
<1>3. CASE FreeServer
  <2>1. PendingMatches' /\ removal'.pc = "freed"
    BY <1>0, <1>3 DEF FreeServer, QueueInv, PendingMatches, TypeOK, RemovalState
  <2>2. HoldsRequest'
    BY <1>0, <1>3 DEF FreeServer, HoldsRequest
  <2>3. QED
    BY <2>1, <2>2, FreedStep
<1>4. QED
  BY <1>1, <1>2, <1>3 DEF Removal

LEMMA NextIInv == IInv /\ [Next]_vars => IInv'
<1> SUFFICES ASSUME IInv, [Next]_vars PROVE IInv'
  OBVIOUS
<1>0. TypeOK /\ HoldsRequest /\ QueueInv
  BY DEF IInv
<1>1. CASE \E c \in Callers : Call(c)
  <2>1. PICK c \in Callers, k \in 1..MaxCalls, w \in Waits : Begin(c, k, w) /\ UNCHANGED loop
    BY <1>1 DEF Call
  <2>2. c \in Senders /\ k \in CallNums /\ w \in WaitKinds
    BY DsiConstants DEF Senders, CallNums
  <2>3. TypeOK'
    BY <1>0, <2>1, <2>2, BeginType DEF Begin, TypeOK
  <2>4. QED
    BY <1>0, <2>1, <2>2, <2>3, BeginInv DEF IInv
<1>2. CASE \E t \in Senders : Send(t)
  BY <1>2, SendType, SendInv DEF IInv
<1>3. CASE Recv
  BY <1>3, RecvType, RecvInv DEF IInv
<1>4. CASE UNCHANGED vars
  <2>1. TypeOK'
    BY <1>0, <1>4 DEF vars, TypeOK
  <2>2. HoldsRequest'
    BY <1>0, <1>4 DEF vars, HoldsRequest
  <2>3. QueueInv'
    BY <1>0, <1>4, QuietStep DEF vars
  <2>4. QED
    BY <2>1, <2>2, <2>3 DEF IInv
<1>5. CASE Removal
  BY <1>0, <1>5, RemovalType, RemovalInv DEF IInv
<1>6. QED
  BY <1>1, <1>2, <1>3, <1>4, <1>5 DEF Next

-----------------------------------------------------------------------------
(* The theorems *)

\* The inductive invariant holds in every reachable state.
LEMMA Invariance == Spec => []IInv
<1>1. QED
  BY InitIInv, NextIInv, PTL DEF Spec

\* Every variable of the engine keeps its type, the loop's pointer and the
\* callers' frames included, whatever the interleaving and the faults.
THEOREM TypeCorrect == Spec => []TypeOK
<1>1. IInv => TypeOK
  BY DEF IInv
<1>2. QED
  BY <1>1, Invariance, PTL

\* stats.requests_pending always counts the listed requests.
THEOREM PendingIsCorrect == Spec => []PendingMatches
<1>1. IInv => PendingMatches
  BY DEF IInv, QueueInv
<1>2. QED
  BY <1>1, Invariance, PTL

\* dsi_send() and dsi_recv() together free each request at most once, list it
\* at most once, and never leave a freed one on the list or an unfreed one off
\* it.
THEOREM RequestsAreAccounted == Spec => []RequestsAccounted
<1>1. IInv => RequestsAccounted
  BY DEF IInv, QueueInv
<1>2. QED
  BY <1>1, Invariance, PTL

-----------------------------------------------------------------------------
(* The answers: the inductive invariant *)

Clean == races = {}

\* dsi_setup_header() has counted an id that dsi_send() will still read.
Setup == {"header", "send"}

\* The packet has been given to write(), or will never be.
Written == {"branch", "enter", "waiting", "code", "remove"}

\* One call at a time is between the counting of its id and the last reading
\* of it, the counter still has its value, and no reply to come and no pending
\* request has the same.
SetupInv ==
  /\ \A t, u \in Senders : th[t].pc \in Setup /\ th[u].pc \in Setup => t = u
  /\ \A t \in Senders :
       /\ At(t, "send") => th[t].id = lastrequestid
       /\ th[t].pc \in Setup => lastrequestid \notin BusyIds

\* The request of a call is the call's own and nobody has freed it; no two
\* requests have the same id.
OwnedInv ==
  /\ \A t \in Senders : th[t].pc \in Holding =>
       /\ th[t].block \in allocated
       /\ heap[th[t].block].id = th[t].id
       /\ heap[th[t].block].other = t
  /\ \A a, b \in allocated : heap[a].id = heap[b].id => a = b

\* Caller t has sent call k with request b, and still has that request.
Asked(t, b, k) == th[t].pc \in Written /\ th[t].block = b /\ th[t].call = k

\* The request that has the id of a reply to come is that of the call that the
\* reply answers, as long as main loop may receive the reply.
ServerInv ==
  StillValid =>
    \A r \in atserver, b \in allocated :
      heap[b].id = r.id => \E t \in Callers : Asked(t, b, r.call)

\* The request dsi_recv() has found is that of the call that its packet answers.
LoopInv ==
  loop.found # NoBlock =>
    /\ ~loop.pkt.tickle /\ loop.pc \notin {"tickling", "select"}
    /\ loop.pc \in {"process", "finish", "signal"} => heap[loop.found].code = loop.pkt.call
    /\ \E t \in Callers :
         /\ Asked(t, loop.found, loop.pkt.call)
         /\ loop.pc \in {"finish", "signal"} => got[t] = loop.pkt.call

\* The answer whose code the call finds is unpacked, or dsi_recv() still has the
\* request.
Unpacked(t) == got[t] = th[t].call \/ loop.found = th[t].block

\* The code in the request of a call that waits is the call's own, or the 0 it
\* was given at first.  The call learns that its answer has come, by its
\* request's flags or by being woken, only after the code and the reply are in
\* place, unless it was woken before its time.
AnswerInv(t) ==
  /\ th[t].rc # "wrong"
  /\ th[t].rc = "unanswered" => t \in woken
  /\ th[t].pc \in (Setup \cup Holding) \ {"remove"} => th[t].rc \in {"none", "unwaited"}
  /\ th[t].pc \in Setup \cup Holding /\ th[t].rc = "none" => th[t].call # 0
  /\ th[t].pc \in Setup /\ th[t].rc = "none" => th[t].wait # "none"
  /\ th[t].pc \in Holding \ {"remove"} /\ th[t].rc = "none" =>
       /\ heap[th[t].block].code \in {0, th[t].call}
       /\ heap[th[t].block].code = th[t].call => Unpacked(t)
       /\ heap[th[t].block].wait = "none" \/ heap[th[t].block].done \/ At(t, "code")
            => \/ heap[th[t].block].code = th[t].call /\ got[t] = th[t].call
               \/ t \in woken
  /\ At(t, "remove") => th[t].rc # "none" /\ (th[t].rc = "ok" => Unpacked(t))

ReplyParts == SetupInv /\ OwnedInv /\ ServerInv /\ LoopInv /\ \A t \in Senders : AnswerInv(t)

\* The server is freed under nobody.
FreedInv == removal.pc = "freed" => loop.pc = "select" /\ \A t \in Senders : At(t, "idle")

ReplyInv == Clean => ReplyParts /\ FreedInv

-----------------------------------------------------------------------------
(* The requests of the calls *)

\* No two calls have the same request.
LEMMA BlocksDiffer ==
  ASSUME OwnedInv, NEW t \in Senders, NEW u \in Senders,
         th[t].pc \in Holding, th[u].pc \in Holding, th[t].block = th[u].block
  PROVE  t = u
BY DEF OwnedInv

\* The request of a call that has listed it is on the list: as long as no race
\* has happened nobody but the call takes it off.
LEMMA OwnedIsListed ==
  ASSUME IInv, OwnedInv, removal.pc # "freed",
         NEW t \in Senders, th[t].pc \in Holding \ {"append"}
  PROVE  th[t].block \in ToSet(queue)
<1>1. th[t].block \in allocated
  BY DEF OwnedInv
<1>2. ASSUME NEW u \in Senders, At(u, "append")
      PROVE  th[u].block # th[t].block
  BY <1>2, BlocksDiffer DEF At, Holding
<1>3. QED
  BY <1>1, <1>2 DEF IInv, QueueInv, RequestsAccounted

\* dsi_remove_from_request_queue() of a listed request shortens the list and
\* frees the request.
LEMMA RemovalShows ==
  ASSUME TypeOK, NEW b \in ToSet(queue), RemoveIfValid(b), StillValid
  PROVE  queue' # queue /\ allocated' = allocated \ {b}
<1>1. queue \in Seq(Blocks) /\ Len(queue) \in Nat /\ DOMAIN queue = 1..Len(queue)
  BY LenProperties DEF TypeOK
<1>2. \E i \in 1..Len(queue) : queue[i] = b
  BY <1>1 DEF ToSet
<1>3. PICK i \in 1..Len(queue) :
        queue' = RemoveAt(queue, i) /\ allocated' = allocated \ {b}
  BY <1>2 DEF RemoveFromQueue, RemoveIfValid
<1>4. Len(queue') = Len(queue) - 1
  BY <1>1, <1>3, RemoveAtFacts
<1>5. QED
  BY <1>1, <1>3, <1>4

-----------------------------------------------------------------------------
(* The senders' steps *)

\* A step of a call that has its request, within its own frame.
LEMMA LocalStep ==
  ASSUME ReplyParts, NEW t \in Senders,
         \A u \in Senders : u # t => th'[u] = th[u],
         th[t].pc \in Holding, th'[t].pc \in Holding,
         th[t].pc \in Written => th'[t].pc \in Written,
         th'[t].block = th[t].block, th'[t].id = th[t].id, th'[t].call = th[t].call,
         UNCHANGED <<lastrequestid, heap, allocated, atserver, loop, got, removal>>,
         woken \subseteq woken', AnswerInv(t)'
  PROVE  ReplyParts'
<1>0. Callers \subseteq Senders /\ Setup \cap Holding = {}
  BY DEF Senders, Setup, Holding
<1>1. SetupInv'
  BY <1>0 DEF ReplyParts, SetupInv, BusyIds, At, Setup
<1>2. OwnedInv'
  BY DEF ReplyParts, OwnedInv
<1>3. ASSUME NEW u \in Callers, NEW b, NEW k, Asked(u, b, k)
      PROVE  Asked(u, b, k)'
  BY <1>0, <1>3 DEF Asked
<1>4. ServerInv'
  BY <1>3 DEF ReplyParts, ServerInv, StillValid
<1>5. LoopInv'
  BY <1>3 DEF ReplyParts, LoopInv
<1>6. ASSUME NEW u \in Senders, u # t PROVE AnswerInv(u)'
  BY <1>6 DEF ReplyParts, AnswerInv, Unpacked, At
<1>7. QED
  BY <1>1, <1>2, <1>4, <1>5, <1>6 DEF ReplyParts

\* A step by which a call returns: its request is freed, or no reply will name
\* it any more.
LEMMA ReturnStep ==
  ASSUME ReplyParts, NEW t \in Senders,
         \A u \in Senders : u # t => th'[u] = th[u],
         th'[t].pc = "idle", th'[t].rc # "wrong", th'[t].rc = "unanswered" => t \in woken,
         UNCHANGED <<lastrequestid, heap, loop, got, removal, woken>>,
         allocated' \subseteq allocated, atserver' \subseteq atserver,
         allocated \ allocated' \subseteq {th[t].block},
         allocated' = allocated \/ th[t].pc \in Holding,
         th[t].pc \in Written => th[t].block \notin allocated' \/ atserver' = {} \/ ~StillValid,
         loop.found # NoBlock => ~(th[t].pc \in Written /\ loop.found = th[t].block)
  PROVE  ReplyParts'
<1>0. Callers \subseteq Senders /\ "idle" \notin Setup \cup Holding
  BY DEF Senders, Setup, Holding
<1>1. SetupInv'
  BY <1>0 DEF ReplyParts, SetupInv, BusyIds, At, Setup
<1>2. OwnedInv'
  <2>1. ASSUME NEW u \in Senders, u # t, th[u].pc \in Holding
        PROVE  th[u].block \in allocated'
    BY <2>1, BlocksDiffer DEF ReplyParts, OwnedInv
  <2>2. QED
    BY <1>0, <2>1 DEF ReplyParts, OwnedInv
<1>3. ServerInv'
  <2> SUFFICES ASSUME StillValid, NEW r \in atserver', NEW b \in allocated', heap[b].id = r.id
               PROVE  \E u \in Callers : Asked(u, b, r.call)'
    BY DEF ServerInv, StillValid
  <2>1. PICK u \in Callers : Asked(u, b, r.call)
    BY DEF ReplyParts, ServerInv
  <2>2. u # t
    BY <2>1 DEF Asked
  <2>3. QED
    BY <1>0, <2>1, <2>2 DEF Asked
<1>4. LoopInv'
  BY <1>0 DEF ReplyParts, LoopInv, Asked
<1>5. ASSUME NEW u \in Senders PROVE AnswerInv(u)'
  BY <1>0 DEF ReplyParts, AnswerInv, Unpacked, At
<1>6. QED
  BY <1>1, <1>2, <1>3, <1>4, <1>5 DEF ReplyParts

\* malloc() gives a call a request nobody has, with an id nobody has.
LEMMA AllocateReply ==
  ASSUME TypeOK, ReplyParts, NEW t \in Senders, At(t, "send"), NEW b \in Blocks \ allocated,
         allocated' = allocated \cup {b},
         heap' = [heap EXCEPT ![b] = [id |-> lastrequestid, wait |-> th[t].wait,
                                      done |-> FALSE, code |-> 0, other |-> t]],
         th' = [th EXCEPT ![t].pc = "append", ![t].block = b],
         UNCHANGED <<lastrequestid, loop, got, atserver, removal, woken>>, StillValid
  PROVE  ReplyParts'
<1>0. /\ Callers \subseteq Senders
      /\ "append" \in Holding /\ "append" \notin Setup \cup Written
      /\ "send" \in Setup /\ "send" \notin Written \cup Holding
  BY DEF Senders, Setup, Holding, Written
<1>1. /\ th'[t].pc = "append" /\ th'[t].block = b /\ th'[t].id = th[t].id
      /\ th'[t].call = th[t].call /\ th'[t].wait = th[t].wait /\ th'[t].rc = th[t].rc
      /\ \A u \in Senders : u # t => th'[u] = th[u]
  BY DEF TypeOK, Frame
<1>2. /\ heap'[b].id = lastrequestid /\ heap'[b].wait = th[t].wait /\ heap'[b].done = FALSE
      /\ heap'[b].other = t /\ heap'[b].code = 0
      /\ \A a \in allocated : heap'[a] = heap[a]
  BY DEF TypeOK
<1>3. th[t].id = lastrequestid /\ lastrequestid \notin BusyIds
      /\ \A u \in Senders : u # t => th[u].pc \notin Setup
  BY <1>0 DEF ReplyParts, SetupInv, At
<1>4. SetupInv'
  BY <1>0, <1>1, <1>3 DEF SetupInv, At, Setup
<1>5. OwnedInv'
  <2>1. ASSUME NEW u \in Senders, th'[u].pc \in Holding
        PROVE  /\ th'[u].block \in allocated'
               /\ heap'[th'[u].block].id = th'[u].id
               /\ heap'[th'[u].block].other = u
    <3>1. CASE u = t
      BY <1>1, <1>2, <1>3, <3>1
    <3>2. CASE u # t
      <4>1. th'[u] = th[u]
        BY <1>1, <3>2
      <4>2. th[u].block \in allocated /\ heap[th[u].block].id = th[u].id
            /\ heap[th[u].block].other = u
        BY <2>1, <4>1 DEF ReplyParts, OwnedInv
      <4>3. heap'[th[u].block] = heap[th[u].block]
        BY <1>2, <4>2
      <4>4. th[u].block \in allocated'
        BY <4>2
      <4>5. QED
        BY <4>1, <4>2, <4>3, <4>4, Zenon
    <3>3. QED
      BY <3>1, <3>2
  <2>2. \A a \in allocated : heap'[a].id # heap'[b].id
    BY <1>2, <1>3 DEF BusyIds
  <2>3. ASSUME NEW a \in allocated', NEW c \in allocated', heap'[a].id = heap'[c].id
        PROVE  a = c
    BY <1>2, <2>2, <2>3 DEF ReplyParts, OwnedInv
  <2>4. QED
    BY <2>1, <2>3 DEF OwnedInv
<1>6. ASSUME NEW u \in Callers, NEW a, NEW k, Asked(u, a, k)
      PROVE  Asked(u, a, k)' /\ a \in allocated
  <2>1. u # t /\ th[u].pc \in Holding
    BY <1>0, <1>6 DEF Asked, At, Holding, Written
  <2>2. QED
    BY <1>0, <1>1, <1>6, <2>1 DEF Asked, ReplyParts, OwnedInv
<1>7. ServerInv'
  BY <1>2, <1>3, <1>6 DEF ReplyParts, ServerInv, BusyIds
<1>8. LoopInv'
  BY <1>2, <1>6 DEF ReplyParts, LoopInv
<1>9. AnswerInv(t)'
  BY <1>0, <1>1, <1>2 DEF ReplyParts, AnswerInv, At
<1>10. ASSUME NEW u \in Senders, u # t PROVE AnswerInv(u)'
  <2>1. th'[u] = th[u] /\ AnswerInv(u)
    BY <1>1, <1>10 DEF ReplyParts
  <2>2. th[u].pc \in Holding => heap'[th[u].block] = heap[th[u].block]
    BY <1>2 DEF ReplyParts, OwnedInv
  <2>3. QED
    BY <2>1, <2>2 DEF AnswerInv, Unpacked, At
<1>11. QED
  BY <1>4, <1>5, <1>7, <1>8, <1>9, <1>10 DEF ReplyParts

\* The request is given to the server, which may answer it from then on.
LEMMA WriteReply ==
  ASSUME TypeOK, ReplyParts, NEW t \in Senders, Write(t)
  PROVE  ReplyParts'
<1>0. /\ Callers \subseteq Senders
      /\ "branch" \in Holding \cap Written
      /\ "write" \in Holding /\ "write" \notin Written \cup Setup
      /\ "branch" \notin Setup
  BY DEF Senders, Setup, Holding, Written
<1>1. /\ th[t].pc = "write" /\ th'[t].pc = "branch" /\ th'[t].block = th[t].block
      /\ th'[t].id = th[t].id /\ th'[t].call = th[t].call
      /\ th'[t].wait = th[t].wait /\ th'[t].rc = th[t].rc
      /\ \A u \in Senders : u # t => th'[u] = th[u]
      /\ UNCHANGED <<lastrequestid, heap, allocated, loop, got, removal, woken>>
  BY DEF Write, Goto, At, TypeOK, Frame
<1>2. AnswerInv(t)'
  BY <1>0, <1>1 DEF ReplyParts, AnswerInv, Unpacked, At
<1>3. SetupInv'
  <2>1. th[t].block \in allocated /\ heap[th[t].block].id = th[t].id
    BY <1>0, <1>1 DEF ReplyParts, OwnedInv
  <2>2. BusyIds' = BusyIds
    BY <1>1, <2>1 DEF BusyIds, Write
  <2>3. QED
    BY <1>0, <1>1, <2>2 DEF ReplyParts, SetupInv, At, Setup
<1>4. OwnedInv'
  BY <1>0, <1>1 DEF ReplyParts, OwnedInv
<1>5. ASSUME NEW u \in Callers, NEW b, NEW k, Asked(u, b, k)
      PROVE  Asked(u, b, k)'
  BY <1>0, <1>1, <1>5 DEF Asked
<1>6. ServerInv'
  <2> SUFFICES ASSUME StillValid, NEW r \in atserver', NEW b \in allocated, heap[b].id = r.id
               PROVE  \E u \in Callers : Asked(u, b, r.call)'
    BY <1>1 DEF ServerInv, StillValid
  <2>1. CASE r \in atserver
    BY <1>5, <2>1 DEF ReplyParts, ServerInv
  <2>2. CASE r \notin atserver
    <3>1. t # Loop /\ r = [id |-> th[t].id, call |-> th[t].call]
      BY <2>2 DEF Write
    <3>2. t \in Callers /\ r.id = th[t].id /\ r.call = th[t].call
      BY <3>1 DEF Senders
    <3>3. b = th[t].block
      BY <1>0, <1>1, <3>2 DEF ReplyParts, OwnedInv
    <3>4. QED
      BY <1>0, <1>1, <3>2, <3>3 DEF Asked
  <2>3. QED
    BY <2>1, <2>2
<1>7. LoopInv'
  BY <1>1, <1>5 DEF ReplyParts, LoopInv
<1>8. ASSUME NEW u \in Senders, u # t PROVE AnswerInv(u)'
  BY <1>1, <1>8 DEF ReplyParts, AnswerInv, Unpacked, At
<1>9. QED
  BY <1>2, <1>3, <1>4, <1>6, <1>7, <1>8 DEF ReplyParts

\* The removal by the call that has the request: as no race happens, dsi_recv()
\* does not hold it.
LEMMA UnqueueReply ==
  ASSUME IInv, ReplyParts, removal.pc # "freed", NEW t \in Senders, Unqueue(t), Clean'
  PROVE  ReplyParts'
<1>0. TypeOK /\ th[t].pc = "remove" /\ "remove" \in Holding \cap Written
      /\ "remove" \notin {"append"}
  BY DEF IInv, Unqueue, At, Holding, Written
<1>1. th[t].block \in ToSet(queue)
  BY <1>0, OwnedIsListed DEF ReplyParts
<1>2. allocated' = allocated \ {th[t].block} \/ (~StillValid /\ allocated' = allocated)
  <2>1. CASE StillValid
    BY <1>0, <1>1, <2>1, RemovalShows DEF Unqueue
  <2>2. CASE ~StillValid
    BY <2>2 DEF Unqueue, RemoveIfValid
  <2>3. QED
    BY <2>1, <2>2
<1>3. loop.found # th[t].block
  <2>1. "freed_in_use" \notin races'
    BY DEF Clean
  <2>2. QED
    BY <1>1, <2>1 DEF Unqueue
<1>4. th'[t].pc = "idle" /\ th'[t].rc = th[t].rc /\ \A u \in Senders : u # t => th'[u] = th[u]
  BY <1>0 DEF Unqueue, Return, Idle, TypeOK
<1>5. th[t].rc # "wrong" /\ (th[t].rc = "unanswered" => t \in woken)
  BY DEF ReplyParts, AnswerInv
<1>6. UNCHANGED <<lastrequestid, heap, loop, got, removal, woken, atserver>>
  BY DEF Unqueue
<1>7. /\ allocated' \subseteq allocated /\ allocated \ allocated' \subseteq {th[t].block}
      /\ th[t].block \notin allocated' \/ ~StillValid
  BY <1>2
<1>8. QED
  BY <1>0, <1>3, <1>4, <1>5, <1>6, <1>7, ReturnStep

\* A sender's step.
LEMMA SendReply ==
  ASSUME IInv, ReplyParts, removal.pc # "freed", NEW t \in Senders, Send(t), Clean'
  PROVE  ReplyParts'
<1>0. TypeOK /\ th[t] \in Frame /\ AnswerInv(t)
  BY DEF IInv, TypeOK, ReplyParts
<1>1. CASE CopyId(t)
  <2>1. /\ th[t].pc = "header" /\ th'[t].pc = "send" /\ th'[t].id = lastrequestid
        /\ th'[t].rc = th[t].rc /\ th'[t].wait = th[t].wait
        /\ \A u \in Senders : u # t => th'[u] = th[u]
        /\ th'[t].call = th[t].call
        /\ UNCHANGED <<lastrequestid, heap, allocated, atserver, loop, got, removal, woken>>
    BY <1>0, <1>1 DEF CopyId, At, TypeOK, Frame
  <2>2. {"header", "send"} \subseteq Setup /\ Setup \cap Holding = {} /\ Written \subseteq Holding
        /\ Callers \subseteq Senders
    BY DEF Setup, Holding, Written, Senders
  <2>3. SetupInv'
    BY <2>1, <2>2 DEF ReplyParts, SetupInv, BusyIds, At
  <2>4. OwnedInv'
    BY <2>1, <2>2 DEF ReplyParts, OwnedInv
  <2>5. ASSUME NEW u \in Callers, NEW b, NEW k, Asked(u, b, k)
        PROVE  Asked(u, b, k)'
    BY <2>1, <2>2, <2>5 DEF Asked
  <2>6. ServerInv' /\ LoopInv'
    BY <2>1, <2>5 DEF ReplyParts, ServerInv, LoopInv, StillValid
  <2>7. ASSUME NEW u \in Senders PROVE AnswerInv(u)'
    BY <2>1, <2>2 DEF ReplyParts, AnswerInv, Unpacked, At
  <2>8. QED
    BY <2>3, <2>4, <2>6, <2>7 DEF ReplyParts
<1>2. CASE Allocate(t)
  <2>1. CASE \E b \in Blocks \ allocated :
               /\ StillValid
               /\ allocated' = allocated \cup {b}
               /\ heap' = [heap EXCEPT ![b] = [id |-> lastrequestid, wait |-> th[t].wait,
                                               done |-> FALSE, code |-> 0, other |-> t]]
               /\ th' = [th EXCEPT ![t].pc = "append", ![t].block = b]
    BY <1>0, <1>2, <2>1, AllocateReply DEF Allocate
  <2>2. CASE Return(t, "error") /\ UNCHANGED <<heap, allocated>>
    <3>1. th'[t].pc = "idle" /\ th'[t].rc = "error" /\ \A u \in Senders : u # t => th'[u] = th[u]
      BY <1>0, <2>2 DEF Return, Idle, TypeOK
    <3>2. th[t].pc = "send"
      BY <1>2 DEF Allocate, At
    <3>3. QED
      BY <1>2, <2>2, <3>1, <3>2, ReturnStep DEF Allocate, Written
  <2>3. QED
    BY <1>2, <2>1, <2>2 DEF Allocate
<1>3. CASE AppendRequest(t) \/ CheckState(t) \/ ReconnectFails(t)
  <2>1. \/ th[t].pc = "append" /\ Goto(t, "check")
        \/ th[t].pc = "check" /\ Goto(t, "write")
    BY <1>3 DEF AppendRequest, CheckState, ReconnectFails, At
  <2>2. /\ \/ th[t].pc = "append" /\ th'[t].pc = "check"
           \/ th[t].pc = "check" /\ th'[t].pc = "write"
        /\ th'[t].block = th[t].block /\ th'[t].id = th[t].id
        /\ th'[t].call = th[t].call /\ th'[t].wait = th[t].wait /\ th'[t].rc = th[t].rc
        /\ \A u \in Senders : u # t => th'[u] = th[u]
    BY <1>0, <2>1 DEF Goto, TypeOK, Frame
  <2>3. UNCHANGED <<lastrequestid, heap, allocated, atserver, loop, got, removal, woken>>
    BY <1>3 DEF AppendRequest, CheckState, ReconnectFails
  <2>4. AnswerInv(t)'
    BY <1>0, <2>2, <2>3 DEF AnswerInv, Unpacked, At, Holding, Setup
  <2>5. QED
    BY <2>2, <2>3, <2>4, LocalStep DEF Holding, Written
<1>4. CASE ReconnectWorks(t)
  BY <1>4 DEF ReconnectWorks, Clean
<1>5. CASE Write(t)
  BY <1>0, <1>5, WriteReply
<1>6. CASE WriteBroken(t)
  <2>1. th'[t].pc = "idle" /\ th'[t].rc = "error" /\ \A u \in Senders : u # t => th'[u] = th[u]
    BY <1>0, <1>6 DEF WriteBroken, Return, Idle, TypeOK
  <2>2. th[t].pc = "write"
    BY <1>6 DEF WriteBroken, At
  <2>3. QED
    BY <1>6, <2>1, <2>2, ReturnStep DEF WriteBroken, Written
<1>7. CASE WriteFails(t)
  <2>1. /\ th[t].pc = "write" /\ th'[t].pc = "remove" /\ th'[t].rc = "error"
        /\ th'[t].block = th[t].block /\ th'[t].id = th[t].id /\ th'[t].call = th[t].call
        /\ \A u \in Senders : u # t => th'[u] = th[u]
    BY <1>0, <1>7 DEF WriteFails, At, TypeOK, Frame
  <2>2. AnswerInv(t)'
    BY <2>1 DEF AnswerInv, Unpacked, At, Setup
  <2>3. QED
    BY <1>7, <2>1, <2>2, LocalStep DEF WriteFails, Holding, Written
<1>8. CASE BranchOnWait(t)
  <2> DEFINE w == heap[th[t].block].wait
  <2>1. /\ th[t].pc = "branch" /\ th'[t].pc = IF w = "none" THEN "code" ELSE "enter"
        /\ th'[t].block = th[t].block /\ th'[t].id = th[t].id /\ th'[t].call = th[t].call
        /\ th'[t].rc = th[t].rc
        /\ \A u \in Senders : u # t => th'[u] = th[u]
    BY <1>0, <1>8 DEF BranchOnWait, At, TypeOK, Frame
  <2>2. AnswerInv(t)'
    <3>1. heap' = heap /\ got' = got /\ loop' = loop /\ woken' = woken
      BY <1>8 DEF BranchOnWait
    <3>2. /\ th'[t].pc \in {"code", "enter"} /\ (th'[t].pc = "code" => heap[th[t].block].wait = "none")
      BY <2>1
    <3>3. AnswerInv(t)
      BY <1>0
    <3>4. QED
      BY <2>1, <3>1, <3>2, <3>3 DEF AnswerInv, Unpacked, At, Holding, Setup
  <2>3. QED
    BY <1>8, <2>1, <2>2, LocalStep DEF BranchOnWait, Holding, Written
<1>9. CASE EnterWait(t)
  <2>1. /\ th[t].pc = "enter" /\ th'[t].pc = IF heap[th[t].block].done THEN "code" ELSE "waiting"
        /\ th'[t].block = th[t].block /\ th'[t].id = th[t].id /\ th'[t].call = th[t].call
        /\ th'[t].rc = th[t].rc
        /\ \A u \in Senders : u # t => th'[u] = th[u]
    BY <1>0, <1>9 DEF EnterWait, Goto, At, TypeOK, Frame
  <2>2. AnswerInv(t)'
    BY <1>0, <1>9, <2>1 DEF EnterWait, AnswerInv, Unpacked, At, Holding, Setup
  <2>3. QED
    BY <1>9, <2>1, <2>2, LocalStep DEF EnterWait, Holding, Written
<1>10. CASE Timeout(t)
  <2>1. /\ th[t].pc = "waiting" /\ th'[t].pc = "remove" /\ th'[t].rc = "timeout"
        /\ th'[t].block = th[t].block /\ th'[t].id = th[t].id /\ th'[t].call = th[t].call
        /\ \A u \in Senders : u # t => th'[u] = th[u]
    BY <1>0, <1>10 DEF Timeout, At, TypeOK, Frame
  <2>2. AnswerInv(t)'
    BY <2>1 DEF AnswerInv, Unpacked, At, Setup
  <2>3. QED
    BY <1>10, <2>1, <2>2, LocalStep DEF Timeout, Holding, Written
<1>11. CASE ReadCode(t)
  <2> DEFINE code == heap[th[t].block].code
  <2>1. /\ th[t].pc = "code" /\ th'[t].pc = "remove"
        /\ th'[t].rc = IF th[t].rc = "unwaited" THEN "unwaited" ELSE Meaning(code, th[t].call)
        /\ th'[t].block = th[t].block /\ th'[t].id = th[t].id /\ th'[t].call = th[t].call
        /\ \A u \in Senders : u # t => th'[u] = th[u]
        /\ UNCHANGED <<heap, got, loop, woken>>
    BY <1>0, <1>11 DEF ReadCode, At, TypeOK, Frame
  <2>2. \/ th[t].rc = "unwaited"
        \/ /\ th[t].call # 0 /\ code \in {0, th[t].call}
           /\ code = th[t].call => Unpacked(t)
           /\ code = 0 => t \in woken
    BY <1>0, <2>1 DEF AnswerInv, At, Holding
  <2>3. \/ th'[t].rc = "unwaited"
        \/ th'[t].rc = "ok" /\ Unpacked(t)
        \/ th'[t].rc = "unanswered" /\ t \in woken
    BY <2>1, <2>2 DEF Meaning
  <2>4. AnswerInv(t)'
    BY <2>1, <2>3 DEF AnswerInv, Unpacked, At, Setup, Holding
  <2>5. QED
    BY <1>11, <2>1, <2>4, LocalStep DEF ReadCode, Holding, Written
<1>12. CASE Unqueue(t)
  BY <1>12, UnqueueReply
<1>13. CASE WakeEarly(t)
  <2>1. /\ th[t].pc = "waiting" /\ th'[t].pc = "code"
        /\ th'[t].block = th[t].block /\ th'[t].id = th[t].id /\ th'[t].call = th[t].call
        /\ th'[t].rc = th[t].rc
        /\ \A u \in Senders : u # t => th'[u] = th[u]
        /\ woken' = woken \cup {t} /\ UNCHANGED <<heap, got, loop>>
    BY <1>0, <1>13 DEF WakeEarly, Goto, At, TypeOK, Frame
  <2>2. AnswerInv(t)'
    BY <1>0, <2>1 DEF AnswerInv, Unpacked, At, Holding, Setup
  <2>3. QED
    BY <1>13, <2>1, <2>2, LocalStep DEF WakeEarly, Holding, Written
<1>14. QED
  BY <1>1, <1>2, <1>3, <1>4, <1>5, <1>6, <1>7, <1>8, <1>9, <1>10, <1>11, <1>12, <1>13 DEF Send

\* A new call.
LEMMA BeginReply ==
  ASSUME TypeOK, ReplyParts, NEW t \in Senders, NEW k, NEW w, Begin(t, k, w), Clean',
         w = "none" \/ k # 0,
         loop' = loop \/ (loop.pkt.tickle /\ loop'.found = loop.found)
  PROVE  ReplyParts'
<1>0. /\ "idle" \notin Setup \cup Holding /\ "header" \in Setup /\ Setup \cap Holding = {}
      /\ Written \subseteq Holding /\ Callers \subseteq Senders
  BY DEF Setup, Holding, Written, Senders
<1>1. /\ th[t].pc = "idle" /\ lastrequestid' = NextId
      /\ th'[t] = [pc |-> "header", call |-> k, id |-> 0, wait |-> w, block |-> NoBlock,
                   rc |-> IF w = "none" THEN "unwaited" ELSE "none"]
      /\ \A u \in Senders : u # t => th'[u] = th[u] /\ got'[u] = got[u]
      /\ UNCHANGED <<heap, allocated, atserver, removal>>
      /\ woken' = woken \ {t} /\ loop'.found = loop.found
  BY DEF Begin, At, TypeOK
<1>2. /\ \A u \in Senders : th[u].pc \notin Setup
      /\ NextId \notin BusyIds
  <2>1. "overlap" \notin races' /\ "id_reused" \notin races'
    BY DEF Clean
  <2>2. QED
    BY <2>1 DEF Begin, Setup
<1>3. SetupInv'
  <2>1. \A u \in Senders : th'[u].pc \in Setup => u = t
    BY <1>1, <1>2
  <2>2. th'[t].pc = "header" /\ lastrequestid' \notin BusyIds'
    BY <1>1, <1>2 DEF BusyIds
  <2>3. QED
    BY <2>1, <2>2 DEF SetupInv, At, Setup
<1>4. OwnedInv'
  BY <1>0, <1>1 DEF ReplyParts, OwnedInv
<1>5. ASSUME NEW u \in Callers, NEW b, NEW n, Asked(u, b, n)
      PROVE  Asked(u, b, n)' /\ got'[u] = got[u]
  <2>1. u # t
    BY <1>0, <1>1, <1>5 DEF Asked
  <2>2. QED
    BY <1>0, <1>1, <1>5, <2>1 DEF Asked
<1>6. ServerInv'
  BY <1>1, <1>5 DEF ReplyParts, ServerInv, StillValid
<1>7. LoopInv'
  BY <1>1, <1>5 DEF ReplyParts, LoopInv, Begin, At
<1>8. AnswerInv(t)'
  <2>1. /\ th'[t].pc = "header" /\ th'[t].call = k /\ th'[t].wait = w
        /\ th'[t].rc = IF w = "none" THEN "unwaited" ELSE "none"
    BY <1>1
  <2>2. "header" \notin Holding
    BY DEF Holding
  <2>3. QED
    BY <2>1, <2>2 DEF AnswerInv, At
<1>9. ASSUME NEW u \in Senders, u # t PROVE AnswerInv(u)'
  <2>1. AnswerInv(u) /\ th'[u] = th[u] /\ got'[u] = got[u] /\ (u \in woken => u \in woken')
    BY <1>1, <1>9 DEF ReplyParts
  <2>2. QED
    BY <1>1, <2>1 DEF AnswerInv, Unpacked, At
<1>10. QED
  BY <1>3, <1>4, <1>6, <1>7, <1>8, <1>9 DEF ReplyParts

-----------------------------------------------------------------------------
(* The loop thread's steps *)

\* A step of the loop thread that changes nothing of the calls, and keeps the
\* request it has found if it has one.
LEMMA LoopStep ==
  ASSUME TypeOK, ReplyParts, UNCHANGED <<lastrequestid, heap, allocated, th, got, removal, woken>>,
         atserver' \subseteq atserver, loop.found = NoBlock \/ loop'.found = loop.found, LoopInv'
  PROVE  ReplyParts'
<1>1. SetupInv' /\ OwnedInv'
  BY DEF ReplyParts, SetupInv, OwnedInv, BusyIds, At
<1>2. ServerInv'
  BY DEF ReplyParts, ServerInv, StillValid, Asked
<1>3. ASSUME NEW u \in Senders PROVE AnswerInv(u)'
  <2>1. th[u].pc \in Holding => th[u].block # NoBlock
    BY DsiConstants DEF TypeOK, ReplyParts, OwnedInv
  <2>2. th[u].pc \in Holding /\ Unpacked(u) => Unpacked(u)'
    BY <2>1 DEF Unpacked
  <2>3. "remove" \in Holding
    BY DEF Holding
  <2>4. QED
    BY <2>2, <2>3 DEF ReplyParts, AnswerInv, At
<1>4. QED
  BY <1>1, <1>2, <1>3 DEF ReplyParts

\* A step of another thread that writes only to a request or to the memory of
\* its call, and leaves the id and the owner of the request.
LEMMA StoreStep ==
  ASSUME ReplyParts, UNCHANGED <<lastrequestid, allocated, atserver>>, StillValid' => StillValid,
         \A b \in allocated : heap'[b].id = heap[b].id /\ heap'[b].other = heap[b].other,
         \A u \in Senders : \/ th'[u] = th[u]
                            \/ /\ th[u].pc = "waiting" /\ th'[u].pc = "code"
                               /\ th'[u].block = th[u].block /\ th'[u].call = th[u].call
                               /\ th'[u].id = th[u].id,
         LoopInv', \A u \in Senders : AnswerInv(u)'
  PROVE  ReplyParts'
<1>0. /\ {"waiting", "code"} \subseteq Written /\ Written \subseteq Holding
      /\ {"waiting", "code"} \cap Setup = {} /\ Callers \subseteq Senders
  BY DEF Setup, Written, Holding, Senders
<1>1. BusyIds' = BusyIds
  BY DEF BusyIds
<1>2. SetupInv'
  BY <1>0, <1>1 DEF ReplyParts, SetupInv, At
<1>3. OwnedInv'
  BY <1>0 DEF ReplyParts, OwnedInv
<1>4. ServerInv'
  BY <1>0 DEF ReplyParts, ServerInv, Asked
<1>5. QED
  BY <1>2, <1>3, <1>4 DEF ReplyParts

\* dsi_find_request(): the request it returns has the packet's id and is on the
\* list.
LEMMA ReceiveFinds ==
  ASSUME IInv, NEW pkt, Receive(pkt)
  PROVE  /\ loop'.pc = "store" /\ loop'.pkt = pkt
         /\ loop'.found # NoBlock => loop'.found \in allocated /\ heap[loop'.found].id = pkt.id
         /\ StillValid /\ UNCHANGED <<lastrequestid, heap, allocated, th, got, removal, woken>>
<1>0. removal.pc # "freed"
  BY DEF Receive, StillValid
<1>1. ASSUME NEW i \in 1..Len(queue) PROVE queue[i] \in allocated
  <2>1. queue[i] \in ToSet(queue)
    BY LenProperties DEF IInv, TypeOK, ToSet
  <2>2. QED
    BY <1>0, <2>1 DEF IInv, QueueInv, RequestsAccounted
<1>2. QED
  BY <1>1 DEF Receive

\* The loop thread's step.
LEMMA RecvReply ==
  ASSUME IInv, ReplyParts, removal.pc # "freed", Recv, Clean'
  PROVE  ReplyParts'
<1>0. TypeOK /\ NoBlock \notin Blocks /\ allocated \subseteq Blocks /\ LoopInv
      /\ Callers \subseteq Senders /\ Written \subseteq Holding
  BY DsiConstants DEF IInv, TypeOK, ReplyParts, Senders, Written, Holding
<1>1. CASE ReceiveReply
  <2>1. PICK r \in atserver :
          /\ Receive([tickle |-> FALSE, id |-> r.id, call |-> r.call])
          /\ atserver' = atserver \ {r}
    BY <1>1 DEF ReceiveReply
  <2>2. LoopInv'
    <3>1. loop'.pc = "store" /\ ~loop'.pkt.tickle /\ loop'.pkt.call = r.call /\ UNCHANGED th
      BY <2>1, ReceiveFinds
    <3>2. ASSUME loop'.found # NoBlock
          PROVE  \E t \in Callers : Asked(t, loop'.found, r.call)
      <4>1. loop'.found \in allocated /\ heap[loop'.found].id = r.id
        BY <2>1, <3>2, ReceiveFinds
      <4>2. QED
        BY <2>1, <4>1, ReceiveFinds DEF ReplyParts, ServerInv
    <3>3. QED
      BY <3>1, <3>2 DEF LoopInv, Asked
  <2>3. loop.found = NoBlock
    BY <1>0, <2>1 DEF Receive, LoopInv
  <2>4. QED
    BY <1>0, <2>1, <2>2, <2>3, ReceiveFinds, LoopStep
<1>2. CASE ReceiveTickle
  <2>1. loop'.found = NoBlock
    BY <1>2 DEF ReceiveTickle, Clean
  <2>2. LoopInv'
    BY <2>1 DEF LoopInv
  <2>3. loop.found = NoBlock
    BY <1>0, <1>2 DEF ReceiveTickle, Receive, LoopInv
  <2>4. QED
    BY <1>0, <1>2, <2>2, <2>3, LoopStep DEF ReceiveTickle, Receive
<1>3. CASE ReceiveEOF
  <2>1. LoopInv'
    BY <1>0, <1>3 DEF ReceiveEOF, LoopInv, Asked
  <2>2. QED
    BY <1>0, <1>3, <2>1, LoopStep DEF ReceiveEOF
<1>4. CASE StoreCode
  <2>1. loop'.pc = "process" /\ loop'.found = loop.found /\ loop'.pkt = loop.pkt
    BY <1>0, <1>4 DEF StoreCode, TypeOK, LoopState
  <2>2. CASE loop.found = NoBlock
    <3>1. LoopInv'
      BY <2>1, <2>2 DEF LoopInv
    <3>2. QED
      BY <1>0, <1>4, <2>2, <3>1, LoopStep DEF StoreCode
  <2>3. CASE loop.found # NoBlock
    <3>1. PICK t \in Callers : Asked(t, loop.found, loop.pkt.call)
      BY <1>0, <2>3 DEF LoopInv
    <3>2. th[t].pc \in Holding /\ loop.found = th[t].block /\ th[t].call = loop.pkt.call
          /\ loop.found \in allocated
      BY <1>0, <3>1 DEF Asked, ReplyParts, OwnedInv
    <3>3. /\ heap'[loop.found] = [heap[loop.found] EXCEPT !.code = loop.pkt.call]
          /\ \A b \in Blocks : b # loop.found => heap'[b] = heap[b]
      BY <1>0, <1>4, <2>3, <3>2 DEF StoreCode, TypeOK
    <3>4. /\ heap'[loop.found].id = heap[loop.found].id
          /\ heap'[loop.found].other = heap[loop.found].other
          /\ heap'[loop.found].wait = heap[loop.found].wait
          /\ heap'[loop.found].done = heap[loop.found].done
          /\ heap'[loop.found].code = loop.pkt.call
      BY <1>0, <3>2, <3>3 DEF TypeOK, Request
    <3>5. LoopInv'
      BY <1>0, <1>4, <2>1, <3>1, <3>4 DEF StoreCode, LoopInv, Asked
    <3>6. ASSUME NEW u \in Senders PROVE AnswerInv(u)'
      <4>1. AnswerInv(u)
        BY DEF ReplyParts
      <4>2. CASE th[u].pc \in Holding /\ th[u].block = loop.found
        <5>1. u = t
          BY <1>0, <3>2, <4>2, BlocksDiffer DEF ReplyParts
        <5>2. loop'.found = th[t].block /\ UNCHANGED <<th, got, woken>>
          BY <1>4, <2>1, <3>2 DEF StoreCode
        <5>3. QED
          BY <2>1, <3>2, <3>4, <4>1, <5>1, <5>2 DEF AnswerInv, Unpacked, At
      <4>3. CASE ~(th[u].pc \in Holding /\ th[u].block = loop.found)
        <5>1. th[u].pc \in Holding => heap'[th[u].block] = heap[th[u].block]
          BY <1>0, <3>3, <4>3 DEF ReplyParts, OwnedInv
        <5>2. QED
          BY <1>4, <2>1, <4>1, <5>1 DEF StoreCode, AnswerInv, Unpacked, At
      <4>4. QED
        BY <4>2, <4>3
    <3>7. QED
      BY <1>0, <1>4, <3>3, <3>4, <3>5, <3>6, StoreStep DEF StoreCode, StillValid
  <2>4. QED
    BY <2>2, <2>3
<1>5. CASE ProcessReply
  <2>1. loop'.pc = "finish" /\ loop'.found = loop.found /\ loop'.pkt = loop.pkt
        /\ loop.pc = "process"
        /\ UNCHANGED <<lastrequestid, heap, allocated, th, atserver, removal, woken>>
    BY <1>0, <1>5 DEF ProcessReply, TypeOK, LoopState
  <2>2. CASE loop.found = NoBlock
    <3>1. LoopInv'
      BY <2>1, <2>2 DEF LoopInv
    <3>2. QED
      BY <1>0, <1>5, <2>1, <2>2, <3>1, LoopStep DEF ProcessReply
  <2>3. CASE loop.found # NoBlock
    <3>1. PICK t \in Callers : Asked(t, loop.found, loop.pkt.call)
      BY <1>0, <2>3 DEF LoopInv
    <3>2. th[t].pc \in Holding /\ heap[loop.found].other = t /\ th[t].call = loop.pkt.call
      BY <1>0, <3>1 DEF Asked, ReplyParts, OwnedInv
    <3>3. got' = [got EXCEPT ![t] = loop.pkt.call]
      BY <1>5, <2>3, <3>2 DEF ProcessReply
    <3>4. got'[t] = loop.pkt.call /\ \A u \in Senders : u # t => got'[u] = got[u]
      BY <1>0, <3>3 DEF TypeOK
    <3>5. LoopInv'
      BY <1>0, <2>1, <3>1, <3>4 DEF LoopInv, Asked
    <3>6. ASSUME NEW u \in Senders PROVE AnswerInv(u)'
      <4>1. AnswerInv(u)
        BY DEF ReplyParts
      <4>2. got'[u] = got[u] \/ (u = t /\ got'[u] = th[u].call)
        BY <3>2, <3>4
      <4>3. QED
        BY <2>1, <4>1, <4>2 DEF AnswerInv, Unpacked, At
    <3>7. QED
      BY <2>1, <3>5, <3>6, StoreStep DEF StillValid
  <2>4. QED
    BY <2>2, <2>3
<1>6. CASE ProcessTickle
  <2>1. loop.pkt.tickle /\ loop'.found = loop.found /\ Begin(Loop, 0, "none")
    BY <1>0, <1>6 DEF ProcessTickle, TypeOK, LoopState
  <2>2. QED
    BY <1>0, <2>1, Members, BeginReply
<1>7. CASE TickleSent
  <2>1. loop'.pc = "finish" /\ loop'.found = loop.found /\ loop'.pkt = loop.pkt
        /\ loop.pc = "tickling"
        /\ UNCHANGED <<lastrequestid, heap, allocated, th, got, atserver, removal, woken>>
    BY <1>0, <1>7 DEF TickleSent, TypeOK, LoopState
  <2>2. LoopInv'
    BY <1>0, <2>1 DEF LoopInv, Asked
  <2>3. QED
    BY <1>0, <2>1, <2>2, LoopStep
<1>8. CASE FinishUnawaited
  <2>1. loop'.found = NoBlock
    BY <1>8 DEF FinishUnawaited, Selecting
  <2>2. LoopInv'
    BY <2>1 DEF LoopInv
  <2>3. CASE loop.found = NoBlock
    BY <1>0, <1>8, <2>2, <2>3, LoopStep DEF FinishUnawaited
  <2>4. CASE loop.found # NoBlock /\ StillValid
    <3>1. PICK t \in Callers : Asked(t, loop.found, loop.pkt.call)
      BY <1>0, <2>4 DEF LoopInv
    <3>2. t \in Senders /\ th[t].pc \in Holding \ {"append"} /\ th[t].block = loop.found
      BY <1>0, <3>1 DEF Asked, Written, Holding
    <3>3. loop.found \in ToSet(queue)
      BY <3>2, OwnedIsListed DEF ReplyParts
    <3>4. queue' # queue
      BY <1>0, <1>8, <2>4, <3>3, RemovalShows DEF FinishUnawaited
    <3>5. "freed_in_use" \in races'
      BY <1>8, <3>2, <3>4 DEF FinishUnawaited
    <3>6. QED
      BY <3>5 DEF Clean
  <2>5. CASE loop.found # NoBlock /\ ~StillValid
    <3>1. PICK t \in Callers : Asked(t, loop.found, loop.pkt.call) /\ got[t] = loop.pkt.call
      BY <1>0, <1>8, <2>5 DEF LoopInv, FinishUnawaited
    <3>2. UNCHANGED <<lastrequestid, heap, allocated, th, got, atserver, removal, woken>>
      BY <1>8, <2>5 DEF FinishUnawaited, RemoveIfValid
    <3>3. ASSUME NEW u \in Senders PROVE AnswerInv(u)'
      <4>1. th[u].pc \in Holding /\ Unpacked(u) => Unpacked(u)'
        <5>1. CASE loop.found = th[u].block /\ th[u].pc \in Holding
          <6>1. u = t
            BY <1>0, <3>1, <5>1, BlocksDiffer DEF Asked, ReplyParts
          <6>2. QED
            BY <3>1, <3>2, <6>1 DEF Asked, Unpacked
        <5>2. CASE loop.found # th[u].block
          BY <3>2, <5>2 DEF Unpacked
        <5>3. QED
          BY <5>1, <5>2
      <4>2. "remove" \in Holding
        BY DEF Holding
      <4>3. QED
        BY <3>2, <4>1, <4>2 DEF ReplyParts, AnswerInv, At
    <3>4. QED
      BY <2>2, <3>2, <3>3, StoreStep DEF StillValid
  <2>6. QED
    BY <2>3, <2>4, <2>5
<1>9. CASE FinishAwaited
  <2>1. loop'.pc = "signal" /\ loop'.found = loop.found /\ loop'.pkt = loop.pkt
        /\ loop.pc = "finish" /\ loop.found # NoBlock
        /\ UNCHANGED <<lastrequestid, allocated, th, got, atserver, removal, woken>>
    BY <1>0, <1>9 DEF FinishAwaited, TypeOK, LoopState
  <2>2. PICK t \in Callers : Asked(t, loop.found, loop.pkt.call) /\ got[t] = loop.pkt.call
    BY <1>0, <2>1 DEF LoopInv
  <2>3. th[t].pc \in Holding /\ loop.found = th[t].block /\ th[t].call = loop.pkt.call
        /\ loop.found \in allocated /\ heap[loop.found].code = loop.pkt.call
    BY <1>0, <2>1, <2>2 DEF Asked, ReplyParts, OwnedInv, LoopInv
  <2>4. /\ heap'[loop.found] = [heap[loop.found] EXCEPT !.wait = "none"]
        /\ \A b \in Blocks : b # loop.found => heap'[b] = heap[b]
    BY <1>0, <1>9, <2>3 DEF FinishAwaited, TypeOK
  <2>5. /\ heap'[loop.found].id = heap[loop.found].id
        /\ heap'[loop.found].other = heap[loop.found].other
        /\ heap'[loop.found].done = heap[loop.found].done
        /\ heap'[loop.found].code = heap[loop.found].code
    BY <1>0, <2>3, <2>4 DEF TypeOK, Request
  <2>6. LoopInv'
    BY <1>0, <2>1, <2>2, <2>3, <2>5 DEF LoopInv, Asked
  <2>7. ASSUME NEW u \in Senders PROVE AnswerInv(u)'
    <3>1. AnswerInv(u)
      BY DEF ReplyParts
    <3>2. CASE th[u].pc \in Holding /\ th[u].block = loop.found
      <4>1. u = t
        BY <1>0, <2>3, <3>2, BlocksDiffer DEF ReplyParts
      <4>2. QED
        BY <2>1, <2>2, <2>3, <2>5, <3>1, <4>1 DEF AnswerInv, Unpacked, At
    <3>3. CASE ~(th[u].pc \in Holding /\ th[u].block = loop.found)
      <4>1. th[u].pc \in Holding => heap'[th[u].block] = heap[th[u].block]
        BY <1>0, <2>4, <3>3 DEF ReplyParts, OwnedInv
      <4>2. QED
        BY <2>1, <3>1, <4>1 DEF AnswerInv, Unpacked, At
    <3>4. QED
      BY <3>2, <3>3
  <2>8. QED
    BY <1>0, <2>1, <2>4, <2>5, <2>6, <2>7, StoreStep DEF StillValid
<1>10. CASE Signal
  <2>1. loop'.found = NoBlock /\ loop.pc = "signal"
        /\ UNCHANGED <<lastrequestid, allocated, got, atserver, removal, woken>>
    BY <1>10 DEF Signal, Selecting
  <2>2. LoopInv'
    BY <2>1 DEF LoopInv
  <2>3. ASSUME NEW u \in Senders
        PROVE  \/ th'[u] = th[u]
               \/ /\ th[u].pc = "waiting" /\ th'[u].pc = "code" /\ th[u].block = loop.found
                  /\ th'[u].block = th[u].block /\ th'[u].call = th[u].call
                  /\ th'[u].id = th[u].id /\ th'[u].rc = th[u].rc
    BY <1>0, <1>10 DEF Signal, TypeOK, Frame
  <2>4. /\ loop.found \in Blocks => heap'[loop.found] = [heap[loop.found] EXCEPT !.done = TRUE]
        /\ \A b \in Blocks : b # loop.found => heap'[b] = heap[b]
    BY <1>0, <1>10 DEF Signal, TypeOK
  <2>5. loop.found \in Blocks =>
          /\ heap'[loop.found].id = heap[loop.found].id
          /\ heap'[loop.found].other = heap[loop.found].other
          /\ heap'[loop.found].wait = heap[loop.found].wait
          /\ heap'[loop.found].code = heap[loop.found].code
    BY <1>0, <2>4 DEF TypeOK, Request
  <2>6. ASSUME NEW u \in Senders PROVE AnswerInv(u)'
    <3>1. AnswerInv(u)
      BY DEF ReplyParts
    <3>2. CASE th[u].pc \in Holding /\ th[u].block = loop.found
      <4>1. loop.found \in Blocks /\ loop.found # NoBlock
        BY <1>0, <3>2 DEF ReplyParts, OwnedInv
      <4>2. PICK t \in Callers : Asked(t, loop.found, loop.pkt.call) /\ got[t] = loop.pkt.call
        BY <1>0, <2>1, <4>1 DEF LoopInv
      <4>3. heap[loop.found].code = loop.pkt.call
        BY <1>0, <2>1, <4>1 DEF LoopInv
      <4>4. u = t
        BY <1>0, <3>2, <4>2, BlocksDiffer DEF ReplyParts, Asked
      <4>5. th[u].call = heap[loop.found].code /\ got[u] = th[u].call
        BY <4>2, <4>3, <4>4 DEF Asked
      <4>6. th'[u].block = loop.found /\ th'[u].call = th[u].call /\ th'[u].rc = th[u].rc
            /\ (th'[u].pc = th[u].pc \/ (th[u].pc = "waiting" /\ th'[u].pc = "code"))
            /\ th'[u].pc \in Holding /\ th'[u].pc \notin Setup
        BY <2>3, <3>2 DEF Holding, Setup
      <4>7. QED
        BY <2>1, <2>5, <3>1, <3>2, <4>1, <4>5, <4>6 DEF AnswerInv, Unpacked, At
    <3>3. CASE ~(th[u].pc \in Holding /\ th[u].block = loop.found)
      <4>1. th'[u] = th[u]
        BY <2>3, <3>3 DEF Holding
      <4>2. th[u].pc \in Holding => heap'[th[u].block] = heap[th[u].block]
        BY <1>0, <2>4, <3>3 DEF ReplyParts, OwnedInv
      <4>3. QED
        BY <2>1, <3>1, <3>3, <4>1, <4>2 DEF AnswerInv, Unpacked, At, Holding
    <3>4. QED
      BY <3>2, <3>3
  <2>7. QED
    BY <1>0, <2>1, <2>2, <2>3, <2>4, <2>5, <2>6, StoreStep DEF StillValid
<1>11. QED
  BY <1>1, <1>2, <1>3, <1>4, <1>5, <1>6, <1>7, <1>8, <1>9, <1>10 DEF Recv

-----------------------------------------------------------------------------
(* The steps of the thread that removes the server *)

\* A step that only takes the removal on.
LEMMA QuietRemoval ==
  ASSUME IInv, ReplyParts, RemovalStarts \/ NextPending \/ Unlink
  PROVE  ReplyParts' /\ removal'.pc # "freed"
<1>1. /\ UNCHANGED <<lastrequestid, heap, allocated, th, loop, got, atserver, woken>>
      /\ StillValid /\ removal'.pc # "freed"
  BY DEF RemovalStarts, NextPending, Unlink, StillValid, IInv, TypeOK, RemovalState
<1>2. LoopInv' /\ \A u \in Senders : AnswerInv(u)'
  BY <1>1 DEF ReplyParts, LoopInv, Asked, AnswerInv, Unpacked, At
<1>3. QED
  BY <1>1, <1>2, StoreStep

\* afp_server_remove() wakes the sender of a request.
LEMMA WakeReply ==
  ASSUME IInv, ReplyParts, WakePending
  PROVE  ReplyParts' /\ removal'.pc # "freed"
<1> DEFINE b == removal.at
<1>0. TypeOK /\ LoopInv /\ b \in Blocks /\ StillValid /\ removal'.pc = "next"
      /\ Callers \subseteq Senders
  BY DEF IInv, ReplyParts, WakePending, StillValid, TypeOK, RemovalState, Senders
<1>1. UNCHANGED <<lastrequestid, allocated, got, loop, atserver>> /\ woken \subseteq woken'
      /\ \A u \in Senders : ~At(u, "idle") /\ th[u].block = b => u \in woken'
  BY DEF WakePending
<1>2. /\ heap'[b] = [heap[b] EXCEPT !.done = TRUE]
      /\ \A a \in Blocks : a # b => heap'[a] = heap[a]
  BY <1>0 DEF WakePending, TypeOK
<1>3. /\ heap'[b].id = heap[b].id /\ heap'[b].other = heap[b].other
      /\ heap'[b].wait = heap[b].wait /\ heap'[b].code = heap[b].code
  BY <1>0, <1>2 DEF TypeOK, Request
<1>4. ASSUME NEW u \in Senders
      PROVE  \/ th'[u] = th[u]
             \/ /\ th[u].pc = "waiting" /\ th'[u].pc = "code" /\ th[u].block = b
                /\ th'[u].block = th[u].block /\ th'[u].call = th[u].call
                /\ th'[u].id = th[u].id /\ th'[u].rc = th[u].rc
  BY <1>0 DEF WakePending, TypeOK, Frame
<1>5. LoopInv'
  <2>1. ASSUME NEW u \in Callers, NEW k, Asked(u, loop.found, k)
        PROVE  Asked(u, loop.found, k)'
    BY <1>0, <1>1, <1>4, <2>1 DEF Asked, Written
  <2>2. \/ loop.found \in Blocks \cup {NoBlock} /\ heap'[loop.found].code = heap[loop.found].code
        \/ loop.found = NoBlock
    BY <1>0, <1>2, <1>3 DEF TypeOK, LoopState
  <2>3. QED
    BY <1>0, <1>1, <2>1, <2>2 DEF LoopInv
<1>6. ASSUME NEW u \in Senders PROVE AnswerInv(u)'
  <2>1. AnswerInv(u)
    BY DEF ReplyParts
  <2>2. CASE th[u].pc \in Holding /\ th[u].block = b
    <3>1. u \in woken'
      BY <1>1, <2>2 DEF At, Holding
    <3>2. /\ th'[u].block = b /\ th'[u].call = th[u].call /\ th'[u].rc = th[u].rc
          /\ th'[u].pc = th[u].pc \/ (th[u].pc = "waiting" /\ th'[u].pc = "code")
          /\ th'[u].pc \in Holding /\ th'[u].pc \notin Setup
      BY <1>4, <2>2 DEF Holding, Setup
    <3>3. QED
      BY <1>1, <1>3, <2>1, <2>2, <3>1, <3>2 DEF AnswerInv, Unpacked, At
  <2>3. CASE ~(th[u].pc \in Holding /\ th[u].block = b)
    <3>1. th'[u] = th[u]
      BY <1>4, <2>3 DEF Holding
    <3>2. th[u].pc \in Holding => heap'[th[u].block] = heap[th[u].block]
      BY <1>0, <1>2, <2>3 DEF ReplyParts, OwnedInv, TypeOK
    <3>3. QED
      BY <1>1, <2>1, <3>1, <3>2 DEF AnswerInv, Unpacked, At, Holding
  <2>4. QED
    BY <2>2, <2>3
<1>7. allocated \subseteq Blocks
  BY <1>0 DEF TypeOK
<1>8. QED
  BY <1>0, <1>1, <1>2, <1>3, <1>4, <1>5, <1>6, <1>7, StoreStep

\* afp_free_server() while nobody is inside: no call has a request left.
LEMMA FreeReply ==
  ASSUME IInv, ReplyParts, FreeServer, Clean'
  PROVE  ReplyParts' /\ FreedInv'
<1>1. /\ loop.pc = "select" /\ \A t \in Senders : th[t].pc = "idle"
      /\ UNCHANGED <<heap, loop, th, got, woken>> /\ allocated' \subseteq allocated
      /\ removal'.pc = "freed"
  <2>1. "freed_in_use" \notin races'
    BY DEF Clean
  <2>2. QED
    BY <2>1 DEF FreeServer, At, IInv, TypeOK, RemovalState
<1>2. loop.found = NoBlock
  BY <1>1 DEF ReplyParts, LoopInv
<1>3. "idle" \notin Setup \cup Holding
  BY DEF Setup, Holding
<1>4. SetupInv' /\ OwnedInv'
  BY <1>1, <1>3 DEF ReplyParts, SetupInv, OwnedInv, At
<1>5. ServerInv' /\ LoopInv'
  BY <1>1, <1>2 DEF ServerInv, LoopInv, StillValid
<1>6. \A t \in Senders : AnswerInv(t)'
  BY <1>1, <1>3 DEF ReplyParts, AnswerInv, At, Holding
<1>7. QED
  BY <1>1, <1>4, <1>5, <1>6 DEF ReplyParts, FreedInv, At

\* A step of the removal.
LEMMA RemovalReply ==
  ASSUME IInv, ReplyParts, Removal, Clean'
  PROVE  ReplyParts' /\ FreedInv'
<1>1. CASE RemovalStarts \/ NextPending \/ Unlink
  BY <1>1, QuietRemoval DEF FreedInv
<1>2. CASE WakePending
  BY <1>2, WakeReply DEF FreedInv
<1>3. CASE FreeServer
  BY <1>3, FreeReply
<1>4. QED
  BY <1>1, <1>2, <1>3 DEF Removal

-----------------------------------------------------------------------------
(* Every step *)

\* The connection starts without a call.
LEMMA InitReply == Init => ReplyInv
<1> SUFFICES ASSUME Init PROVE ReplyParts /\ FreedInv
  BY DEF ReplyInv
<1>1. /\ \A t \in Senders : th[t].pc = "idle" /\ th[t].rc = "none"
      /\ removal.pc = "none"
      /\ allocated = {} /\ atserver = {} /\ loop.found = NoBlock
  BY DEF Init, Idle, Selecting
<1>2. SetupInv /\ OwnedInv
  BY <1>1 DEF SetupInv, OwnedInv, Setup, Holding, At
<1>3. ServerInv /\ LoopInv
  BY <1>1 DEF ServerInv, LoopInv
<1>4. \A t \in Senders : AnswerInv(t)
  BY <1>1 DEF AnswerInv, Setup, Holding, At
<1>5. QED
  BY <1>1, <1>2, <1>3, <1>4 DEF ReplyParts, FreedInv

\* The record of the races only grows.
LEMMA RacesKept == IInv /\ [Next]_vars => races \subseteq races'
<1> SUFFICES ASSUME [Next]_vars PROVE races \subseteq races'
  OBVIOUS
<1>1. CASE \E c \in Callers : Call(c)
  BY <1>1 DEF Call, Begin
<1>2. ASSUME NEW t \in Senders, Send(t) PROVE races \subseteq races'
  BY <1>2 DEF Send, CopyId, Allocate, AppendRequest, CheckState, ReconnectFails, ReconnectWorks,
              Write, WriteBroken, WriteFails, BranchOnWait, EnterWait, Timeout, WakeEarly,
              ReadCode, Unqueue
<1>3. CASE Recv
  BY <1>3 DEF Recv, ReceiveReply, ReceiveTickle, ReceiveEOF, StoreCode, ProcessReply,
              ProcessTickle, Begin, TickleSent, FinishUnawaited, FinishAwaited, Signal
<1>4. CASE UNCHANGED vars
  BY <1>4 DEF vars
<1>5. CASE Removal
  BY <1>5 DEF Removal, RemovalStarts, WakePending, NextPending, Unlink, FreeServer
<1>6. QED
  BY <1>1, <1>2, <1>3, <1>4, <1>5 DEF Next

\* Only afp_server_remove() takes the removal on.
LEMMA OthersLeaveRemoval ==
  ASSUME IInv, \/ \E c \in Callers : Call(c)
               \/ \E t \in Senders : Send(t)
               \/ Recv
  PROVE  UNCHANGED removal
<1>1. CASE \E c \in Callers : Call(c)
  BY <1>1 DEF Call, Begin
<1>2. ASSUME NEW t \in Senders, Send(t) PROVE UNCHANGED removal
  BY <1>2 DEF Send, CopyId, Allocate, AppendRequest, CheckState, ReconnectFails, ReconnectWorks,
              Write, WriteBroken, WriteFails, BranchOnWait, EnterWait, Timeout, WakeEarly,
              ReadCode, Unqueue
<1>3. CASE Recv
  BY <1>3 DEF Recv, ReceiveReply, ReceiveTickle, Receive, ReceiveEOF, StoreCode, ProcessReply,
              ProcessTickle, Begin, TickleSent, FinishUnawaited, FinishAwaited, Signal
<1>4. QED
  BY <1>1, <1>2, <1>3

\* Once the server is freed, no step is left that does not use it.
LEMMA NothingAfterFree ==
  ASSUME IInv, FreedInv, removal.pc = "freed", Next
  PROVE  ~Clean'
<1>1. loop.pc = "select" /\ (\A t \in Senders : th[t].pc = "idle") /\ ~StillValid
  BY DEF FreedInv, StillValid, At
<1>2. CASE \E c \in Callers : Call(c)
  BY <1>2 DEF Call, Begin, Clean
<1>3. ASSUME NEW t \in Senders, Send(t) PROVE FALSE
  BY <1>1, <1>3 DEF At, Send, CopyId, Allocate, AppendRequest, CheckState, ReconnectFails, ReconnectWorks,
              Write, WriteBroken, WriteFails, BranchOnWait, EnterWait, Timeout, WakeEarly,
              ReadCode, Unqueue
<1>4. CASE Recv
  BY <1>1, <1>4 DEF Recv, ReceiveReply, ReceiveTickle, Receive, ReceiveEOF, StoreCode, ProcessReply,
                    ProcessTickle, TickleSent, FinishUnawaited, FinishAwaited, Signal
<1>5. CASE Removal
  BY <1>5 DEF Removal, RemovalStarts, WakePending, NextPending, Unlink, FreeServer
<1>6. QED
  BY <1>2, <1>3, <1>4, <1>5 DEF Next

\* The invariant is inductive: a step without a race keeps all its parts.
LEMMA NextReply == IInv /\ ReplyInv /\ [Next]_vars => ReplyInv'
<1> SUFFICES ASSUME IInv, ReplyInv, [Next]_vars, Clean' PROVE ReplyParts' /\ FreedInv'
  BY DEF ReplyInv
<1>0. TypeOK /\ ReplyParts /\ FreedInv
  BY RacesKept DEF IInv, ReplyInv, Clean
<1>1. CASE UNCHANGED vars
  BY <1>0, <1>1 DEF vars, ReplyParts, SetupInv, OwnedInv, ServerInv, LoopInv, AnswerInv, Unpacked,
                    FreedInv, StillValid, BusyIds, Asked, At
<1>2. CASE Next
  <2>0. removal.pc # "freed"
    BY <1>0, <1>2, NothingAfterFree
  <2>1. CASE \E c \in Callers : Call(c)
    <3>1. PICK c \in Callers, k \in 1..MaxCalls, w \in Waits : Begin(c, k, w) /\ UNCHANGED loop
      BY <2>1 DEF Call
    <3>2. k # 0 /\ c \in Senders
      BY DsiConstants DEF Senders
    <3>3. ReplyParts'
      BY <1>0, <3>1, <3>2, BeginReply
    <3>4. QED
      BY <2>0, <2>1, <3>3, OthersLeaveRemoval DEF FreedInv
  <2>2. CASE \E t \in Senders : Send(t)
    BY <1>0, <2>0, <2>2, SendReply, OthersLeaveRemoval DEF FreedInv
  <2>3. CASE Recv
    BY <1>0, <2>0, <2>3, RecvReply, OthersLeaveRemoval DEF FreedInv
  <2>4. CASE Removal
    BY <1>0, <2>4, RemovalReply
  <2>5. QED
    BY <1>2, <2>1, <2>2, <2>3, <2>4 DEF Next
<1>3. QED
  BY <1>1, <1>2

\* It holds in every reachable state.
LEMMA ReplyInvariance == Spec => [](IInv /\ ReplyInv)
<1>1. QED
  BY InitReply, NextReply, Invariance, PTL DEF Spec

-----------------------------------------------------------------------------
(* The theorems *)

\* dsi_send() never returns another command's code as its own, unless one of
\* the races of RaceKinds has happened; and it returns 0 without an answer only
\* to a caller whose wait a spurious wake-up or afp_server_remove() has ended.
THEOREM RepliesAreOwn == Spec => []OwnReply
<1>1. ReplyInv => OwnReply
  BY DEF ReplyInv, Clean, ReplyParts, AnswerInv, OwnReply, Senders
<1>2. QED
  BY <1>1, ReplyInvariance, PTL

\* What a step does to the memory replies are unpacked into.
LEMMA GotStep ==
  ASSUME IInv, [Next]_vars
  PROVE  \/ UNCHANGED got
         \/ \E t \in Senders : \E k, w : Begin(t, k, w)
         \/ ProcessReply
<1>1. CASE \E c \in Callers : Call(c)
  BY <1>1 DEF Call, Senders
<1>2. ASSUME NEW t \in Senders, Send(t) PROVE UNCHANGED got
  BY <1>2 DEF Send, CopyId, Allocate, AppendRequest, CheckState, ReconnectFails, ReconnectWorks,
              Write, WriteBroken, WriteFails, BranchOnWait, EnterWait, Timeout, WakeEarly,
              ReadCode, Unqueue
<1>3. CASE Recv
  <2>1. CASE ProcessTickle
    BY <2>1, Members DEF ProcessTickle
  <2>2. CASE ProcessReply
    BY <2>2
  <2>3. CASE ~ProcessTickle /\ ~ProcessReply
    BY <1>3, <2>3 DEF Recv, ReceiveReply, ReceiveTickle, Receive, ReceiveEOF, StoreCode,
                      TickleSent, FinishUnawaited, FinishAwaited, Signal
  <2>4. QED
    BY <2>1, <2>2, <2>3
<1>4. CASE UNCHANGED vars
  BY <1>4 DEF vars
<1>5. CASE Removal
  BY <1>5 DEF Removal, RemovalStarts, WakePending, NextPending, Unlink, FreeServer
<1>6. QED
  BY <1>1, <1>2, <1>3, <1>4, <1>5 DEF Next

\* The step of dsi_command_reply() writes to the memory of the call the packet
\* answers, and to no other.
LEMMA ProcessReplyWrites ==
  ASSUME IInv, ReplyParts, ProcessReply
  PROVE  \/ UNCHANGED got
         \/ \E t \in Callers : /\ th[t].pc \in Written
                               /\ got' = [got EXCEPT ![t] = th[t].call]
<1>1. CASE loop.found = NoBlock
  BY <1>1 DEF ProcessReply
<1>2. CASE loop.found # NoBlock
  <2>1. PICK t \in Callers : Asked(t, loop.found, loop.pkt.call)
    BY <1>2 DEF ReplyParts, LoopInv
  <2>2. heap[loop.found].other = t /\ th[t].call = loop.pkt.call /\ th[t].pc \in Written
    BY <2>1 DEF Asked, ReplyParts, OwnedInv, Senders, Written, Holding
  <2>3. QED
    BY <1>2, <2>2 DEF ProcessReply
<1>3. QED
  BY <1>1, <1>2

\* dsi_recv() writes a reply through request->other only while the call that
\* owns that memory, the call it answers, is still in progress.
THEOREM WritesAreLive == Spec => WritesOnlyLiveBuffers
<1> DEFINE A == \A c \in Callers :
                  races' = {} /\ got'[c] # got[c] /\ got'[c] # 0
                    => ~At(c, "idle") /\ got'[c] = th[c].call
<1>1. ASSUME IInv, ReplyInv, [Next]_vars PROVE A
  <2> SUFFICES ASSUME NEW c \in Callers, Clean', got'[c] # got[c], got'[c] # 0
               PROVE  ~At(c, "idle") /\ got'[c] = th[c].call
    BY DEF Clean
  <2>1. ReplyParts /\ got \in [Senders -> CallNums] /\ c \in Senders
    BY <1>1, RacesKept DEF IInv, TypeOK, ReplyInv, Clean, Senders
  <2>2. CASE \E t \in Senders : \E k, w : Begin(t, k, w)
    BY <2>1, <2>2 DEF Begin
  <2>3. CASE ProcessReply
    BY <1>1, <2>1, <2>3, ProcessReplyWrites DEF At, Written
  <2>4. QED
    BY <1>1, <2>2, <2>3, GotStep
<1>2. IInv /\ ReplyInv /\ [Next]_vars => [A]_vars
  BY <1>1
<1>3. QED
  BY <1>2, ReplyInvariance, PTL DEF Spec, WritesOnlyLiveBuffers

-----------------------------------------------------------------------------
(* The engine implements its contract *)

\* What the contract sees of the engine
Status == [c \in Callers |-> Outcome(c)]
Result == [c \in Callers |-> IF At(c, "idle") THEN th[c].rc ELSE "none"]
Early  == woken \cap Callers

\* The three outcomes of a call, and when each holds.
LEMMA Outcomes ==
  ASSUME NEW c \in Callers
  PROVE  /\ At(c, "idle") => Outcome(c) = "idle"
         /\ ~At(c, "idle") /\ got[c] = th[c].call => Outcome(c) = "answered"
         /\ ~At(c, "idle") /\ got[c] # th[c].call => Outcome(c) = "pending"
         /\ Outcome(c) \in Service!Statuses
BY DEF Outcome, Service!Statuses

\* The types of what the contract sees.
ViewOK ==
  /\ Status \in [Callers -> Service!Statuses] /\ Result \in [Callers -> Service!Outcomes]
  /\ Early \in SUBSET Callers

\* Every state of the engine is one of the contract.
LEMMA ViewType == TypeOK => ViewOK
<1> SUFFICES ASSUME TypeOK PROVE ViewOK
  OBVIOUS
<1>1. Status \in [Callers -> Service!Statuses]
  BY Outcomes DEF Status
<1>2. ASSUME NEW c \in Callers PROVE th[c].rc \in Service!Outcomes
  BY DEF TypeOK, Frame, Results, Service!Outcomes, Senders
<1>3. QED
  BY <1>1, <1>2 DEF ViewOK, Result, Early, Service!Outcomes

\* The same of the state after a step.
LEMMA ViewTypeNext == TypeOK' => ViewOK'
BY ViewType, PTL

\* A step that moves no caller into or out of a call, and neither writes a
\* reply to one nor wakes one early, is not seen.
LEMMA Unseen ==
  ASSUME \A c \in Callers : /\ th'[c].pc = "idle" <=> th[c].pc = "idle"
                            /\ th'[c].call = th[c].call
                            /\ th[c].pc = "idle" => th'[c].rc = th[c].rc
                            /\ got'[c] = got[c]
                            /\ c \in woken' <=> c \in woken
  PROVE  Status' = Status /\ Result' = Result /\ Early' = Early
<1>1. \A c \in Callers : Outcome(c)' = Outcome(c)
  BY DEF Outcome, At
<1>2. QED
  BY <1>1 DEF Status, Result, Early, At

\* A step that ends waits early, and does no more that is seen, is the
\* contract's Wake.
LEMMA WakeSeen ==
  ASSUME \A c \in Callers : /\ th'[c].pc = "idle" <=> th[c].pc = "idle"
                            /\ th'[c].call = th[c].call
                            /\ th[c].pc = "idle" => th'[c].rc = th[c].rc
                            /\ got'[c] = got[c]
                            /\ c \in woken => c \in woken'
                            /\ c \in woken' /\ c \notin woken => th[c].pc # "idle",
         Clean, Clean'
  PROVE  Service!Serve
<1> DEFINE new == {c \in Callers : c \in woken' /\ c \notin woken}
<1>1. \A c \in Callers : Outcome(c)' = Outcome(c)
  BY DEF Outcome, At
<1>2. Status' = Status /\ Result' = Result
  BY <1>1 DEF Status, Result, At
<1>3. new \in SUBSET {c \in Callers : Status[c] # "idle"}
  <2>1. \A c \in new : Status[c] # "idle"
    BY Outcomes DEF Status, At
  <2>2. QED
    BY <2>1
<1>4. Early' = Early \cup new
  BY DEF Early
<1>5. Service!Wake
  BY <1>2, <1>3, <1>4 DEF Service!Wake, Status, Result, Early
<1>6. QED
  BY <1>5 DEF Service!Serve, Clean

\* A return is the contract's Finish.
LEMMA ReturnSeen ==
  ASSUME NEW t \in Callers, NEW rc \in {"unwaited", "ok", "unanswered", "timeout", "error"},
         th[t].pc # "idle", rc = "ok" => got[t] = th[t].call, rc = "unanswered" => t \in woken,
         th'[t].pc = "idle", th'[t].rc = rc, UNCHANGED <<got, woken>>,
         \A c \in Senders : c # t => th'[c] = th[c],
         Clean, Clean'
  PROVE  Service!Serve
<1>0. Callers \subseteq Senders
  BY DEF Senders
<1>1. Status[t] # "idle" /\ (rc = "ok" => Status[t] = "answered")
  BY Outcomes DEF Status, At
<1>2. Status' = [Status EXCEPT ![t] = "idle"]
  BY <1>0 DEF Status, Outcome, At
<1>3. Result' = [Result EXCEPT ![t] = rc]
  BY <1>0 DEF Result, At
<1>4. Service!Finish(t, rc)
  BY <1>1, <1>2, <1>3 DEF Service!Finish, Status, Result
<1>5. QED
  BY <1>4 DEF Service!Serve, Clean

\* A sender's step is not seen unless it is a caller's return or early waking.
LEMMA SendSeen ==
  ASSUME IInv, ReplyParts, FreedInv, Clean, Clean', NEW t \in Senders, Send(t)
  PROVE  Service!Serve \/ (Status' = Status /\ Result' = Result /\ Early' = Early)
<1>0. TypeOK /\ AnswerInv(t) /\ Callers \subseteq Senders
  BY DEF IInv, ReplyParts, Senders
<1>1. CASE Allocate(t) /\ th'[t].pc = "idle"
  <2>1. Return(t, "error") /\ At(t, "send")
    BY <1>0, <1>1 DEF Allocate, TypeOK, Frame
  <2>2. th'[t].rc = "error" /\ th'[t].call = th[t].call /\ th[t].pc = "send"
        /\ \A u \in Senders : u # t => th'[u] = th[u]
    BY <1>0, <2>1 DEF Return, Idle, TypeOK, At
  <2>3. QED
    BY <1>0, <1>1, <2>2, ReturnSeen, Unseen DEF Allocate
<1>2. CASE WriteBroken(t)
  <2>1. th'[t].pc = "idle" /\ th'[t].rc = "error" /\ th[t].pc = "write"
        /\ \A u \in Senders : u # t => th'[u] = th[u]
    BY <1>0, <1>2 DEF WriteBroken, Return, Idle, TypeOK, At
  <2>2. QED
    BY <1>0, <1>2, <2>1, ReturnSeen, Unseen DEF WriteBroken
<1>3. CASE Unqueue(t)
  <2>0. removal.pc # "freed"
    BY <1>3 DEF FreedInv, Unqueue, At
  <2>1. th'[t].pc = "idle" /\ th'[t].rc = th[t].rc /\ th[t].pc = "remove"
        /\ \A u \in Senders : u # t => th'[u] = th[u]
    BY <1>0, <1>3 DEF Unqueue, Return, Idle, TypeOK, At
  <2>2. /\ th[t].rc \in {"unwaited", "ok", "unanswered", "timeout", "error"}
        /\ th[t].rc = "unanswered" => t \in woken
    BY <1>0, <2>1 DEF AnswerInv, At, TypeOK, Frame, Results
  <2>3. th[t].rc = "ok" => got[t] = th[t].call
    <3>1. th[t].block \in ToSet(queue)
      BY <2>0, <2>1, OwnedIsListed DEF ReplyParts, Holding
    <3>2. "freed_in_use" \notin races'
      BY DEF Clean
    <3>3. loop.found # th[t].block
      BY <1>3, <3>1, <3>2 DEF Unqueue
    <3>4. QED
      BY <1>0, <2>1, <3>3 DEF AnswerInv, Unpacked, At
  <2>4. UNCHANGED <<got, woken>>
    BY <1>3 DEF Unqueue
  <2>5. CASE t \in Callers
    BY <1>0, <2>1, <2>2, <2>3, <2>4, <2>5, ReturnSeen
  <2>6. CASE t \notin Callers
    BY <1>0, <2>1, <2>4, <2>6, Unseen
  <2>7. QED
    BY <2>5, <2>6
<1>4. CASE \/ CopyId(t) \/ (Allocate(t) /\ th'[t].pc # "idle") \/ AppendRequest(t) \/ CheckState(t)
           \/ ReconnectFails(t) \/ ReconnectWorks(t) \/ Write(t) \/ WriteFails(t)
           \/ BranchOnWait(t) \/ EnterWait(t) \/ Timeout(t) \/ ReadCode(t)
  <2>1. /\ th[t].pc # "idle" /\ th'[t].pc # "idle" /\ th'[t].call = th[t].call
        /\ \A u \in Senders : u # t => th'[u] = th[u]
    <3>1. CASE CopyId(t)
      BY <1>0, <3>1 DEF CopyId, At, TypeOK, Frame
    <3>2. CASE Allocate(t) /\ th'[t].pc # "idle"
      BY <1>0, <3>2 DEF Allocate, Return, Idle, At, TypeOK, Frame
    <3>3. CASE AppendRequest(t) \/ CheckState(t) \/ ReconnectFails(t) \/ Write(t) \/ EnterWait(t)
      <4>1. th[t].pc # "idle" /\ \E pc \in {"check", "write", "branch", "code", "waiting"} : Goto(t, pc)
        BY <3>3 DEF AppendRequest, CheckState, ReconnectFails, Write, EnterWait, At
      <4>2. QED
        BY <1>0, <4>1 DEF Goto, TypeOK, Frame
    <3>4. CASE ReconnectWorks(t)
      BY <3>4 DEF ReconnectWorks, Clean
    <3>5. CASE WriteFails(t)
      BY <1>0, <3>5 DEF WriteFails, At, TypeOK, Frame
    <3>6. CASE BranchOnWait(t)
      BY <1>0, <3>6 DEF BranchOnWait, At, TypeOK, Frame
    <3>7. CASE Timeout(t)
      BY <1>0, <3>7 DEF Timeout, At, TypeOK, Frame
    <3>8. CASE ReadCode(t)
      BY <1>0, <3>8 DEF ReadCode, At, TypeOK, Frame
    <3>9. QED
      BY <1>4, <3>1, <3>2, <3>3, <3>4, <3>5, <3>6, <3>7, <3>8
  <2>2. UNCHANGED <<got, woken>>
    BY <1>4 DEF CopyId, Allocate, AppendRequest, CheckState, ReconnectFails, ReconnectWorks,
                Write, WriteFails, BranchOnWait, EnterWait, Timeout, ReadCode
  <2>3. QED
    BY <1>0, <2>1, <2>2, Unseen
<1>5. CASE WakeEarly(t)
  <2>1. /\ th[t].pc # "idle" /\ th'[t].pc # "idle" /\ th'[t].call = th[t].call
        /\ \A u \in Senders : u # t => th'[u] = th[u]
        /\ UNCHANGED got /\ woken' = woken \cup {t}
    BY <1>0, <1>5 DEF WakeEarly, Goto, At, TypeOK, Frame
  <2>2. QED
    BY <1>0, <2>1, WakeSeen
<1>6. QED
  BY <1>1, <1>2, <1>3, <1>4, <1>5 DEF Send

\* The loop thread's step is not seen unless it unpacks the answer of a call.
LEMMA RecvSeen ==
  ASSUME IInv, ReplyParts, Clean, Clean', Recv
  PROVE  Service!Serve \/ (Status' = Status /\ Result' = Result /\ Early' = Early)
<1>0. TypeOK /\ Callers \subseteq Senders /\ Loop \in Senders /\ Loop \notin Callers
  BY DsiConstants DEF IInv, Senders
<1>1. CASE ProcessReply
  <2>1. UNCHANGED th
    BY <1>1 DEF ProcessReply
  <2>2. CASE UNCHANGED got
    BY <1>1, <2>1, <2>2, Unseen DEF ProcessReply
  <2>3. CASE ~UNCHANGED got
    <3>1. PICK t \in Callers : th[t].pc \in Written /\ got' = [got EXCEPT ![t] = th[t].call]
      BY <1>1, <2>3, ProcessReplyWrites
    <3>2. got'[t] = th[t].call /\ (\A c \in Senders : c # t => got'[c] = got[c]) /\ got[t] # th[t].call
      BY <1>0, <2>3, <3>1 DEF TypeOK
    <3>3. Status[t] = "pending"
      BY <3>1, <3>2, Outcomes DEF Status, At, Written
    <3>4. Status' = [Status EXCEPT ![t] = "answered"]
      BY <1>0, <2>1, <3>1, <3>2 DEF Status, Outcome, At, Written
    <3>5. Result' = Result /\ Early' = Early
      BY <1>1, <2>1 DEF ProcessReply, Result, Early, At
    <3>6. Service!Answer(t)
      BY <3>3, <3>4, <3>5 DEF Service!Answer, Status, Result, Early
    <3>7. QED
      BY <3>6 DEF Service!Serve, Clean
  <2>4. QED
    BY <2>2, <2>3
<1>2. CASE ProcessTickle
  BY <1>0, <1>2, Unseen DEF ProcessTickle, Begin, TypeOK
<1>3. CASE Signal
  <2>1. ASSUME NEW c \in Callers
        PROVE  /\ th'[c].pc = "idle" <=> th[c].pc = "idle"
               /\ th'[c].call = th[c].call
               /\ th'[c].rc = th[c].rc
    BY <1>0, <1>3 DEF Signal, TypeOK, Frame
  <2>2. QED
    BY <1>3, <2>1, Unseen DEF Signal
<1>4. CASE UNCHANGED <<th, got, woken>>
  BY <1>4, Unseen
<1>5. QED
  BY <1>1, <1>2, <1>3, <1>4 DEF Recv, ReceiveReply, ReceiveTickle, Receive, ReceiveEOF, StoreCode,
                               TickleSent, FinishUnawaited, FinishAwaited

\* A caller's new call is the contract's Start.
LEMMA CallSeen ==
  ASSUME IInv, ReplyParts, Clean, Clean', NEW c \in Callers, Call(c)
  PROVE  Service!Serve
<1>0. TypeOK /\ Callers \subseteq Senders
  BY DEF IInv, Senders
<1>1. PICK k \in 1..MaxCalls, w \in Waits : Begin(c, k, w)
  BY DEF Call
<1>2. /\ th[c].pc = "idle" /\ th'[c].pc = "header" /\ th'[c].call = k /\ got'[c] = 0
      /\ \A u \in Senders : u # c => th'[u] = th[u] /\ got'[u] = got[u]
  BY <1>0, <1>1 DEF Begin, At, TypeOK
<1>3. k # 0
  BY DsiConstants
<1>4. Status[c] = "idle" /\ Status' = [Status EXCEPT ![c] = "pending"]
  BY <1>0, <1>2, <1>3 DEF Status, Outcome, At
<1>5. Result' = [Result EXCEPT ![c] = "none"] /\ Early' = Early \ {c}
  <2>1. Result' = [Result EXCEPT ![c] = "none"]
    BY <1>0, <1>2 DEF Result, At
  <2>2. woken' = woken \ {c}
    BY <1>1 DEF Begin
  <2>3. QED
    BY <2>1, <2>2 DEF Early
<1>6. Service!Start(c)
  BY <1>4, <1>5 DEF Service!Start, Status, Result, Early
<1>7. QED
  BY <1>6 DEF Service!Serve, Clean

\* A step of the removal is not seen unless it wakes a caller.
LEMMA RemovalSeen ==
  ASSUME IInv, Clean, Clean', Removal
  PROVE  Service!Serve \/ (Status' = Status /\ Result' = Result /\ Early' = Early)
<1>0. TypeOK /\ Callers \subseteq Senders
  BY DEF IInv, Senders
<1>1. CASE WakePending
  <2>1. ASSUME NEW c \in Callers
        PROVE  /\ th'[c].pc = "idle" <=> th[c].pc = "idle"
               /\ th'[c].call = th[c].call
               /\ th'[c].rc = th[c].rc
    BY <1>0, <1>1 DEF WakePending, TypeOK, Frame
  <2>2. UNCHANGED got /\ woken \subseteq woken' /\ \A c \in woken' \ woken : th[c].pc # "idle"
    BY <1>1 DEF WakePending, At
  <2>3. QED
    BY <2>1, <2>2, WakeSeen
<1>2. CASE RemovalStarts \/ NextPending \/ Unlink \/ FreeServer
  BY <1>2, Unseen DEF RemovalStarts, NextPending, Unlink, FreeServer
<1>3. QED
  BY <1>1, <1>2 DEF Removal

\* Every step of the engine is a step of the contract, or not seen.
LEMMA ServiceStep ==
  ASSUME IInv, IInv', ReplyInv, [Next]_vars
  PROVE  [Service!Next]_(Service!vars)
<1>1. CASE ~Clean'
  <2>1. /\ Status' \in [Callers -> Service!Statuses] /\ Result' \in [Callers -> Service!Outcomes]
        /\ Early' \in SUBSET Callers
    BY ViewTypeNext DEF IInv, ViewOK
  <2>2. Service!Degrade
    BY <1>1, <2>1 DEF Service!Degrade, Status, Result, Early, Clean
  <2>3. QED
    BY <2>2 DEF Service!Next
<1>2. CASE Clean'
  <2>1. Clean /\ ReplyParts /\ FreedInv
    BY <1>2, RacesKept DEF Clean, ReplyInv
  <2>2. Service!Serve \/ (Status' = Status /\ Result' = Result /\ Early' = Early)
    <3>1. CASE UNCHANGED vars
      BY <3>1, Unseen DEF vars
    <3>2. QED
      BY <1>2, <2>1, <3>1, CallSeen, SendSeen, RecvSeen, RemovalSeen DEF Next
  <2>3. CASE Service!Serve
    BY <2>1, <2>3 DEF Service!Next, Clean
  <2>4. CASE Status' = Status /\ Result' = Result /\ Early' = Early
    BY <1>2, <2>1, <2>4 DEF Service!vars, Status, Result, Early, Clean
  <2>5. QED
    BY <2>2, <2>3, <2>4
<1>3. QED
  BY <1>1, <1>2

\* The engine keeps the contract: a call returns the code of its own answer, and
\* only after the answer has been unpacked, or it reports a timeout or an error,
\* or its wait was ended early and it returns the 0 it found.
THEOREM KeepsItsContract == Spec => ImplementsService
<1>1. Init => Service!Init
  <2> SUFFICES ASSUME Init PROVE Service!Init
    OBVIOUS
  <2>1. \A c \in Callers : th[c] = Idle(0, "none")
    BY DEF Init, Senders
  <2>2. Status = [c \in Callers |-> "idle"]
    BY <2>1 DEF Status, Outcome, At, Idle
  <2>3. Result = [c \in Callers |-> "none"]
    BY <2>1 DEF Result, At, Idle
  <2>4. Early = {}
    BY DEF Early, Init
  <2>5. QED
    BY <2>2, <2>3, <2>4 DEF Service!Init, Status, Result, Early, Init
<1>2. IInv /\ IInv' /\ ReplyInv /\ [Next]_vars => [Service!Next]_(Service!vars)
  BY ServiceStep
<1>3. QED
  BY <1>1, <1>2, ReplyInvariance, PTL DEF Spec, ImplementsService, Service!Spec
=============================================================================
