----------------------------- MODULE DsiFraming -----------------------------
(***************************************************************************)
(* How dsi_recv() (lib/dsi.c) cuts the byte stream of a connection into    *)
(* DSI packets.  TCP hands out the stream in pieces of any size; main loop *)
(* calls dsi_recv() when there is something to read, and each call reads   *)
(* once, keeping what it has so far in server->incoming_buffer or, for the *)
(* answer to an afpRead, in the buffer of the request.                     *)
(*                                                                         *)
(* A byte is known by the packet it belongs to and its place in it, so     *)
(* that one can tell what the program takes for what.  All lengths are in  *)
(* units of bytes the instance chooses: a header has Header of them.       *)
(***************************************************************************)
EXTENDS Integers, Sequences, SequencesExt, FiniteSetsExt

CONSTANTS
  Header,     \* sizeof(struct dsi_header)
  BufSize,    \* server->bufsize, the size of incoming_buffer
  Lengths,    \* the lengths of the packets' bodies
  MaxPackets  \* bound: packets in a behaviour

ASSUME FramingConstants ==
  /\ Header \in Nat \ {0}
  /\ BufSize \in Nat /\ BufSize > Header
  /\ Lengths \subseteq Nat
  /\ MaxPackets \in Nat

VARIABLES
  sent,       \* the packets of the server: their length, is it an afpRead's answer
  wire,       \* bytes sent and not read
  buf,        \* incoming_buffer, its first data_read bytes
  rx,         \* the afp_rx_buffer of the afpRead being answered
  abandoned,  \* packets whose request is no longer on the queue
  delivered,  \* history: packets processed, and the bodies they were taken to have
  races       \* history: which of RaceKinds have occurred

vars == <<sent, wire, buf, rx, abandoned, delivered, races>>

\* More than the rest of the packet was read; and did not fit; a request was
\* given up when part of its data had arrived.
RaceKinds == {"overread", "overrun", "abandoned_read"}

PacketNums == 1..MaxPackets
Byte == PacketNums \X Nat

TypeOK ==
  /\ sent \in Seq([len : Lengths, read : BOOLEAN]) /\ Len(sent) <= MaxPackets
  /\ wire \in Seq(Byte) /\ buf \in Seq(Byte) /\ rx \in Seq(Byte)
  /\ abandoned \subseteq PacketNums
  /\ delivered \in Seq([packet : PacketNums, body : Seq(Byte)])
  /\ races \subseteq RaceKinds
  /\ "overrun" \notin races => Len(buf) <= BufSize

Init ==
  /\ sent = <<>> /\ wire = <<>> /\ buf = <<>> /\ rx = <<>>
  /\ abandoned = {} /\ delivered = <<>> /\ races = {}

-----------------------------------------------------------------------------
Bytes(n, first, last) == [i \in 1..(last - first + 1) |-> <<n, first + i - 1>>]

\* The header and the body of packet n
Size(n)   == Header + sent[n].len
Packet(n) == Bytes(n, 1, Size(n))
Body(n)   == Bytes(n, Header + 1, Size(n))

\* The packet whose header is at the start of the buffer: length, request id
\* and command are those of this packet only if its header is whole.
InHand(n) == n \in 1..Len(sent) /\ IsPrefix(Bytes(n, 1, Header), buf)

\* dsi_find_request() finds an afpRead waiting for packet n.
ReadPending(n) == sent[n].read /\ n \notin abandoned

\* read() of at most max bytes returns k of them.
Reads(k, max) == k \in 1..Min({max, Len(wire)})
Taken(k)      == SubSeq(wire, 1, k)
Rest(k)       == SubSeq(wire, k + 1, Len(wire))

\* Packet n is processed with what is taken for its body.
Deliver(n, body) == delivered' = Append(delivered, [packet |-> n, body |-> body])

-----------------------------------------------------------------------------
\* The server sends an answer, or a packet of its own.
ServerSends(len, read) ==
  /\ Len(sent) < MaxPackets
  /\ sent' = Append(sent, [len |-> len, read |-> read])
  /\ wire' = wire \o Bytes(Len(sent) + 1, 1, Header + len)
  /\ UNCHANGED <<buf, rx, abandoned, delivered, races>>

\* dsi_send() gives up on the afpRead that packet n answers: the reads to come
\* find no request, and the memory that was read into is no longer its buffer.
Abandon(n) ==
  /\ n \in (Len(delivered) + 1)..Len(sent)
  /\ ReadPending(n)
  /\ abandoned' = abandoned \cup {n}
  /\ races' = races \cup {x \in {"abandoned_read"} : \E i \in 1..Len(rx) : rx[i][1] = n}
  /\ rx' = IF \E i \in 1..Len(rx) : rx[i][1] = n THEN <<>> ELSE rx
  /\ UNCHANGED <<sent, wire, buf, delivered>>

\* mutant of ReadHeader: a packet without a body has to wait for the next one
ReadHeaderOnly(k) ==
  /\ Len(buf) < Header
  /\ Reads(k, Header - Len(buf))
  /\ wire' = Rest(k) /\ buf' = buf \o Taken(k)
  /\ UNCHANGED <<sent, rx, abandoned, delivered, races>>

\* The header is read to its end before anything else.  A packet that has no
\* body is processed at once.
ReadHeader(k) ==
  /\ Len(buf) < Header
  /\ Reads(k, Header - Len(buf))
  /\ wire' = Rest(k)
  /\ LET b == buf \o Taken(k)
         whole == {n \in 1..Len(sent) : sent[n].len = 0 /\ b = Packet(n)}
     IN \/ \E n \in whole : Deliver(n, <<>>) /\ buf' = <<>>
        \/ whole = {} /\ buf' = b /\ UNCHANGED delivered
  /\ UNCHANGED <<sent, rx, abandoned, races>>

\* mutant of ReadData: as much as the request has room for, whatever the
\* length of the packet
ReadDataGreedily(k) ==
  \E n \in PacketNums :
    /\ InHand(n) /\ ReadPending(n)
    /\ Reads(k, BufSize)
    /\ wire' = Rest(k)
    /\ LET data == rx \o Taken(k)
       IN \/ Len(data) >= sent[n].len /\ Deliver(n, data) /\ rx' = <<>> /\ buf' = <<>>
          \/ Len(data) < sent[n].len /\ rx' = data /\ UNCHANGED <<buf, delivered>>
    /\ UNCHANGED <<sent, abandoned, races>>

\* The body of an afpRead's answer goes straight into the request's buffer,
\* by as many reads as it takes.
ReadData(k) ==
  \E n \in PacketNums :
    /\ InHand(n) /\ ReadPending(n)
    /\ Reads(k, sent[n].len - Len(rx))
    /\ wire' = Rest(k)
    /\ LET data == rx \o Taken(k)
       IN \/ Len(data) = sent[n].len /\ Deliver(n, data) /\ rx' = <<>> /\ buf' = <<>>
          \/ Len(data) < sent[n].len /\ rx' = data /\ UNCHANGED <<buf, delivered>>
    /\ UNCHANGED <<sent, abandoned, races>>

\* Any other body is read into incoming_buffer; each read asks for the length
\* of the whole body, also when part of it is there.  What is left over is
\* copied from 16 bytes too far to the front, and data_read is set to the
\* length of the processed packet.
ReadBody(k) ==
  \E n \in PacketNums :
    /\ InHand(n) /\ ~ReadPending(n)
    /\ Reads(k, Min({sent[n].len, BufSize}))
    /\ wire' = Rest(k)
    /\ LET b == buf \o Taken(k)
           total == Header + sent[n].len
           excess == Len(b) - total
           shifted == SubSeq(b, sent[n].len + 1, sent[n].len + excess)
       IN /\ \/ excess < 0 /\ buf' = b /\ UNCHANGED delivered
             \/ /\ excess >= 0
                /\ Deliver(n, SubSeq(b, Header + 1, total))
                /\ buf' = IF excess = 0 THEN <<>>
                          ELSE SubSeq(shifted \o SubSeq(b, excess + 1, Len(b)), 1, total)
          /\ races' = races \cup {x \in {"overread"} : excess > 0}
                            \cup {x \in {"overrun"} : Len(b) > BufSize}
    /\ UNCHANGED <<sent, rx, abandoned>>

Recv == \E k \in 1..Len(wire) : ReadHeader(k) \/ ReadData(k) \/ ReadBody(k)

Next ==
  \/ \E len \in Lengths, read \in BOOLEAN : ServerSends(len, read)
  \/ \E n \in PacketNums : Abandon(n)
  \/ Recv

Spec == Init /\ [][Next]_vars

\* Main loop calls dsi_recv() as long as there is something to read.
LiveSpec == Spec /\ WF_vars(Recv)

-----------------------------------------------------------------------------
(* Properties *)

\* dsi.c: "At this point, we have a full DSI packet".  Whatever is processed
\* is one packet of the server, in the order sent.
FullPackets == \A i \in 1..Len(delivered) : delivered[i] = [packet |-> i, body |-> Body(i)]

\* What is kept in the two buffers and what is yet to be read
Ahead == buf \o rx \o wire

\* With byte j of s, which is of packet n of q, come the bytes of n that follow
\* it, and then the first of the next packet, if there is one.
Follows(s, q, j) ==
  LET n == s[j][1]
      end == j + Header + q[n].len - s[j][2]
  IN /\ n \in 1..Len(q) /\ end \in j..Len(s)
     /\ \A m \in j..end : s[m] = <<n, s[j][2] + m - j>>
     /\ IF end = Len(s) THEN n = Len(q) ELSE s[end + 1] = <<n + 1, 1>>

\* s is the packets of q from the given one on, whole and in the order sent.
FromPacket(s, first, q) ==
  /\ s = <<>> <=> first > Len(q)
  /\ s # <<>> => s[1] = <<first, 1>>
  /\ \A j \in 1..Len(s) : Follows(s, q, j)

Unprocessed(s) == FromPacket(s, Len(delivered) + 1, sent)

\* As long as no call of dsi_recv() reads past the packet in hand and no read
\* is given up half-way, no byte is lost or out of its place: each packet has been
\* processed once, in the order sent, with its own body, and what is kept in the
\* two buffers and what is yet to be read is the rest of the stream.
InStep == races = {} => FullPackets /\ Unprocessed(Ahead)

\* Every packet sent is processed without waiting for the next one.
AllDelivered ==
  [](races = {}) =>
    \A n \in PacketNums : Len(sent) >= n ~> Len(delivered) >= n
=============================================================================
