------------------------- MODULE Connection_proofs -------------------------
(***************************************************************************)
(* Theorems about what a connection carries: the framing of the DSI stream *)
(* (DsiFraming), for every header and buffer size, all lengths of packets  *)
(* and every way the stream is cut; and the session that is opened over it *)
(* (Login), for every server, all names and every order of answers.        *)
(***************************************************************************)
EXTENDS DsiFraming, Login, SequenceTheorems, FiniteSetTheorems,
        WellFoundedInduction, NaturalsInduction, TLAPS

-----------------------------------------------------------------------------
(* Framing: the inductive invariant *)

\* The packet that is being read
Current == Len(delivered) + 1

\* What dsi_recv() has of the packet it is reading: the request's buffer is used
\* only for a pending afpRead, whose header alone is in incoming_buffer; a
\* packet that is complete is not kept.
InParts ==
  /\ rx # <<>> => Len(buf) = Header /\ ReadPending(Current)
  /\ Len(buf) >= Header => Len(buf) + Len(rx) < Size(Current)
  /\ Len(buf) > Header => ~ReadPending(Current)

FramingInv ==
  races = {} => /\ Len(delivered) <= Len(sent)
                /\ FullPackets /\ Unprocessed(Ahead) /\ InParts

-----------------------------------------------------------------------------
(* Pieces of the stream *)

Packets == Seq([len : Lengths, read : BOOLEAN])

\* A run of bytes of one packet
LEMMA BytesAre ==
  ASSUME NEW n \in PacketNums, NEW first \in Nat, NEW last \in Nat, first <= last + 1
  PROVE  /\ Bytes(n, first, last) \in Seq(Byte)
         /\ Len(Bytes(n, first, last)) = last - first + 1
         /\ \A i \in 1..(last - first + 1) : Bytes(n, first, last)[i] = <<n, first + i - 1>>
<1> DEFINE len == last - first + 1
<1>1. len \in Nat
  OBVIOUS
<1>2. Bytes(n, first, last) \in [1..len -> Byte]
  BY <1>1 DEF Bytes, Byte
<1>3. Bytes(n, first, last) \in Seq(Byte)
  BY <1>1, <1>2, SeqDef
<1>4. DOMAIN Bytes(n, first, last) = 1..len
  BY DEF Bytes
<1>5. Len(Bytes(n, first, last)) = len
  BY <1>1, <1>3, <1>4, LenProperties
<1> QED
  BY <1>3, <1>5 DEF Bytes

\* The whole packets at the front: the first one is there, and then the next.
LEMMA FirstPacket ==
  ASSUME NEW q \in Packets, NEW first \in Nat \ {0},
         NEW s \in Seq(Byte), FromPacket(s, first, q), s # <<>>
  PROVE  LET size == Header + q[first].len
         IN /\ first \in 1..Len(q) /\ q[first].len \in Nat
            /\ size \in 1..Len(s)
            /\ \A m \in 1..size : s[m] = <<first, m>>
            /\ IF size = Len(s) THEN first = Len(q) ELSE s[size + 1] = <<first + 1, 1>>
<1> DEFINE size == Header + q[first].len
<1>1. Len(s) \in Nat \ {0} /\ s[1] = <<first, 1>> /\ Len(q) \in Nat
  BY EmptySeq DEF FromPacket, Packets
<1>2. s[1][1] = first /\ s[1][2] = 1
  BY <1>1
<1>3. 1 \in 1..Len(s)
  BY <1>1
<1>4. first \in 1..Len(q)
  BY <1>2, <1>3 DEF FromPacket, Follows
<1>5. q[first] \in [len : Lengths, read : BOOLEAN]
  BY <1>4, ElementOfSeq DEF Packets
<1>6. q[first].len \in Nat /\ Header \in Nat \ {0}
  BY <1>5, FramingConstants
<1>7. LET n == s[1][1]
          end == 1 + Header + q[n].len - s[1][2]
      IN /\ end \in 1..Len(s)
         /\ \A m \in 1..end : s[m] = <<n, s[1][2] + m - 1>>
         /\ IF end = Len(s) THEN n = Len(q) ELSE s[end + 1] = <<n + 1, 1>>
  BY <1>3 DEF FromPacket, Follows
<1>8. 1 + Header + q[first].len - 1 = size
  BY <1>6
<1>9. \A m \in 1..size : 1 + m - 1 = m
  BY <1>6
<1>10. /\ size \in 1..Len(s)
       /\ \A m \in 1..size : s[m] = <<first, 1 + m - 1>>
       /\ IF size = Len(s) THEN first = Len(q) ELSE s[size + 1] = <<first + 1, 1>>
  BY <1>2, <1>7, <1>8
<1> QED
  BY <1>4, <1>6, <1>9, <1>10

\* Without its first packet the stream starts with the next.
LEMMA WithoutFirst ==
  ASSUME NEW q \in Packets, NEW first \in Nat \ {0},
         NEW s \in Seq(Byte), FromPacket(s, first, q), s # <<>>
  PROVE  LET size == Header + q[first].len
         IN FromPacket(SubSeq(s, size + 1, Len(s)), first + 1, q)
<1> DEFINE size == Header + q[first].len
           r == SubSeq(s, size + 1, Len(s))
<1>1. /\ first \in 1..Len(q) /\ size \in 1..Len(s)
      /\ IF size = Len(s) THEN first = Len(q) ELSE s[size + 1] = <<first + 1, 1>>
  BY FirstPacket
<1>2. Len(s) \in Nat /\ Len(q) \in Nat /\ size \in Nat
  BY <1>1 DEF Packets
<1> HIDE DEF size
<1>3. /\ r \in Seq(Byte)
      /\ Len(r) = Len(s) - size
      /\ \A i \in 1..(Len(s) - size) : r[i] = s[size + i]
  <2>1. \A i \in (size + 1)..Len(s) : s[i] \in Byte
    BY <1>2, ElementOfSeq
  <2>2. /\ r \in Seq(Byte)
        /\ Len(r) = IF size + 1 <= Len(s) THEN Len(s) - (size + 1) + 1 ELSE 0
        /\ \A i \in 1..(Len(s) - (size + 1) + 1) : r[i] = s[size + 1 + i - 1]
    BY <1>2, <2>1, SubSeqProperties
  <2> QED
    BY <1>1, <1>2, <2>2
<1> HIDE DEF r
<1>4. r = <<>> <=> first + 1 > Len(q)
  <2>1. CASE size = Len(s)
    BY <1>1, <1>2, <1>3, <2>1, EmptySeq
  <2>2. CASE size # Len(s)
    <3>1. Len(r) # 0 /\ size + 1 \in 1..Len(s)
      BY <1>1, <1>2, <1>3, <2>2
    <3>2. s[size + 1] = <<first + 1, 1>>
      BY <1>1, <2>2
    <3>3. s[size + 1][1] = first + 1
      BY <3>2
    <3>4. s[size + 1][1] \in 1..Len(q)
      BY <3>1 DEF FromPacket, Follows
    <3> QED
      BY <1>2, <3>1, <3>3, <3>4
  <2> QED
    BY <2>1, <2>2
<1>5. r # <<>> => r[1] = <<first + 1, 1>>
  <2> SUFFICES ASSUME r # <<>> PROVE r[1] = <<first + 1, 1>>
    OBVIOUS
  <2>1. size < Len(s) /\ 1 \in 1..(Len(s) - size)
    BY <1>1, <1>2, <1>3, EmptySeq
  <2>2. r[1] = s[size + 1]
    BY <1>3, <2>1
  <2> QED
    BY <1>1, <2>1, <2>2
<1>6. ASSUME NEW j \in 1..Len(r) PROVE Follows(r, q, j)
  <2> DEFINE n == s[size + j][1]
             end == j + Header + q[n].len - s[size + j][2]
             last == size + j + Header + q[n].len - s[size + j][2]
  <2>1. /\ size + j \in 1..Len(s) /\ r[j] = s[size + j]
        /\ j \in Nat /\ size \in Nat /\ Len(s) \in Nat
    BY <1>1, <1>2, <1>3
  <2>2. /\ n \in 1..Len(q) /\ last \in (size + j)..Len(s)
        /\ \A m \in (size + j)..last : s[m] = <<n, s[size + j][2] + m - (size + j)>>
        /\ IF last = Len(s) THEN n = Len(q) ELSE s[last + 1] = <<n + 1, 1>>
    BY <2>1 DEF FromPacket, Follows
  <2>3. s[size + j][2] \in Nat /\ q[n].len \in Nat /\ Header \in Nat
    <3>1. s[size + j] \in Byte /\ q[n] \in [len : Lengths, read : BOOLEAN]
      BY <2>1, <2>2, ElementOfSeq DEF Packets
    <3> QED
      BY <3>1, FramingConstants DEF Byte
  <2>4. last = size + end /\ end \in Int
    <3> DEFINE l == q[n].len
               place == s[size + j][2]
    <3>1. l \in Nat /\ place \in Nat /\ Header \in Nat
      BY <2>3
    <3> HIDE DEF l, place
    <3>2. /\ size + j + Header + l - place = size + (j + Header + l - place)
          /\ j + Header + l - place \in Int
      BY <2>1, <3>1
    <3> QED
      BY <3>2 DEF l, place
  <2> HIDE DEF n, last, end
  <2>5. end \in j..Len(r)
    BY <1>2, <1>3, <2>2, <2>4
  <2>6. ASSUME NEW m \in j..end PROVE r[m] = <<n, r[j][2] + m - j>>
    <3>1. size + m \in (size + j)..last /\ m \in 1..(Len(s) - size)
      BY <1>2, <1>3, <2>4, <2>5
    <3>2. s[size + m] = <<n, s[size + j][2] + (size + m) - (size + j)>>
      BY <2>2, <3>1
    <3>3. s[size + j][2] + (size + m) - (size + j) = s[size + j][2] + m - j
      BY <1>2, <2>3, <2>5, <1>3
    <3> QED
      BY <1>3, <2>1, <3>1, <3>2, <3>3
  <2>7. IF end = Len(r) THEN n = Len(q) ELSE r[end + 1] = <<n + 1, 1>>
    <3>1. CASE end = Len(r)
      BY <1>2, <1>3, <2>2, <2>4, <3>1
    <3>2. CASE end # Len(r)
      <4>0. Len(r) = Len(s) - size /\ 1 <= j
        BY <1>3
      <4>1. last # Len(s) /\ end + 1 \in 1..(Len(s) - size) /\ size + (end + 1) = last + 1
        BY <2>1, <2>4, <2>5, <3>2, <4>0
      <4> QED
        BY <1>3, <2>2, <4>1, <3>2
    <3> QED
      BY <3>1, <3>2
  <2> QED
    BY <2>1, <2>2, <2>5, <2>6, <2>7 DEF Follows, n, end
<1>7. FromPacket(r, first + 1, q)
  BY <1>4, <1>5, <1>6 DEF FromPacket, Follows
<1> QED
  BY <1>7 DEF r, size

\* With one more packet at its end the stream is that of one more packet.
LEMMA OneMore ==
  ASSUME NEW q \in Packets, NEW p \in [len : Lengths, read : BOOLEAN],
         NEW first \in Nat \ {0}, first <= Len(q) + 1, Len(q) + 1 \in PacketNums,
         NEW s \in Seq(Byte), FromPacket(s, first, q)
  PROVE  FromPacket(s \o Bytes(Len(q) + 1, 1, Header + p.len), first, Append(q, p))
<1> DEFINE last == Len(q) + 1
           size == Header + p.len
           more == Bytes(last, 1, size)
           all == s \o more
           qq == Append(q, p)
<1>1. Len(q) \in Nat /\ Len(s) \in Nat /\ size \in Nat \ {0}
  <2>1. p.len \in Nat /\ Header \in Nat \ {0}
    BY FramingConstants
  <2> QED
    BY <2>1 DEF Packets
<1>2. /\ qq \in Packets /\ Len(qq) = last /\ qq[last] = p
      /\ \A i \in 1..Len(q) : qq[i] = q[i]
  BY AppendProperties DEF Packets
<1>3. /\ more \in Seq(Byte) /\ Len(more) = size
      /\ \A i \in 1..size : more[i] = <<last, i>>
  <2>1. 1 \in Nat /\ size \in Nat /\ 1 <= size + 1 /\ size - 1 + 1 = size
    BY <1>1
  <2>2. \A i \in 1..size : 1 + i - 1 = i
    BY <1>1
  <2> HIDE DEF size
  <2>3. /\ more \in Seq(Byte)
        /\ Len(more) = size - 1 + 1
        /\ \A i \in 1..(size - 1 + 1) : more[i] = <<last, 1 + i - 1>>
    BY <2>1, BytesAre
  <2> QED
    BY <2>1, <2>2, <2>3
<1> HIDE DEF more, qq
<1>4. /\ all \in Seq(Byte) /\ Len(all) = Len(s) + size
      /\ \A i \in 1..Len(s) : all[i] = s[i]
      /\ \A i \in 1..size : all[Len(s) + i] = <<last, i>>
  <2>1. /\ all \in Seq(Byte) /\ Len(all) = Len(s) + Len(more)
        /\ \A i \in 1..(Len(s) + Len(more)) :
             all[i] = IF i <= Len(s) THEN s[i] ELSE more[i - Len(s)]
    BY <1>3, ConcatProperties
  <2> HIDE DEF all, size
  <2>2. ASSUME NEW i \in 1..size PROVE all[Len(s) + i] = <<last, i>>
    <3>1. Len(s) + i \in 1..(Len(s) + Len(more)) /\ ~(Len(s) + i <= Len(s)) /\ Len(s) + i - Len(s) = i
      BY <1>1, <1>3
    <3> QED
      BY <2>1, <3>1, <1>3
  <2>3. ASSUME NEW i \in 1..Len(s) PROVE all[i] = s[i]
    BY <1>1, <1>3, <2>1
  <2> QED
    BY <1>3, <2>1, <2>2, <2>3
<1> HIDE DEF all
<1>5. all # <<>> /\ ~(first > Len(qq))
  BY <1>1, <1>2, <1>4, EmptySeq
<1>6. all[1] = <<first, 1>>
  <2>1. CASE s = <<>>
    <3>1. first = last /\ Len(s) + 1 = 1 /\ 1 \in 1..size
      BY <1>1, <2>1, EmptySeq DEF FromPacket
    <3> QED
      BY <1>4, <3>1
  <2>2. CASE s # <<>>
    <3>1. 1 \in 1..Len(s)
      BY <1>1, <2>2, EmptySeq
    <3> QED
      BY <1>4, <2>2, <3>1 DEF FromPacket
  <2> QED
    BY <2>1, <2>2
<1>7. ASSUME NEW j \in 1..Len(s) PROVE Follows(all, qq, j)
  <2> DEFINE n == s[j][1]
             end == j + Header + q[n].len - s[j][2]
  <2>1. /\ n \in 1..Len(q) /\ end \in j..Len(s)
        /\ \A m \in j..end : s[m] = <<n, s[j][2] + m - j>>
        /\ IF end = Len(s) THEN n = Len(q) ELSE s[end + 1] = <<n + 1, 1>>
    BY DEF FromPacket, Follows
  <2>2. all[j] = s[j] /\ qq[n] = q[n] /\ n \in 1..Len(qq)
    BY <1>1, <1>2, <1>4, <2>1
  <2> HIDE DEF n, end
  <2>3. \A m \in j..end : m \in 1..Len(s)
    BY <1>1, <2>1
  <2>4. end \in j..Len(all) /\ \A m \in j..end : all[m] = <<n, s[j][2] + m - j>>
    <3>1. end \in j..Len(all)
      BY <1>1, <1>4, <2>1
    <3>2. \A m \in j..end : all[m] = s[m]
      BY <1>4, <2>3
    <3> QED
      BY <2>1, <3>1, <3>2
  <2>5. IF end = Len(all) THEN n = Len(qq) ELSE all[end + 1] = <<n + 1, 1>>
    <3>1. end # Len(all)
      BY <1>1, <1>4, <2>1
    <3>2. CASE end = Len(s)
      <4>1. 1 \in 1..size /\ n + 1 = last
        BY <1>1, <2>1, <3>2
      <4> QED
        BY <1>4, <3>1, <3>2, <4>1
    <3>3. CASE end # Len(s)
      <4>1. end + 1 \in 1..Len(s)
        BY <1>1, <2>1, <3>3
      <4> QED
        BY <1>4, <2>1, <3>1, <3>3, <4>1
    <3> QED
      BY <3>2, <3>3
  <2> QED
    BY <2>2, <2>4, <2>5 DEF Follows, n, end
<1>8. ASSUME NEW i \in 1..size PROVE Follows(all, qq, Len(s) + i)
  <2> DEFINE end == (Len(s) + i) + Header + qq[last].len - i
  <2>1. all[Len(s) + i] = <<last, i>> /\ last \in 1..Len(qq)
    <3>1. all[Len(s) + i] = <<last, i>>
      BY <1>4
    <3>2. last \in 1..last
      BY <1>1
    <3> QED
      BY <1>2, <3>1, <3>2
  <2>2. end = Len(all)
    <3>1. p.len \in Nat /\ Header \in Nat
      BY FramingConstants
    <3> QED
      BY <1>1, <1>2, <1>4, <3>1
  <2> HIDE DEF end, size
  <2>3. end \in (Len(s) + i)..Len(all)
    BY <1>1, <1>4, <2>2
  <2>4. ASSUME NEW m \in (Len(s) + i)..end PROVE all[m] = <<last, i + m - (Len(s) + i)>>
    <3>1. /\ m - Len(s) \in 1..size /\ Len(s) + (m - Len(s)) = m
          /\ i + m - (Len(s) + i) = m - Len(s)
      BY <1>1, <1>4, <2>2
    <3> QED
      BY <1>4, <3>1
  <2> HIDE DEF last
  <2>5. all[Len(s) + i][1] = last /\ all[Len(s) + i][2] = i
    BY <2>1
  <2> QED
    BY <1>2, <2>1, <2>2, <2>3, <2>4, <2>5 DEF Follows, end
<1>9. ASSUME NEW j \in 1..Len(all) PROVE Follows(all, qq, j)
  <2>1. CASE j <= Len(s)
    BY <1>1, <1>7, <2>1
  <2>2. CASE j > Len(s)
    <3>1. j - Len(s) \in 1..size /\ Len(s) + (j - Len(s)) = j
      BY <1>1, <1>4, <2>2
    <3> QED
      BY <1>8, <3>1
  <2> QED
    BY <1>1, <2>1, <2>2
<1>10. FromPacket(all, first, qq)
  BY <1>5, <1>6, <1>9 DEF FromPacket
<1> QED
  BY <1>10 DEF all, more, qq

LEMMA LeastOfTwo ==
  ASSUME NEW a \in Int, NEW b \in Int
  PROVE  Min({a, b}) \in Int /\ Min({a, b}) <= a /\ Min({a, b}) <= b
<1>1. \E x \in {a, b} : \A y \in {a, b} : x =< y
  <2>1. CASE a <= b
    BY <2>1
  <2>2. CASE b <= a
    BY <2>2
  <2> QED
    BY <2>1, <2>2
<1> QED
  BY <1>1 DEF Min

\* What is behind the first part of a sequence
LEMMA Behind ==
  ASSUME NEW a \in Seq(Byte), NEW r \in Seq(Byte)
  PROVE  SubSeq(a \o r, Len(a) + 1, Len(a \o r)) = r
<1> DEFINE s == a \o r
<1>1. /\ s \in Seq(Byte) /\ Len(s) = Len(a) + Len(r)
      /\ Len(a) \in Nat /\ Len(r) \in Nat
      /\ \A i \in 1..(Len(a) + Len(r)) : s[i] = IF i <= Len(a) THEN a[i] ELSE r[i - Len(a)]
  BY ConcatProperties
<1> HIDE DEF s
<1>2. \A i \in (Len(a) + 1)..Len(s) : s[i] \in Byte
  BY <1>1, ElementOfSeq
<1>3. /\ SubSeq(s, Len(a) + 1, Len(s)) \in Seq(Byte)
      /\ Len(SubSeq(s, Len(a) + 1, Len(s))) = Len(r)
      /\ \A i \in 1..(Len(s) - (Len(a) + 1) + 1) :
           SubSeq(s, Len(a) + 1, Len(s))[i] = s[Len(a) + 1 + i - 1]
  BY <1>1, <1>2, SubSeqProperties
<1>4. ASSUME NEW i \in 1..Len(r) PROVE SubSeq(s, Len(a) + 1, Len(s))[i] = r[i]
  <2>1. /\ i \in 1..(Len(s) - (Len(a) + 1) + 1) /\ Len(a) + 1 + i - 1 = Len(a) + i
        /\ Len(a) + i \in 1..(Len(a) + Len(r)) /\ ~(Len(a) + i <= Len(a))
        /\ Len(a) + i - Len(a) = i
    BY <1>1
  <2>2. s[Len(a) + i] = r[i]
    BY <1>1, <2>1
  <2> QED
    BY <1>3, <2>1, <2>2
<1>5. SubSeq(s, Len(a) + 1, Len(s)) = r
  BY <1>3, <1>4, SeqEqual
<1> QED
  BY <1>5 DEF s

\* A read() takes some bytes off the front of the stream.
LEMMA Reading ==
  ASSUME TypeOK, NEW k, NEW max \in Int, Reads(k, max)
  PROVE  /\ k \in 1..Len(wire) /\ k <= max
         /\ Taken(k) \in Seq(Byte) /\ Len(Taken(k)) = k
         /\ Rest(k) \in Seq(Byte)
         /\ Taken(k) \o Rest(k) = wire
<1>1. wire \in Seq(Byte) /\ Len(wire) \in Nat
  BY DEF TypeOK
<1>2. k \in 1..Len(wire) /\ k <= max /\ k \in Nat
  <2> DEFINE least == Min({max, Len(wire)})
  <2>1. least \in Int /\ least <= max /\ least <= Len(wire)
    <3>1. Len(wire) \in Int
      BY <1>1
    <3> QED
      BY <3>1, LeastOfTwo, Zenon
  <2>2. k \in 1..least
    BY DEF Reads
  <2> HIDE DEF least
  <2> QED
    BY <1>1, <2>1, <2>2
<1>3. Taken(k) \in Seq(Byte) /\ Len(Taken(k)) = k
  <2>1. \A i \in 1..k : wire[i] \in Byte
    BY <1>1, <1>2, ElementOfSeq
  <2> QED
    BY <1>2, <2>1, SubSeqProperties DEF Taken
<1>4. Rest(k) \in Seq(Byte)
  <2>1. \A i \in (k + 1)..Len(wire) : wire[i] \in Byte
    BY <1>1, <1>2, ElementOfSeq
  <2> QED
    BY <1>1, <1>2, <2>1, SubSeqProperties DEF Rest
<1>5. Taken(k) \o Rest(k) = SubSeq(wire, 1, Len(wire))
  BY <1>1, <1>2, ConcatAdjacentSubSeq DEF Taken, Rest
<1> QED
  BY <1>1, <1>2, <1>3, <1>4, <1>5, SubSeqFull

\* What the packets and their parts look like
LEMMA PacketParts ==
  ASSUME TypeOK, NEW n \in 1..Len(sent)
  PROVE  /\ n \in PacketNums /\ sent \in Packets /\ Len(sent) \in Nat
         /\ sent[n].len \in Nat /\ Header \in Nat \ {0} /\ Size(n) \in Nat
         /\ Size(n) = Header + sent[n].len
         /\ Packet(n) \in Seq(Byte) /\ Len(Packet(n)) = Size(n)
         /\ \A i \in 1..Size(n) : Packet(n)[i] = <<n, i>>
         /\ Body(n) \in Seq(Byte) /\ Len(Body(n)) = sent[n].len
         /\ \A i \in 1..sent[n].len : Body(n)[i] = <<n, Header + i>>
         /\ Bytes(n, 1, Header) \in Seq(Byte) /\ Len(Bytes(n, 1, Header)) = Header
         /\ \A i \in 1..Header : Bytes(n, 1, Header)[i] = <<n, i>>
<1>1. sent \in Packets /\ Len(sent) \in Nat /\ n \in PacketNums
  BY FramingConstants DEF TypeOK, Packets, PacketNums
<1>2. sent[n] \in [len : Lengths, read : BOOLEAN]
  BY <1>1, ElementOfSeq DEF Packets
<1>3. sent[n].len \in Nat /\ Header \in Nat \ {0}
  BY <1>2, FramingConstants
<1> DEFINE len == sent[n].len
           size == Header + len
<1>4. size \in Nat /\ 1 <= size + 1 /\ Header + 1 \in Nat /\ Header + 1 <= size + 1
  BY <1>3
<1>5. /\ size - 1 + 1 = size /\ size - (Header + 1) + 1 = len /\ Header - 1 + 1 = Header
      /\ \A i \in 1..size : 1 + i - 1 = i
      /\ \A i \in 1..len : Header + 1 + i - 1 = Header + i
      /\ \A i \in 1..Header : 1 + i - 1 = i
  BY <1>3
<1> HIDE DEF size
<1>6. /\ Bytes(n, 1, size) \in Seq(Byte) /\ Len(Bytes(n, 1, size)) = size - 1 + 1
      /\ \A i \in 1..(size - 1 + 1) : Bytes(n, 1, size)[i] = <<n, 1 + i - 1>>
  BY <1>1, <1>4, BytesAre
<1>7. /\ Bytes(n, Header + 1, size) \in Seq(Byte)
      /\ Len(Bytes(n, Header + 1, size)) = size - (Header + 1) + 1
      /\ \A i \in 1..(size - (Header + 1) + 1) :
           Bytes(n, Header + 1, size)[i] = <<n, Header + 1 + i - 1>>
  BY <1>1, <1>4, BytesAre
<1>8. /\ Bytes(n, 1, Header) \in Seq(Byte) /\ Len(Bytes(n, 1, Header)) = Header - 1 + 1
      /\ \A i \in 1..(Header - 1 + 1) : Bytes(n, 1, Header)[i] = <<n, 1 + i - 1>>
  <2>1. 1 \in Nat /\ Header \in Nat /\ 1 <= Header + 1
    BY <1>3
  <2> QED
    BY <1>1, <2>1, BytesAre
<1>9. Size(n) = size /\ Packet(n) = Bytes(n, 1, size) /\ Body(n) = Bytes(n, Header + 1, size)
  BY DEF Size, Packet, Body, size
<1> HIDE DEF len
<1>10. /\ Packet(n) \in Seq(Byte) /\ Len(Packet(n)) = Size(n)
       /\ \A i \in 1..Size(n) : Packet(n)[i] = <<n, i>>
  BY <1>5, <1>6, <1>9
<1>11. /\ Body(n) \in Seq(Byte) /\ Len(Body(n)) = len
       /\ \A i \in 1..len : Body(n)[i] = <<n, Header + i>>
  BY <1>5, <1>7, <1>9
<1>12. /\ Bytes(n, 1, Header) \in Seq(Byte) /\ Len(Bytes(n, 1, Header)) = Header
       /\ \A i \in 1..Header : Bytes(n, 1, Header)[i] = <<n, i>>
  BY <1>5, <1>8
<1> QED
  BY <1>1, <1>3, <1>4, <1>9, <1>10, <1>11, <1>12 DEF len, size

-----------------------------------------------------------------------------
(* Types *)

LEMMA InitTypes == Init => TypeOK
<1> SUFFICES ASSUME Init PROVE TypeOK
  OBVIOUS
<1>1. /\ sent \in Seq([len : Lengths, read : BOOLEAN]) /\ Len(sent) = 0
      /\ wire \in Seq(Byte) /\ buf \in Seq(Byte) /\ rx \in Seq(Byte) /\ Len(buf) = 0
      /\ delivered \in Seq([packet : PacketNums, body : Seq(Byte)])
  BY EmptySeq DEF Init
<1> QED
  BY <1>1, FramingConstants DEF Init, TypeOK

\* What processing a packet adds to the history
LEMMA DeliverType ==
  ASSUME TypeOK, NEW n \in PacketNums, NEW body \in Seq(Byte), Deliver(n, body)
  PROVE  delivered' \in Seq([packet : PacketNums, body : Seq(Byte)])
  BY AppendProperties DEF Deliver, TypeOK

LEMMA SendsTypes ==
  ASSUME TypeOK, NEW len \in Lengths, NEW read \in BOOLEAN, ServerSends(len, read)
  PROVE  TypeOK'
<1>1. Len(sent) \in Nat /\ MaxPackets \in Nat /\ len \in Nat /\ Header \in Nat \ {0}
  BY FramingConstants DEF TypeOK
<1>2. Len(sent) + 1 \in PacketNums
  BY <1>1 DEF ServerSends, PacketNums
<1>3. sent' \in Seq([len : Lengths, read : BOOLEAN]) /\ Len(sent') <= MaxPackets
  BY <1>1, AppendProperties DEF ServerSends, TypeOK
<1>4. Bytes(Len(sent) + 1, 1, Header + len) \in Seq(Byte)
  <2>1. Header + len \in Nat /\ 1 \in Nat /\ 1 <= Header + len + 1
    BY <1>1
  <2> QED
    BY <1>2, <2>1, BytesAre
<1>5. wire' \in Seq(Byte)
  BY <1>4, ConcatProperties DEF ServerSends, TypeOK
<1> QED
  BY <1>3, <1>5 DEF ServerSends, TypeOK

LEMMA AbandonTypes ==
  ASSUME TypeOK, NEW n \in PacketNums, Abandon(n)
  PROVE  TypeOK'
<1>1. rx' \in Seq(Byte)
  BY EmptySeq DEF Abandon, TypeOK
<1>2. races' \subseteq RaceKinds /\ ("overrun" \in races <=> "overrun" \in races')
  BY DEF Abandon, TypeOK, RaceKinds
<1> QED
  BY <1>1, <1>2 DEF Abandon, TypeOK

LEMMA HeaderTypes ==
  ASSUME TypeOK, NEW k \in 1..Len(wire), ReadHeader(k)
  PROVE  TypeOK'
<1> DEFINE b == buf \o Taken(k)
           whole == {n \in 1..Len(sent) : sent[n].len = 0 /\ b = Packet(n)}
<1>1. Len(buf) \in Nat /\ Header \in Nat \ {0} /\ BufSize \in Nat /\ BufSize > Header
  BY FramingConstants DEF TypeOK
<1>2. Header - Len(buf) \in Int
  BY <1>1
<1>3. k <= Header - Len(buf) /\ Taken(k) \in Seq(Byte) /\ Len(Taken(k)) = k /\ Rest(k) \in Seq(Byte)
  BY <1>2, Reading DEF ReadHeader
<1>4. b \in Seq(Byte) /\ Len(b) = Len(buf) + k
  BY <1>3, ConcatProperties DEF TypeOK
<1>5. wire' \in Seq(Byte)
  BY <1>3 DEF ReadHeader
<1>6. buf' \in {<<>>, b}
  BY DEF ReadHeader
<1>7. buf' \in Seq(Byte) /\ Len(buf') <= BufSize
  <2>1. <<>> \in Seq(Byte) /\ Len(<<>>) = 0
    BY EmptySeq
  <2>2. Len(b) <= BufSize
    BY <1>1, <1>3, <1>4
  <2>3. CASE buf' = <<>>
    BY <1>1, <2>1, <2>3
  <2>4. CASE buf' = b
    BY <1>4, <2>2, <2>4
  <2> QED
    BY <1>6, <2>3, <2>4
<1>8. delivered' \in Seq([packet : PacketNums, body : Seq(Byte)])
  <2>1. CASE UNCHANGED delivered
    BY <2>1 DEF TypeOK
  <2>2. CASE ~ UNCHANGED delivered
    <3>1. PICK n \in 1..Len(sent) : Deliver(n, <<>>)
      BY <2>2 DEF ReadHeader
    <3>2. n \in PacketNums /\ <<>> \in Seq(Byte)
      BY PacketParts, EmptySeq
    <3> QED
      BY <3>1, <3>2, DeliverType
  <2> QED
    BY <2>1, <2>2
<1>9. UNCHANGED <<sent, rx, abandoned, races>>
  BY DEF ReadHeader
<1> QED
  BY <1>5, <1>7, <1>8, <1>9 DEF TypeOK

LEMMA DataTypes ==
  ASSUME TypeOK, NEW k \in 1..Len(wire), ReadData(k)
  PROVE  TypeOK'
<1>1. PICK n \in PacketNums :
        /\ InHand(n) /\ ReadPending(n)
        /\ Reads(k, sent[n].len - Len(rx))
        /\ wire' = Rest(k)
        /\ LET data == rx \o Taken(k)
           IN \/ Len(data) = sent[n].len /\ Deliver(n, data) /\ rx' = <<>> /\ buf' = <<>>
              \/ Len(data) < sent[n].len /\ rx' = data /\ UNCHANGED <<buf, delivered>>
        /\ UNCHANGED <<sent, abandoned, races>>
  BY DEF ReadData
<1> DEFINE data == rx \o Taken(k)
<1>2. n \in 1..Len(sent)
  BY <1>1 DEF InHand
<1>3. sent[n].len - Len(rx) \in Int
  BY <1>2, PacketParts DEF TypeOK
<1>4. Taken(k) \in Seq(Byte) /\ Rest(k) \in Seq(Byte)
  BY <1>1, <1>3, Reading
<1>5. data \in Seq(Byte)
  BY <1>4, ConcatProperties DEF TypeOK
<1>6. <<>> \in Seq(Byte) /\ Len(<<>>) = 0 /\ BufSize \in Nat
  BY EmptySeq, FramingConstants
<1>7. CASE Deliver(n, data) /\ rx' = <<>> /\ buf' = <<>>
  <2>1. delivered' \in Seq([packet : PacketNums, body : Seq(Byte)])
    BY <1>5, <1>7, DeliverType
  <2> QED
    BY <1>1, <1>4, <1>6, <1>7, <2>1 DEF TypeOK
<1>8. CASE rx' = data /\ UNCHANGED <<buf, delivered>>
  BY <1>1, <1>4, <1>5, <1>8 DEF TypeOK
<1> QED
  BY <1>1, <1>7, <1>8

\* What is left in incoming_buffer by a read past the packet
LEMMA ShiftedType ==
  ASSUME NEW b \in Seq(Byte), NEW len \in Nat, Len(b) > Header + len
  PROVE  LET total == Header + len
             excess == Len(b) - total
             left == SubSeq(SubSeq(b, len + 1, len + excess) \o SubSeq(b, excess + 1, Len(b)),
                            1, total)
         IN left \in Seq(Byte) /\ Len(left) = total
<1> DEFINE total == Header + len
           excess == Len(b) - total
           shifted == SubSeq(b, len + 1, len + excess)
           rest == SubSeq(b, excess + 1, Len(b))
           both == shifted \o rest
<1>1. Len(b) \in Nat /\ Header \in Nat \ {0} /\ total \in Nat \ {0} /\ excess \in Nat \ {0}
  BY FramingConstants
<1>2. len + excess <= Len(b) /\ excess + total = Len(b) /\ total <= Len(b)
  BY <1>1
<1> HIDE DEF total, excess
<1>3. shifted \in Seq(Byte) /\ Len(shifted) = excess
  <2>1. \A i \in (len + 1)..(len + excess) : b[i] \in Byte
    BY <1>1, <1>2, ElementOfSeq
  <2>2. /\ shifted \in Seq(Byte)
        /\ Len(shifted) = IF len + 1 <= len + excess THEN len + excess - (len + 1) + 1 ELSE 0
    BY <1>1, <2>1, SubSeqProperties
  <2> QED
    BY <1>1, <2>2
<1>4. rest \in Seq(Byte) /\ Len(rest) = total
  <2>1. \A i \in (excess + 1)..Len(b) : b[i] \in Byte
    BY <1>1, ElementOfSeq
  <2>2. /\ rest \in Seq(Byte)
        /\ Len(rest) = IF excess + 1 <= Len(b) THEN Len(b) - (excess + 1) + 1 ELSE 0
    BY <1>1, <2>1, SubSeqProperties
  <2> QED
    BY <1>1, <1>2, <2>2
<1> HIDE DEF shifted, rest
<1>5. both \in Seq(Byte) /\ Len(both) = excess + total
  BY <1>3, <1>4, ConcatProperties
<1> HIDE DEF both
<1>6. \A i \in 1..total : both[i] \in Byte
  BY <1>1, <1>5, ElementOfSeq
<1>7. /\ SubSeq(both, 1, total) \in Seq(Byte)
      /\ Len(SubSeq(both, 1, total)) = IF 1 <= total THEN total - 1 + 1 ELSE 0
  BY <1>1, <1>6, SubSeqProperties
<1>8. SubSeq(both, 1, total) \in Seq(Byte) /\ Len(SubSeq(both, 1, total)) = total
  BY <1>1, <1>7
<1> QED
  BY <1>8 DEF both, rest, shifted, excess, total

LEMMA BodyTypes ==
  ASSUME TypeOK, NEW k \in 1..Len(wire), ReadBody(k)
  PROVE  TypeOK'
<1> DEFINE b == buf \o Taken(k)
           total(n) == Header + sent[n].len
           excess(n) == Len(b) - total(n)
           shifted(n) == SubSeq(b, sent[n].len + 1, sent[n].len + excess(n))
           left(n) == SubSeq(shifted(n) \o SubSeq(b, excess(n) + 1, Len(b)), 1, total(n))
<1>1. PICK n \in PacketNums :
        /\ InHand(n) /\ ~ReadPending(n)
        /\ Reads(k, Min({sent[n].len, BufSize}))
        /\ wire' = Rest(k)
        /\ \/ excess(n) < 0 /\ buf' = b /\ UNCHANGED delivered
           \/ /\ excess(n) >= 0
              /\ Deliver(n, SubSeq(b, Header + 1, total(n)))
              /\ buf' = IF excess(n) = 0 THEN <<>> ELSE left(n)
        /\ races' = races \cup {x \in {"overread"} : excess(n) > 0}
                          \cup {x \in {"overrun"} : Len(b) > BufSize}
        /\ UNCHANGED <<sent, rx, abandoned>>
  BY Zenon DEF ReadBody
<1>2. n \in 1..Len(sent)
  BY <1>1 DEF InHand
<1>3. sent[n].len \in Nat /\ Header \in Nat \ {0} /\ BufSize \in Nat
  BY <1>2, PacketParts, FramingConstants
<1>4. Taken(k) \in Seq(Byte) /\ Rest(k) \in Seq(Byte)
  <2>1. sent[n].len \in Int /\ BufSize \in Int
    BY <1>3
  <2>2. Min({sent[n].len, BufSize}) \in Int
    BY <2>1, LeastOfTwo, Zenon
  <2> QED
    BY <1>1, <2>2, Reading
<1>5. b \in Seq(Byte) /\ Len(b) \in Nat /\ Len(buf) \in Nat
  BY <1>4, ConcatProperties DEF TypeOK
<1> HIDE DEF b
<1>6. CASE excess(n) < 0 /\ buf' = b /\ UNCHANGED delivered
  <2>1. "overrun" \notin races' => Len(b) <= BufSize
    BY <1>1, <1>3, <1>5
  <2>2. races' \subseteq RaceKinds
    BY <1>1 DEF TypeOK, RaceKinds
  <2>3. UNCHANGED <<sent, rx, abandoned>> /\ wire' = Rest(k)
    BY <1>1
  <2> QED
    BY <1>4, <1>5, <1>6, <2>1, <2>2, <2>3 DEF TypeOK
<1>7. CASE /\ excess(n) >= 0
           /\ Deliver(n, SubSeq(b, Header + 1, total(n)))
           /\ buf' = IF excess(n) = 0 THEN <<>> ELSE left(n)
  <2>1. SubSeq(b, Header + 1, total(n)) \in Seq(Byte)
    <3>1. \A i \in (Header + 1)..total(n) : b[i] \in Byte
      <4>1. \A i \in (Header + 1)..total(n) : i \in 1..Len(b)
        BY <1>3, <1>5, <1>7
      <4> QED
        BY <1>5, <4>1, ElementOfSeq
    <3> QED
      BY <1>3, <3>1, SubSeqProperties
  <2>2. delivered' \in Seq([packet : PacketNums, body : Seq(Byte)])
    BY <1>7, <2>1, DeliverType
  <2>3. buf' \in Seq(Byte) /\ ("overrun" \notin races' => Len(buf') <= BufSize)
    <3>1. CASE excess(n) = 0
      BY <1>3, <1>7, <3>1, EmptySeq
    <3>2. CASE excess(n) # 0
      <4>1. Len(b) > Header + sent[n].len
        BY <1>3, <1>5, <1>7, <3>2
      <4>2. left(n) \in Seq(Byte) /\ Len(left(n)) = Header + sent[n].len
        BY <1>3, <1>5, <4>1, ShiftedType
      <4>3. "overrun" \notin races' => Len(b) <= BufSize
        BY <1>1, <1>3, <1>5
      <4>4. buf' = left(n)
        BY <1>7, <3>2
      <4> HIDE DEF left
      <4> QED
        BY <1>3, <1>5, <4>1, <4>2, <4>3, <4>4
    <3> QED
      BY <3>1, <3>2
  <2>4. races' \subseteq RaceKinds
    BY <1>1 DEF TypeOK, RaceKinds
  <2>5. UNCHANGED <<sent, rx, abandoned>> /\ wire' = Rest(k)
    BY <1>1
  <2> QED
    BY <1>4, <2>2, <2>3, <2>4, <2>5 DEF TypeOK
<1> HIDE DEF excess, total, left
<1> QED
  BY <1>1, <1>6, <1>7

LEMMA NextTypes == TypeOK /\ [Next]_vars => TypeOK'
<1> SUFFICES ASSUME TypeOK, [Next]_vars PROVE TypeOK'
  OBVIOUS
<1>1. ASSUME NEW len \in Lengths, NEW read \in BOOLEAN, ServerSends(len, read) PROVE TypeOK'
  BY <1>1, SendsTypes
<1>2. ASSUME NEW n \in PacketNums, Abandon(n) PROVE TypeOK'
  BY <1>2, AbandonTypes
<1>3. ASSUME NEW k \in 1..Len(wire), ReadHeader(k) PROVE TypeOK'
  BY <1>3, HeaderTypes
<1>4. ASSUME NEW k \in 1..Len(wire), ReadData(k) PROVE TypeOK'
  BY <1>4, DataTypes
<1>5. ASSUME NEW k \in 1..Len(wire), ReadBody(k) PROVE TypeOK'
  BY <1>5, BodyTypes
<1>6. CASE UNCHANGED vars
  BY <1>6 DEF TypeOK, vars
<1> QED
  BY <1>1, <1>2, <1>3, <1>4, <1>5, <1>6 DEF Next, Recv

\* dsi_recv() keeps within incoming_buffer unless it records that it wrote past
\* its end, whatever the server sends and however it arrives.
THEOREM FramingTypes == Spec => []TypeOK
  BY InitTypes, NextTypes, PTL DEF Spec

-----------------------------------------------------------------------------
(* What a call of dsi_recv() finds *)

\* Where the bytes that are ahead are kept
LEMMA AheadParts ==
  ASSUME TypeOK
  PROVE  /\ Len(buf) \in Nat /\ Len(rx) \in Nat /\ Len(wire) \in Nat
         /\ Ahead \in Seq(Byte) /\ Len(Ahead) = Len(buf) + Len(rx) + Len(wire)
         /\ \A i \in 1..Len(buf) : Ahead[i] = buf[i]
         /\ \A i \in 1..Len(rx) : Ahead[Len(buf) + i] = rx[i]
<1>1. /\ buf \o rx \in Seq(Byte) /\ Len(buf \o rx) = Len(buf) + Len(rx)
      /\ Len(buf) \in Nat /\ Len(rx) \in Nat /\ Len(wire) \in Nat
      /\ \A i \in 1..(Len(buf) + Len(rx)) :
           (buf \o rx)[i] = IF i <= Len(buf) THEN buf[i] ELSE rx[i - Len(buf)]
  BY ConcatProperties DEF TypeOK
<1>2. /\ Ahead \in Seq(Byte) /\ Len(Ahead) = Len(buf \o rx) + Len(wire)
      /\ \A i \in 1..(Len(buf \o rx) + Len(wire)) :
           Ahead[i] = IF i <= Len(buf \o rx) THEN (buf \o rx)[i] ELSE wire[i - Len(buf \o rx)]
  BY <1>1, ConcatProperties DEF TypeOK, Ahead
<1>3. ASSUME NEW i \in 1..Len(buf) PROVE Ahead[i] = buf[i]
  <2>1. i \in 1..(Len(buf \o rx) + Len(wire)) /\ i <= Len(buf \o rx) /\ i \in 1..(Len(buf) + Len(rx))
    BY <1>1
  <2> QED
    BY <1>1, <1>2, <2>1
<1>4. ASSUME NEW i \in 1..Len(rx) PROVE Ahead[Len(buf) + i] = rx[i]
  <2>1. /\ Len(buf) + i \in 1..(Len(buf \o rx) + Len(wire)) /\ Len(buf) + i <= Len(buf \o rx)
        /\ Len(buf) + i \in 1..(Len(buf) + Len(rx)) /\ ~(Len(buf) + i <= Len(buf))
        /\ Len(buf) + i - Len(buf) = i
    BY <1>1
  <2> QED
    BY <1>1, <1>2, <2>1
<1> QED
  BY <1>1, <1>2, <1>3, <1>4

\* The bytes ahead begin with the packet that is being read.
LEMMA CurrentPacket ==
  ASSUME TypeOK, FramingInv, races = {}, Ahead # <<>>
  PROVE  /\ Current \in 1..Len(sent)
         /\ Size(Current) \in 1..Len(Ahead)
         /\ \A m \in 1..Size(Current) : Ahead[m] = <<Current, m>>
<1>1. /\ sent \in Packets /\ Current \in Nat \ {0} /\ Ahead \in Seq(Byte)
      /\ FromPacket(Ahead, Current, sent)
  BY AheadParts DEF TypeOK, Packets, Current, FramingInv, Unprocessed
<1> QED
  BY <1>1, FirstPacket DEF Size

\* The header in the buffer is the header of that packet.
LEMMA HeaderInHand ==
  ASSUME TypeOK, FramingInv, races = {}, NEW n, InHand(n)
  PROVE  n = Current /\ n \in 1..Len(sent) /\ Len(buf) >= Header /\ Ahead # <<>>
<1>1. n \in 1..Len(sent)
  BY DEF InHand
<1> DEFINE h == Bytes(n, 1, Header)
<1>2. /\ h \in Seq(Byte) /\ Len(h) = Header /\ Header \in Nat \ {0}
      /\ \A i \in 1..Header : h[i] = <<n, i>>
  BY <1>1, PacketParts
<1> HIDE DEF h
<1>3. Header <= Len(buf) /\ SubSeq(h, 1, Header) = SubSeq(buf, 1, Header)
  BY <1>2 DEF InHand, IsPrefix, h
<1>4. 1 \in 1..Header /\ 1 \in 1..Len(buf) /\ 1 \in 1..(Header - 1 + 1)
  BY <1>2, <1>3, AheadParts
<1>5. buf[1] = h[1]
  <2>1. \A i \in 1..Header : h[i] \in Byte /\ buf[i] \in Byte
    <3>1. \A i \in 1..Header : i \in 1..Len(h) /\ i \in 1..Len(buf)
      BY <1>2, <1>3, AheadParts
    <3> QED
      BY <1>2, <3>1, ElementOfSeq DEF TypeOK
  <2>2. SubSeq(h, 1, Header)[1] = h[1 + 1 - 1]
    BY <1>2, <1>4, <2>1, SubSeqProperties
  <2>3. SubSeq(buf, 1, Header)[1] = buf[1 + 1 - 1]
    BY <1>2, <1>4, <2>1, SubSeqProperties
  <2>4. SubSeq(h, 1, Header)[1] = SubSeq(buf, 1, Header)[1]
    BY <1>3
  <2>5. 1 + 1 - 1 = 1
    OBVIOUS
  <2> QED
    BY <2>2, <2>3, <2>4, <2>5
<1>6. Ahead[1] = <<n, 1>>
  BY <1>2, <1>4, <1>5, AheadParts
<1>7. Ahead # <<>>
  BY <1>4, AheadParts, EmptySeq
<1>8. Ahead[1] = <<Current, 1>>
  BY <1>7 DEF FramingInv, Unprocessed, FromPacket, Current
<1> QED
  BY <1>1, <1>3, <1>6, <1>7, <1>8

\* Processing the packet in hand, with its own body, takes it off what is ahead.
LEMMA Consumed ==
  ASSUME TypeOK, FramingInv, races = {}, Ahead # <<>>, sent' = sent,
         NEW front \in Seq(Byte), NEW rest \in Seq(Byte),
         Ahead = front \o rest, Len(front) = Size(Current), Ahead' = rest,
         Deliver(Current, Body(Current))
  PROVE  Len(delivered') <= Len(sent') /\ FullPackets' /\ Unprocessed(Ahead)'
<1>1. /\ sent \in Packets /\ Current \in Nat \ {0} /\ Ahead \in Seq(Byte)
      /\ FromPacket(Ahead, Current, sent) /\ Current \in 1..Len(sent) /\ Current \in PacketNums
  <2>1. /\ sent \in Packets /\ Current \in Nat \ {0} /\ Ahead \in Seq(Byte)
        /\ FromPacket(Ahead, Current, sent) /\ Current \in 1..Len(sent)
    BY AheadParts, CurrentPacket DEF TypeOK, Packets, Current, FramingInv, Unprocessed
  <2> QED
    BY <2>1, PacketParts
<1> DEFINE p == [packet |-> Current, body |-> Body(Current)]
<1>2. /\ delivered' = Append(delivered, p) /\ Len(delivered') = Current
      /\ Len(delivered) \in Nat
      /\ \A i \in 1..Len(delivered) : delivered'[i] = delivered[i]
      /\ delivered'[Current] = p
  <2>1. Body(Current) \in Seq(Byte)
    BY <1>1, PacketParts
  <2>2. p \in [packet : PacketNums, body : Seq(Byte)]
    BY <1>1, <2>1
  <2>3. delivered \in Seq([packet : PacketNums, body : Seq(Byte)])
    BY DEF TypeOK
  <2>4. delivered' = Append(delivered, p) /\ Len(delivered) \in Nat
    BY <2>3 DEF Deliver
  <2> HIDE DEF p
  <2> QED
    BY <2>2, <2>3, <2>4, AppendProperties DEF Current
<1>3. Len(delivered') <= Len(sent')
  BY <1>1, <1>2
<1>4. \A i : Body(i)' = Body(i)
  BY DEF Body, Size
<1>5. FullPackets'
  <2> SUFFICES ASSUME NEW i \in 1..Len(delivered')
               PROVE  delivered'[i] = [packet |-> i, body |-> Body(i)']
    BY DEF FullPackets
  <2>1. CASE i = Current
    BY <1>2, <1>4, <2>1
  <2>2. CASE i # Current
    <3>1. i \in 1..Len(delivered)
      BY <1>2, <2>2 DEF Current
    <3>2. delivered[i] = [packet |-> i, body |-> Body(i)]
      BY <3>1 DEF FramingInv, FullPackets
    <3> QED
      BY <1>2, <1>4, <3>1, <3>2
  <2> QED
    BY <2>1, <2>2
<1>6. FromPacket(rest, Current + 1, sent)
  <2>1. SubSeq(Ahead, Len(front) + 1, Len(Ahead)) = rest
    BY Behind
  <2>2. FromPacket(SubSeq(Ahead, Size(Current) + 1, Len(Ahead)), Current + 1, sent)
    BY <1>1, WithoutFirst DEF Size
  <2> QED
    BY <2>1, <2>2
<1>7. Unprocessed(Ahead)'
  BY <1>2, <1>6 DEF Unprocessed
<1> QED
  BY <1>3, <1>5, <1>7

\* A read that does not complete the packet leaves everything where it was.
LEMMA NotYet ==
  ASSUME FramingInv, races = {}, Ahead' = Ahead, UNCHANGED <<sent, delivered>>
  PROVE  Len(delivered') <= Len(sent') /\ FullPackets' /\ Unprocessed(Ahead)'
<1>1. \A i : Body(i)' = Body(i)
  BY DEF Body, Size
<1>2. FullPackets'
  BY <1>1 DEF FullPackets, FramingInv
<1>3. Unprocessed(Ahead)'
  BY DEF Unprocessed, FramingInv
<1> QED
  BY <1>2, <1>3 DEF FramingInv

LEMMA Regroup ==
  ASSUME NEW a \in Seq(Byte), NEW b \in Seq(Byte), NEW c \in Seq(Byte)
  PROVE  (a \o b) \o c = a \o (b \o c)
  BY ConcatAssociative

\* The bytes at the end of a concatenation
LEMMA AtEnd ==
  ASSUME NEW a \in Seq(Byte), NEW r \in Seq(Byte), NEW i \in 1..Len(r)
  PROVE  (a \o r)[Len(a) + i] = r[i]
<1>1. /\ Len(a) \in Nat /\ Len(r) \in Nat
      /\ \A j \in 1..(Len(a) + Len(r)) : (a \o r)[j] = IF j <= Len(a) THEN a[j] ELSE r[j - Len(a)]
  BY ConcatProperties
<1>2. /\ Len(a) + i \in 1..(Len(a) + Len(r)) /\ ~(Len(a) + i <= Len(a))
      /\ Len(a) + i - Len(a) = i
  BY <1>1
<1> QED
  BY <1>1, <1>2

\* A read() into a buffer that holds x
LEMMA ReadInto ==
  ASSUME TypeOK, NEW k \in 1..Len(wire), NEW max \in Int, Reads(k, max), NEW x \in Seq(Byte)
  PROVE  /\ k \in Nat \ {0} /\ k <= max /\ Rest(k) \in Seq(Byte)
         /\ x \o Taken(k) \in Seq(Byte) /\ Len(x) \in Nat /\ Len(x \o Taken(k)) = Len(x) + k
         /\ x \o wire = (x \o Taken(k)) \o Rest(k)
<1>1. /\ k <= max /\ Taken(k) \in Seq(Byte) /\ Len(Taken(k)) = k
      /\ Rest(k) \in Seq(Byte) /\ Taken(k) \o Rest(k) = wire
  BY Reading
<1>2. Len(wire) \in Nat /\ Len(x) \in Nat
  BY DEF TypeOK
<1>3. x \o (Taken(k) \o Rest(k)) = (x \o Taken(k)) \o Rest(k)
  <2>1. ASSUME NEW t \in Seq(Byte), NEW r \in Seq(Byte) PROVE (x \o t) \o r = x \o (t \o r)
    BY ConcatAssociative
  <2>2. Taken(k) \in Seq(Byte) /\ Rest(k) \in Seq(Byte)
    BY <1>1
  <2>3. (x \o Taken(k)) \o Rest(k) = x \o (Taken(k) \o Rest(k))
    BY <2>1, <2>2
  <2> QED
    BY <2>3, Zenon
<1>4. x \o Taken(k) \in Seq(Byte) /\ Len(x \o Taken(k)) = Len(x) + Len(Taken(k))
  BY <1>1, ConcatProperties
<1>5. k \in Nat \ {0}
  BY <1>2
<1>6. x \o wire = x \o (Taken(k) \o Rest(k))
  BY <1>1
<1> QED
  BY <1>1, <1>2, <1>3, <1>4, <1>5, <1>6

\* The bytes at the front of a concatenation
LEMMA InFront ==
  ASSUME NEW a \in Seq(Byte), NEW r \in Seq(Byte)
  PROVE  /\ a \o r \in Seq(Byte) /\ \A i \in 1..Len(a) : (a \o r)[i] = a[i]
         /\ a # <<>> => a \o r # <<>>
<1>1. /\ a \o r \in Seq(Byte) /\ Len(a \o r) = Len(a) + Len(r)
      /\ Len(a) \in Nat /\ Len(r) \in Nat
      /\ \A i \in 1..(Len(a) + Len(r)) : (a \o r)[i] = IF i <= Len(a) THEN a[i] ELSE r[i - Len(a)]
  BY ConcatProperties
<1>2. \A i \in 1..Len(a) : i \in 1..(Len(a) + Len(r)) /\ i <= Len(a)
  BY <1>1
<1> QED
  BY <1>1, <1>2, ConcatEqualIffEmpty, EmptySeq

LEMMA HeaderKeeps ==
  ASSUME TypeOK, FramingInv, NEW k \in 1..Len(wire), ReadHeader(k)
  PROVE  FramingInv'
<1> SUFFICES ASSUME races = {}
             PROVE  Len(delivered') <= Len(sent') /\ FullPackets' /\ Unprocessed(Ahead)' /\ InParts'
  BY DEF FramingInv, ReadHeader
<1> DEFINE b == buf \o Taken(k)
           whole == {n \in 1..Len(sent) : sent[n].len = 0 /\ b = Packet(n)}
<1>1. /\ Len(buf) < Header /\ Reads(k, Header - Len(buf)) /\ wire' = Rest(k)
      /\ UNCHANGED <<sent, rx, abandoned, races>>
  BY DEF ReadHeader
<1>2. Len(buf) \in Nat /\ Header \in Nat \ {0} /\ buf \in Seq(Byte) /\ wire \in Seq(Byte)
  BY FramingConstants DEF TypeOK
<1>3. rx = <<>>
  BY <1>1, <1>2 DEF FramingInv, InParts
<1>4. /\ k \in Nat \ {0} /\ k <= Header - Len(buf) /\ Rest(k) \in Seq(Byte)
      /\ b \in Seq(Byte) /\ Len(b) = Len(buf) + k
      /\ buf \o wire = b \o Rest(k)
  <2>1. Header - Len(buf) \in Int
    BY <1>2
  <2> QED
    BY <1>1, <1>2, <2>1, ReadInto
<1> HIDE DEF b
<1>5. Len(b) <= Header /\ Len(b) >= 1 /\ Len(b) \in Nat
  BY <1>2, <1>4
<1>6. Ahead = b \o Rest(k)
  BY <1>2, <1>3, <1>4, ConcatEmptySeq DEF Ahead
<1>7. /\ \A i \in 1..Len(b) : Ahead[i] = b[i]
      /\ Ahead # <<>>
  BY <1>4, <1>5, <1>6, InFront, EmptySeq
<1>8. /\ Current \in 1..Len(sent) /\ Size(Current) \in Nat
      /\ Size(Current) = Header + sent[Current].len /\ sent[Current].len \in Nat
      /\ \A m \in 1..Size(Current) : Ahead[m] = <<Current, m>>
      /\ Packet(Current) \in Seq(Byte) /\ Len(Packet(Current)) = Size(Current)
      /\ \A i \in 1..Size(Current) : Packet(Current)[i] = <<Current, i>>
      /\ Body(Current) \in Seq(Byte) /\ Len(Body(Current)) = sent[Current].len
  BY <1>7, CurrentPacket, PacketParts
<1>9. <<>> \in Seq(Byte) /\ Len(<<>>) = 0
  BY EmptySeq
<1>10. ASSUME NEW n \in whole, Deliver(n, <<>>), buf' = <<>>
       PROVE  Len(delivered') <= Len(sent') /\ FullPackets' /\ Unprocessed(Ahead)' /\ InParts'
  <2>1. n \in 1..Len(sent) /\ sent[n].len = 0 /\ b = Packet(n)
    OBVIOUS
  <2>2. Len(b) = Size(n) /\ b[1] = <<n, 1>>
    <3>1. Size(n) \in Nat /\ Len(b) = Size(n) /\ \A i \in 1..Size(n) : b[i] = <<n, i>>
      BY <2>1, PacketParts
    <3>2. 1 \in 1..Size(n)
      BY <1>5, <3>1
    <3>3. b[1] = <<n, 1>>
      BY <3>1, <3>2
    <3> QED
      BY <3>1, <3>3
  <2>3. Ahead[1] = b[1] /\ Ahead[1] = <<Current, 1>>
    <3>1. 1 \in 1..Len(b)
      <4>1. \A l \in Nat : l >= 1 => 1 \in 1..l
        OBVIOUS
      <4> QED
        BY <1>5, <4>1
    <3>2. 1 \in 1..Size(Current)
      <4>1. \A h \in Nat \ {0}, l \in Nat : 1 \in 1..(h + l)
        OBVIOUS
      <4> QED
        BY <1>2, <1>8, <4>1
    <3> QED
      BY <1>7, <1>8, <3>1, <3>2
  <2>4. n = Current
    BY <2>2, <2>3
  <2>5. Body(Current) = <<>>
    BY <1>8, <2>1, <2>4, EmptySeq
  <2>6. Ahead' = Rest(k)
    <3>1. Ahead' = (<<>> \o <<>>) \o Rest(k)
      BY <1>1, <1>3, <1>10 DEF Ahead
    <3> QED
      BY <1>4, <1>9, <3>1, ConcatEmptySeq
  <2>7. Len(delivered') <= Len(sent') /\ FullPackets' /\ Unprocessed(Ahead)'
    BY <1>1, <1>4, <1>5, <1>6, <1>7, <1>10, <2>2, <2>4, <2>5, <2>6, Consumed
  <2>8. InParts'
    BY <1>1, <1>2, <1>3, <1>9, <1>10 DEF InParts
  <2> QED
    BY <2>7, <2>8
<1>11. ASSUME whole = {}, buf' = b, UNCHANGED delivered
       PROVE  Len(delivered') <= Len(sent') /\ FullPackets' /\ Unprocessed(Ahead)' /\ InParts'
  <2>1. Ahead' = Ahead
    <3>1. Ahead' = (b \o <<>>) \o Rest(k)
      BY <1>1, <1>3, <1>11 DEF Ahead
    <3> QED
      BY <1>5, <1>6, <3>1, ConcatEmptySeq
  <2>2. Len(delivered') <= Len(sent') /\ FullPackets' /\ Unprocessed(Ahead)'
    BY <1>1, <1>11, <2>1, NotYet
  <2>3. Len(b) = Header => sent[Current].len # 0
    <3> SUFFICES ASSUME Len(b) = Header, sent[Current].len = 0 PROVE FALSE
      OBVIOUS
    <3>1. Size(Current) = Len(b)
      BY <1>2, <1>8
    <3>2. \A i \in 1..Len(b) : b[i] = Packet(Current)[i]
      BY <1>7, <1>8, <3>1
    <3>3. b = Packet(Current)
      BY <1>4, <1>8, <3>1, <3>2, SeqEqual
    <3> QED
      BY <1>8, <1>11, <3>3
  <2>4. Size(Current)' = Size(Current) /\ rx' = <<>>
    BY <1>1, <1>3, <1>11 DEF Size, Current
  <2>5. Len(b) >= Header => Len(b) + 0 < Size(Current)
    <3>1. PICK have \in Nat, size \in Nat, len \in Nat :
            have = Len(b) /\ size = Size(Current) /\ len = sent[Current].len
      BY <1>5, <1>8
    <3>2. size = Header + len /\ have <= Header /\ (have = Header => len # 0)
      BY <1>5, <1>8, <2>3, <3>1
    <3>3. have >= Header => have + 0 < size
      BY <1>2, <3>2
    <3> QED
      BY <3>1, <3>3
  <2>6. ~(Len(b) > Header)
    BY <1>2, <1>4, <1>5
  <2> QED
    BY <1>9, <1>11, <2>2, <2>4, <2>5, <2>6 DEF InParts
<1>12. \/ \E n \in whole : Deliver(n, <<>>) /\ buf' = <<>>
       \/ whole = {} /\ buf' = b /\ UNCHANGED delivered
  BY Zenon DEF ReadHeader, b
<1> QED
  BY <1>10, <1>11, <1>12

\* The first len bytes behind the header of a sequence that starts with packet n are
\* its body.
LEMMA BodyAre ==
  ASSUME TypeOK, NEW n \in 1..Len(sent), NEW s \in Seq(Byte), Len(s) = Size(n),
         \A i \in 1..Size(n) : s[i] = <<n, i>>
  PROVE  SubSeq(s, Header + 1, Size(n)) = Body(n)
<1>1. /\ sent[n].len \in Nat /\ Header \in Nat \ {0} /\ Size(n) \in Nat
      /\ Size(n) = Header + sent[n].len
      /\ Body(n) \in Seq(Byte) /\ Len(Body(n)) = sent[n].len
      /\ \A i \in 1..sent[n].len : Body(n)[i] = <<n, Header + i>>
  BY PacketParts
<1> DEFINE body == SubSeq(s, Header + 1, Size(n))
<1>2. \A i \in (Header + 1)..Size(n) : s[i] \in Byte
  <2>1. \A i \in (Header + 1)..Size(n) : i \in 1..Len(s)
    BY <1>1
  <2> QED
    BY <2>1, ElementOfSeq
<1>3. /\ body \in Seq(Byte)
      /\ Len(body) = IF Header + 1 <= Size(n) THEN Size(n) - (Header + 1) + 1 ELSE 0
      /\ \A i \in 1..(Size(n) - (Header + 1) + 1) : body[i] = s[Header + 1 + i - 1]
  BY <1>1, <1>2, SubSeqProperties
<1> HIDE DEF body
<1>4. Len(body) = sent[n].len
  BY <1>1, <1>3
<1>5. ASSUME NEW i \in 1..sent[n].len PROVE body[i] = Body(n)[i]
  <2>1. /\ i \in 1..(Size(n) - (Header + 1) + 1) /\ Header + 1 + i - 1 = Header + i
        /\ Header + i \in 1..Size(n)
    BY <1>1
  <2> QED
    BY <1>1, <1>3, <2>1
<1>6. body = Body(n)
  BY <1>1, <1>3, <1>4, <1>5, SeqEqual
<1> QED
  BY <1>6 DEF body

LEMMA DataKeeps ==
  ASSUME TypeOK, FramingInv, NEW k \in 1..Len(wire), ReadData(k)
  PROVE  FramingInv'
<1>1. PICK n \in PacketNums :
        /\ InHand(n) /\ ReadPending(n)
        /\ Reads(k, sent[n].len - Len(rx))
        /\ wire' = Rest(k)
        /\ LET data == rx \o Taken(k)
           IN \/ Len(data) = sent[n].len /\ Deliver(n, data) /\ rx' = <<>> /\ buf' = <<>>
              \/ Len(data) < sent[n].len /\ rx' = data /\ UNCHANGED <<buf, delivered>>
        /\ UNCHANGED <<sent, abandoned, races>>
  BY DEF ReadData
<1> SUFFICES ASSUME races = {}
             PROVE  Len(delivered') <= Len(sent') /\ FullPackets' /\ Unprocessed(Ahead)' /\ InParts'
  BY <1>1 DEF FramingInv
<1> DEFINE data == rx \o Taken(k)
           all == buf \o data
<1>2. n = Current /\ n \in 1..Len(sent) /\ Len(buf) >= Header /\ Ahead # <<>>
  BY <1>1, HeaderInHand
<1>3. /\ sent[n].len \in Nat /\ Header \in Nat \ {0} /\ Size(n) \in Nat
      /\ Size(n) = Header + sent[n].len
      /\ Body(n) \in Seq(Byte) /\ Len(Body(n)) = sent[n].len
      /\ \A i \in 1..sent[n].len : Body(n)[i] = <<n, Header + i>>
  BY <1>2, PacketParts
<1>4. /\ buf \in Seq(Byte) /\ rx \in Seq(Byte) /\ wire \in Seq(Byte)
      /\ Len(buf) \in Nat /\ Len(rx) \in Nat
  BY DEF TypeOK
<1>5. Len(buf) = Header /\ Len(buf) + Len(rx) < Size(n)
  BY <1>1, <1>2, <1>3, <1>4 DEF FramingInv, InParts
<1>6. /\ k \in Nat \ {0} /\ k <= sent[n].len - Len(rx) /\ Rest(k) \in Seq(Byte)
      /\ data \in Seq(Byte) /\ Len(data) = Len(rx) + k
      /\ rx \o wire = data \o Rest(k)
  <2>1. sent[n].len - Len(rx) \in Int
    BY <1>3, <1>4
  <2> QED
    BY <1>1, <1>4, <2>1, ReadInto
<1> HIDE DEF data
<1>7. all \in Seq(Byte) /\ Len(all) = Header + Len(data)
  <2>1. all \in Seq(Byte) /\ Len(all) = Len(buf) + Len(data)
    BY <1>4, <1>6, ConcatProperties
  <2> QED
    BY <1>5, <2>1
<1>8. Ahead = all \o Rest(k)
  <2>1. Ahead = buf \o (rx \o wire)
    <3>1. (buf \o rx) \o wire = buf \o (rx \o wire)
      BY <1>4, Regroup
    <3> QED
      BY <3>1, Zenon DEF Ahead
  <2>2. Ahead = buf \o (data \o Rest(k))
    BY <1>6, <2>1
  <2>3. (buf \o data) \o Rest(k) = buf \o (data \o Rest(k))
    BY <1>4, <1>6, Regroup
  <2> QED
    BY <2>2, <2>3, Zenon
<1>9. \A i \in 1..Len(data) : all[Header + i] = data[i]
  BY <1>4, <1>5, <1>6, AtEnd
<1> HIDE DEF all
<1>10. <<>> \in Seq(Byte) /\ Len(<<>>) = 0
  BY EmptySeq
<1>11. CASE Len(data) = sent[n].len /\ Deliver(n, data) /\ rx' = <<>> /\ buf' = <<>>
  <2>1. data = Body(n)
    <3>1. Len(all) = Size(n) /\ \A i \in 1..Size(n) : all[i] = <<n, i>>
      <4>1. Len(all) = Size(n)
        BY <1>3, <1>7, <1>11
      <4>2. \A i \in 1..Len(all) : Ahead[i] = all[i]
        BY <1>6, <1>7, <1>8, InFront
      <4> QED
        BY <1>2, <4>1, <4>2, CurrentPacket
    <3>2. \A i \in 1..sent[n].len : Header + i \in 1..Size(n)
      BY <1>3
    <3>3. \A i \in 1..sent[n].len : data[i] = Body(n)[i]
      BY <1>3, <1>9, <1>11, <3>1, <3>2
    <3> QED
      BY <1>3, <1>6, <1>11, <3>3, SeqEqual
  <2>2. Ahead' = Rest(k)
    <3>1. Ahead' = (<<>> \o <<>>) \o Rest(k)
      BY <1>1, <1>11 DEF Ahead
    <3> QED
      BY <1>6, <1>10, <3>1, ConcatEmptySeq
  <2>3. Len(delivered') <= Len(sent') /\ FullPackets' /\ Unprocessed(Ahead)'
    <3>1. Len(all) = Size(Current) /\ Deliver(Current, Body(Current)) /\ sent' = sent
      BY <1>1, <1>2, <1>3, <1>7, <1>11, <2>1
    <3> QED
      BY <1>2, <1>6, <1>7, <1>8, <2>2, <3>1, Consumed
  <2>4. InParts'
    BY <1>3, <1>10, <1>11 DEF InParts
  <2> QED
    BY <2>3, <2>4
<1>12. CASE Len(data) < sent[n].len /\ rx' = data /\ UNCHANGED <<buf, delivered>>
  <2>1. Ahead' = Ahead
    <3>1. Ahead' = all \o Rest(k)
      BY <1>1, <1>12 DEF Ahead, all
    <3> QED
      BY <1>8, <3>1
  <2>2. Len(delivered') <= Len(sent') /\ FullPackets' /\ Unprocessed(Ahead)'
    BY <1>1, <1>12, <2>1, NotYet
  <2>3. Size(Current)' = Size(Current) /\ (ReadPending(Current)' <=> ReadPending(Current))
    BY <1>1, <1>12 DEF Size, Current, ReadPending
  <2>4. Len(buf) + Len(data) < Size(Current)
    BY <1>2, <1>3, <1>5, <1>6, <1>12
  <2>5. Len(buf') = Header /\ ReadPending(Current)' /\ ~(Len(buf') > Header)
    BY <1>1, <1>2, <1>3, <1>5, <1>12, <2>3
  <2>6. Len(buf') + Len(rx') < Size(Current)'
    BY <1>12, <2>3, <2>4
  <2>7. InParts'
    BY <2>5, <2>6 DEF InParts
  <2> QED
    BY <2>2, <2>7
<1> QED
  BY <1>1, <1>11, <1>12 DEF data

LEMMA BodyKeeps ==
  ASSUME TypeOK, FramingInv, NEW k \in 1..Len(wire), ReadBody(k)
  PROVE  FramingInv'
<1> DEFINE b == buf \o Taken(k)
           total(n) == Header + sent[n].len
           excess(n) == Len(b) - total(n)
           shifted(n) == SubSeq(b, sent[n].len + 1, sent[n].len + excess(n))
           left(n) == SubSeq(shifted(n) \o SubSeq(b, excess(n) + 1, Len(b)), 1, total(n))
<1>1. PICK n \in PacketNums :
        /\ InHand(n) /\ ~ReadPending(n)
        /\ Reads(k, Min({sent[n].len, BufSize}))
        /\ wire' = Rest(k)
        /\ \/ excess(n) < 0 /\ buf' = b /\ UNCHANGED delivered
           \/ /\ excess(n) >= 0
              /\ Deliver(n, SubSeq(b, Header + 1, total(n)))
              /\ buf' = IF excess(n) = 0 THEN <<>> ELSE left(n)
        /\ races' = races \cup {x \in {"overread"} : excess(n) > 0}
                          \cup {x \in {"overrun"} : Len(b) > BufSize}
        /\ UNCHANGED <<sent, rx, abandoned>>
  BY Zenon DEF ReadBody
<1> SUFFICES ASSUME races' = {}
             PROVE  Len(delivered') <= Len(sent') /\ FullPackets' /\ Unprocessed(Ahead)' /\ InParts'
  BY DEF FramingInv
<1>2. races = {} /\ ~(excess(n) > 0)
  BY <1>1
<1>3. n = Current /\ n \in 1..Len(sent) /\ Len(buf) >= Header /\ Ahead # <<>>
  BY <1>1, <1>2, HeaderInHand
<1>4. /\ sent[n].len \in Nat /\ Header \in Nat \ {0} /\ BufSize \in Nat
      /\ Size(n) \in Nat /\ Size(n) = total(n)
  BY <1>3, PacketParts, FramingConstants
<1>5. buf \in Seq(Byte) /\ wire \in Seq(Byte) /\ Len(buf) \in Nat
  BY DEF TypeOK
<1>6. rx = <<>>
  BY <1>1, <1>2, <1>3 DEF FramingInv, InParts
<1>7. /\ k \in Nat \ {0} /\ Rest(k) \in Seq(Byte)
      /\ b \in Seq(Byte) /\ Len(b) = Len(buf) + k
      /\ buf \o wire = b \o Rest(k)
  <2>1. sent[n].len \in Int /\ BufSize \in Int
    BY <1>4
  <2>2. Min({sent[n].len, BufSize}) \in Int
    BY <2>1, LeastOfTwo, Zenon
  <2> QED
    BY <1>1, <1>5, <2>2, ReadInto
<1> HIDE DEF b
<1>8. Ahead = b \o Rest(k)
  BY <1>5, <1>6, <1>7, ConcatEmptySeq DEF Ahead
<1>9. <<>> \in Seq(Byte) /\ Len(<<>>) = 0
  BY EmptySeq
<1>10. CASE excess(n) < 0 /\ buf' = b /\ UNCHANGED delivered
  <2>1. Ahead' = Ahead
    <3>1. Ahead' = (b \o <<>>) \o Rest(k)
      BY <1>1, <1>6, <1>10 DEF Ahead
    <3> QED
      BY <1>7, <1>8, <3>1, ConcatEmptySeq
  <2>2. Len(delivered') <= Len(sent') /\ FullPackets' /\ Unprocessed(Ahead)'
    BY <1>1, <1>2, <1>10, <2>1, NotYet
  <2>3. Size(Current)' = Size(Current) /\ (ReadPending(Current)' <=> ReadPending(Current))
    BY <1>1, <1>10 DEF Size, Current, ReadPending
  <2>4. Len(b) + 0 < Size(Current)
    BY <1>3, <1>4, <1>5, <1>7, <1>10
  <2>5. rx' = <<>> /\ buf' = b /\ ~ReadPending(Current)'
    BY <1>1, <1>3, <1>6, <1>10, <2>3
  <2>6. Len(buf') + Len(rx') < Size(Current)'
    BY <1>9, <2>3, <2>4, <2>5
  <2>7. InParts'
    BY <2>5, <2>6 DEF InParts
  <2> QED
    BY <2>2, <2>7
<1>11. CASE /\ excess(n) >= 0
            /\ Deliver(n, SubSeq(b, Header + 1, total(n)))
            /\ buf' = IF excess(n) = 0 THEN <<>> ELSE left(n)
  <2>1. excess(n) = 0 /\ Len(b) = Size(n) /\ buf' = <<>>
    <3>1. excess(n) = 0
      <4>1. Len(b) \in Int /\ total(n) \in Int
        BY <1>4, <1>5, <1>7
      <4>2. excess(n) \in Int
        BY <4>1
      <4> QED
        BY <1>2, <1>11, <4>2
    <3>2. Len(b) = Size(n)
      <4>1. Len(b) \in Nat
        BY <1>5, <1>7
      <4> QED
        BY <1>4, <3>1, <4>1
    <3> QED
      BY <1>11, <3>1, <3>2
  <2>2. SubSeq(b, Header + 1, total(n)) = Body(n)
    <3>1. \A i \in 1..Size(n) : b[i] = <<n, i>>
      <4>1. \A i \in 1..Len(b) : Ahead[i] = b[i]
        BY <1>7, <1>8, InFront
      <4> QED
        BY <1>2, <1>3, <2>1, <4>1, CurrentPacket
    <3> QED
      BY <1>3, <1>4, <1>7, <2>1, <3>1, BodyAre
  <2>3. Ahead' = Rest(k)
    <3>1. Ahead' = (<<>> \o <<>>) \o Rest(k)
      BY <1>1, <1>6, <2>1 DEF Ahead
    <3> QED
      BY <1>7, <1>9, <3>1, ConcatEmptySeq
  <2>4. Len(delivered') <= Len(sent') /\ FullPackets' /\ Unprocessed(Ahead)'
    <3>1. Len(b) = Size(Current) /\ Deliver(Current, Body(Current)) /\ sent' = sent
      BY <1>1, <1>3, <1>11, <2>1, <2>2
    <3> QED
      BY <1>2, <1>3, <1>7, <1>8, <2>3, <3>1, Consumed
  <2>5. InParts'
    BY <1>1, <1>4, <1>6, <1>9, <2>1 DEF InParts
  <2> QED
    BY <2>4, <2>5
<1> HIDE DEF excess, total, left
<1> QED
  BY <1>1, <1>10, <1>11

LEMMA SendsKeeps ==
  ASSUME TypeOK, FramingInv, NEW len \in Lengths, NEW read \in BOOLEAN, ServerSends(len, read)
  PROVE  FramingInv'
<1> SUFFICES ASSUME races = {}
             PROVE  Len(delivered') <= Len(sent') /\ FullPackets' /\ Unprocessed(Ahead)' /\ InParts'
  BY DEF FramingInv, ServerSends
<1> DEFINE p == [len |-> len, read |-> read]
           new == Len(sent) + 1
           more == Bytes(new, 1, Header + p.len)
<1>1. /\ sent' = Append(sent, p) /\ wire' = wire \o more
      /\ UNCHANGED <<buf, rx, abandoned, delivered, races>>
  BY DEF ServerSends
<1>2. /\ p \in [len : Lengths, read : BOOLEAN] /\ p.len \in Nat /\ Header \in Nat \ {0}
      /\ sent \in Packets /\ Len(sent) \in Nat /\ new \in PacketNums
      /\ Len(delivered) \in Nat
  <2>1. Len(sent) \in Nat /\ MaxPackets \in Nat /\ Len(sent) < MaxPackets
    BY FramingConstants DEF TypeOK, ServerSends
  <2>2. new \in PacketNums
    BY <2>1 DEF PacketNums
  <2> QED
    BY <2>1, <2>2, FramingConstants DEF TypeOK, Packets
<1>3. /\ Len(delivered) <= Len(sent) /\ FullPackets /\ InParts
      /\ FromPacket(Ahead, Current, sent)
  BY DEF FramingInv, Unprocessed, Current
<1> HIDE DEF p
<1>4. /\ Len(sent') = new
      /\ \A i \in 1..Len(sent) : sent'[i] = sent[i]
  BY <1>1, <1>2, AppendProperties DEF Packets
<1>5. more \in Seq(Byte)
  <2>1. 1 \in Nat /\ Header + p.len \in Nat /\ 1 <= Header + p.len + 1
    BY <1>2
  <2> QED
    BY <1>2, <2>1, BytesAre
<1> HIDE DEF more
<1>6. Ahead' = Ahead \o more
  <2>1. Ahead' = (buf \o rx) \o (wire \o more)
    BY <1>1 DEF Ahead
  <2>2. buf \o rx \in Seq(Byte) /\ wire \in Seq(Byte)
    BY ConcatProperties DEF TypeOK
  <2>3. ((buf \o rx) \o wire) \o more = (buf \o rx) \o (wire \o more)
    BY <1>5, <2>2, Regroup
  <2> QED
    BY <2>1, <2>3 DEF Ahead
<1>7. Unprocessed(Ahead)'
  <2>1. Ahead \in Seq(Byte) /\ Current \in Nat \ {0} /\ Current <= Len(sent) + 1
    BY <1>2, <1>3, AheadParts DEF Current
  <2>2. FromPacket(Ahead \o more, Current, Append(sent, p))
    BY <1>2, <1>3, <2>1, OneMore DEF more
  <2>3. FromPacket(Ahead', Len(delivered') + 1, sent')
    BY <1>1, <1>6, <2>2 DEF Current
  <2> QED
    BY <2>3 DEF Unprocessed
<1>8. \A i \in 1..Len(sent) :
        Size(i)' = Size(i) /\ Body(i)' = Body(i) /\ (ReadPending(i)' <=> ReadPending(i))
  BY <1>1, <1>4 DEF Size, Body, ReadPending
<1>9. FullPackets'
  <2>1. \A i \in 1..Len(delivered) : i \in 1..Len(sent)
    BY <1>2, <1>3
  <2> QED
    BY <1>1, <1>3, <1>8, <2>1 DEF FullPackets
<1>10. InParts'
  <2>1. CASE Ahead = <<>>
    <3>1. Len(buf) = 0 /\ rx = <<>>
      <4>1. Len(Ahead) = 0
        BY <2>1, EmptySeq
      <4>2. Len(buf) = 0 /\ Len(rx) = 0
        BY <4>1, AheadParts
      <4> QED
        BY <4>2, EmptySeq DEF TypeOK
    <3> QED
      BY <1>1, <1>2, <3>1 DEF InParts
  <2>2. CASE Ahead # <<>>
    <3>1. Current \in 1..Len(sent) /\ Current' = Current
      BY <1>1, <2>2, CurrentPacket DEF Current
    <3>2. Size(Current)' = Size(Current) /\ (ReadPending(Current)' <=> ReadPending(Current))
      BY <1>1, <1>4, <3>1 DEF Size, ReadPending
    <3> QED
      BY <1>1, <1>3, <3>2 DEF InParts
  <2> QED
    BY <2>1, <2>2
<1>11. Len(delivered') <= Len(sent')
  BY <1>1, <1>2, <1>3, <1>4
<1> QED
  BY <1>7, <1>9, <1>10, <1>11

LEMMA AbandonKeeps ==
  ASSUME TypeOK, FramingInv, NEW n \in PacketNums, Abandon(n)
  PROVE  FramingInv'
<1> SUFFICES ASSUME races' = {}
             PROVE  Len(delivered') <= Len(sent') /\ FullPackets' /\ Unprocessed(Ahead)' /\ InParts'
  BY DEF FramingInv
<1>1. /\ races = {} /\ ~\E i \in 1..Len(rx) : rx[i][1] = n
      /\ rx' = rx /\ abandoned' = abandoned \cup {n}
      /\ UNCHANGED <<sent, wire, buf, delivered>>
  BY DEF Abandon
<1>2. InParts
  BY <1>1 DEF FramingInv
<1>3. Ahead' = Ahead
  BY <1>1 DEF Ahead
<1>4. Len(delivered') <= Len(sent') /\ FullPackets' /\ Unprocessed(Ahead)'
  BY <1>1, <1>3, NotYet
<1>5. Size(Current)' = Size(Current) /\ (~ReadPending(Current) => ~ReadPending(Current)')
  BY <1>1 DEF Size, Current, ReadPending
<1>6. rx # <<>> => ReadPending(Current)'
  <2> SUFFICES ASSUME rx # <<>> PROVE ReadPending(Current)'
    OBVIOUS
  <2>1. Len(buf) = Header /\ ReadPending(Current) /\ Len(buf) + Len(rx) < Size(Current)
    BY <1>2, FramingConstants DEF InParts
  <2>2. /\ Len(buf) \in Nat /\ Len(rx) \in Nat \ {0} /\ Ahead # <<>>
        /\ 1 \in 1..Len(rx) /\ Ahead[Len(buf) + 1] = rx[1]
    <3>1. Len(rx) \in Nat \ {0} /\ Len(buf) \in Nat
      BY EmptySeq DEF TypeOK
    <3>2. 1 \in 1..Len(rx)
      BY <3>1
    <3>3. Len(Ahead) # 0
      BY <3>1, AheadParts
    <3> QED
      BY <3>1, <3>2, <3>3, AheadParts, EmptySeq
  <2>3. Ahead[Len(buf) + 1] = <<Current, Len(buf) + 1>>
    <3>1. /\ Current \in 1..Len(sent) /\ Size(Current) \in Nat
          /\ \A m \in 1..Size(Current) : Ahead[m] = <<Current, m>>
      BY <1>1, <2>2, CurrentPacket, PacketParts
    <3>2. Len(buf) + 1 \in 1..Size(Current)
      BY <2>1, <2>2, <3>1
    <3> QED
      BY <3>1, <3>2
  <2>4. rx[1][1] = Current
    BY <2>2, <2>3
  <2>5. n # Current
    BY <1>1, <2>2, <2>4
  <2> QED
    BY <1>1, <2>1, <2>5 DEF ReadPending, Current
<1>7. InParts'
  BY <1>1, <1>2, <1>5, <1>6 DEF InParts
<1> QED
  BY <1>4, <1>7

LEMMA InitKeeps == Init => FramingInv
<1> SUFFICES ASSUME Init PROVE FramingInv
  OBVIOUS
<1>1. Ahead = <<>> /\ Len(delivered) = 0 /\ Len(sent) = 0 /\ Len(buf) = 0 /\ rx = <<>>
  <2>1. <<>> \in Seq(Byte) /\ Len(<<>>) = 0
    BY EmptySeq
  <2>2. Ahead = (<<>> \o <<>>) \o <<>>
    BY DEF Init, Ahead
  <2>3. Ahead = <<>>
    BY <2>1, <2>2, ConcatEmptySeq
  <2> QED
    BY <2>1, <2>3 DEF Init
<1>2. FullPackets
  BY <1>1 DEF FullPackets
<1>3. Unprocessed(Ahead)
  <2>1. Len(Ahead) = 0
    BY <1>1, EmptySeq
  <2> QED
    BY <1>1, <2>1 DEF Unprocessed, FromPacket
<1>4. InParts
  BY <1>1, FramingConstants DEF InParts
<1> QED
  BY <1>1, <1>2, <1>3, <1>4 DEF FramingInv

LEMMA NextKeeps == TypeOK /\ FramingInv /\ [Next]_vars => FramingInv'
<1> SUFFICES ASSUME TypeOK, FramingInv, [Next]_vars PROVE FramingInv'
  OBVIOUS
<1>1. ASSUME NEW len \in Lengths, NEW read \in BOOLEAN, ServerSends(len, read) PROVE FramingInv'
  BY <1>1, SendsKeeps
<1>2. ASSUME NEW n \in PacketNums, Abandon(n) PROVE FramingInv'
  BY <1>2, AbandonKeeps
<1>3. ASSUME NEW k \in 1..Len(wire), ReadHeader(k) PROVE FramingInv'
  BY <1>3, HeaderKeeps
<1>4. ASSUME NEW k \in 1..Len(wire), ReadData(k) PROVE FramingInv'
  BY <1>4, DataKeeps
<1>5. ASSUME NEW k \in 1..Len(wire), ReadBody(k) PROVE FramingInv'
  BY <1>5, BodyKeeps
<1>6. CASE UNCHANGED vars
  BY <1>6 DEF vars, FramingInv, FullPackets, Body, Size, Unprocessed, Ahead, InParts, ReadPending,
              Current
<1> QED
  BY <1>1, <1>2, <1>3, <1>4, <1>5, <1>6 DEF Next, Recv

-----------------------------------------------------------------------------
LEMMA StillInStep == TypeOK /\ FramingInv => InStep
  BY DEF FramingInv, InStep

\* dsi_recv(): "At this point, we have a full DSI packet".  Unless a read went
\* past the packet in hand or a half-read answer was given up, whatever has
\* been processed is the server's packets, each once, in order and with its own body,
\* and what the buffers and the socket hold is exactly the rest of the stream.
THEOREM FramingInStep == Spec => []InStep
  BY InitTypes, NextTypes, InitKeeps, NextKeeps, StillInStep, PTL DEF Spec

-----------------------------------------------------------------------------
(* What a function of uams.c has taken, and what it knows, step by step *)

Changes == {"cleartxt_passwd", "randnum_passwd", "dhx_passwd", "dhx2_passwd"}
NewBy(f) == IF f = "dhx2_passwd" THEN "old" ELSE "new"

\* The account of a function before a step: the blocks it has got, those of them
\* that calloc() may have refused, the ciphers that are open, how many requests
\* it has made, and what it knows of the answer to the last one.
Stages == {"asked", "passed", "taken", "left"}
Accounts == [live : SUBSET Pointers, doubt : SUBSET Pointers, open : SUBSET Ciphers, sent : Nat,
             stage : Stages]
Account(live, doubt, open, n, stage) ==
  [live |-> live, doubt |-> doubt, open |-> open, sent |-> n, stage |-> stage]
Fresh == Account({}, {}, {}, 0, "asked")

\* A request goes on with an exchange only after an answer that says so and with the
\* id out of it; its fields are where they should be, with the exceptions of the
\* changes of password by DHX and DHX2, and the last one has the new password.
Sendable(f, n, stage, cmd, fields) ==
  /\ n > 0 => stage = "taken" /\ (\/ fields.id = "host"
                                  \/ f = "dhx2_passwd" /\ fields.id = "raw" /\ fields.pw = "old")
  /\ \/ fields.at \in {NoField, Field(16, "even")}
     \/ fields.at = Field(9, "odd") /\ cmd = "login"
     \/ f = "dhx_passwd" /\ fields.at = Field(9, "always")
     \/ f = "dhx2_passwd" /\ fields.at = Field(4, "always")
  /\ IF f \in Changes THEN cmd = "passwd" ELSE cmd \in {"login", "cont"}
  /\ cmd = "cont" => fields.at = NoField
  /\ f \in Changes /\ n + 1 = Rounds(f) => fields.new = NewBy(f)

\* Step s of function f is in order after h and leads to g: it takes what is not
\* taken, uses what is, and if it fails it closes what is open.
Leads(f, h, s, g) ==
  /\ h \in Accounts /\ g \in Accounts /\ h.stage # "left" /\ h.live \subseteq Frees(f)
  /\ s.op \in {"alloc", "open", "crypt", "continue", "leave"} => s.close = h.open
  /\ \/ /\ s.op = "alloc" /\ s.x \in Pointers \ h.live
        /\ g = Account(h.live \cup {s.x}, h.doubt, h.open, h.sent, h.stage)
     \/ /\ s.op = "allocunchecked" /\ s.x \in Pointers \ h.live /\ f = "dhx2_passwd"
        /\ g = Account(h.live \cup {s.x}, h.doubt \cup {s.x}, h.open, h.sent, h.stage)
     \/ /\ s.op = "free" /\ s.x \in Pointers
        /\ g = Account(h.live \ {s.x}, h.doubt \ {s.x}, h.open, h.sent, h.stage)
     \/ /\ s.op = "open" /\ s.c \in Ciphers \ h.open
        /\ g = Account(h.live, h.doubt, h.open \cup {s.c}, h.sent, h.stage)
     \/ /\ s.op = "crypt" /\ s.c \in h.open /\ s.reads \subseteq h.live \ h.doubt
        /\ s.frees \subseteq h.live \ h.doubt
        /\ g = Account(h.live \ s.frees, h.doubt, h.open, h.sent, h.stage)
     \/ /\ s.op = "send" /\ (s.x # "none" => s.x \in h.live) /\ (s.rx => "rx" \in h.live \ h.doubt)
        /\ Sendable(f, h.sent, h.stage, s.cmd, s.fields)
        /\ g = Account(h.live, h.doubt, h.open, h.sent + 1, "asked")
     \/ /\ s.op = "continue" /\ s.code = "AuthContinue"
        /\ g = Account(h.live, h.doubt, h.open, h.sent, "passed")
     \/ /\ s.op = "continue" /\ s.code = "NoErr"
        /\ g = Account(h.live, h.doubt, h.open, h.sent, "asked")
     \/ /\ s.op = "takeid" /\ h.stage = "passed"
        /\ g = Account(h.live, h.doubt, h.open, h.sent, "taken")
     \/ s.op = "compare" /\ h.stage = "asked" /\ h.sent > 0 /\ g = h
     \/ s.op = "leave" /\ g = Account(h.live, h.doubt, h.open, h.sent, "left")

\* The n steps of P are in order, from account h to account g.
Goes(f, h, P, n, g) ==
  /\ n \in Nat /\ Len(P) = n /\ P = [k \in 1..n |-> P[k]]
  /\ \E Q : /\ Q[1] = h /\ Q[n + 1] = g
            /\ \A k \in 1..n : Leads(f, Q[k], P[k], Q[k + 1])

LEMMA AccountIs ==
  ASSUME NEW live \in SUBSET Pointers, NEW doubt \in SUBSET Pointers, NEW open \in SUBSET Ciphers,
         NEW n \in Nat, NEW stage \in Stages
  PROVE  /\ Account(live, doubt, open, n, stage) \in Accounts
         /\ Account(live, doubt, open, n, stage).live = live
         /\ Account(live, doubt, open, n, stage).doubt = doubt
         /\ Account(live, doubt, open, n, stage).open = open
         /\ Account(live, doubt, open, n, stage).sent = n
         /\ Account(live, doubt, open, n, stage).stage = stage
BY DEF Account, Accounts

LEMMA AllocLeads ==
  ASSUME NEW f, NEW live \in SUBSET Pointers, NEW doubt \in SUBSET Pointers,
         NEW open \in SUBSET Ciphers, NEW n \in Nat, NEW stage \in Stages \ {"left"},
         live \subseteq Frees(f),
         NEW x \in Pointers \ live, NEW more, more = live \cup {x}
  PROVE  Leads(f, Account(live, doubt, open, n, stage), Alloc(x, open),
               Account(more, doubt, open, n, stage))
<1>1. PICK h \in Accounts : /\ h = Account(live, doubt, open, n, stage)
                           /\ h.live = live /\ h.doubt = doubt /\ h.open = open
                           /\ h.sent = n /\ h.stage = stage /\ h.stage # "left"
  BY AccountIs
<1>2. PICK g \in Accounts : g = Account(more, doubt, open, n, stage)
  BY AccountIs
<1>3. PICK s : s = Alloc(x, open)
  OBVIOUS
<1>4. g = Account(h.live \cup {x}, h.doubt, h.open, h.sent, h.stage)
  BY <1>1, <1>2
<1>5. s.op = "alloc" /\ s.x = x /\ s.close = open
  BY <1>3 DEF Alloc
<1>6. Leads(f, h, s, g)
  BY <1>1, <1>4, <1>5 DEF Leads
<1>7. QED
  BY <1>1, <1>2, <1>3, <1>6

LEMMA UncheckedLeads ==
  ASSUME NEW f, NEW live \in SUBSET Pointers, NEW doubt \in SUBSET Pointers,
         NEW open \in SUBSET Ciphers, NEW n \in Nat, NEW stage \in Stages \ {"left"},
         live \subseteq Frees(f),
         NEW x \in Pointers \ live, NEW more, more = live \cup {x}, f = "dhx2_passwd",
         NEW doubts, doubts = doubt \cup {x}
  PROVE  Leads(f, Account(live, doubt, open, n, stage),
    [Alloc(x, {}) EXCEPT !.op = "allocunchecked"],
               Account(more, doubts, open, n, stage))
<1>1. PICK h \in Accounts : /\ h = Account(live, doubt, open, n, stage)
                           /\ h.live = live /\ h.doubt = doubt /\ h.open = open
                           /\ h.sent = n /\ h.stage = stage /\ h.stage # "left"
  BY AccountIs
<1>2. PICK g \in Accounts : g = Account(more, doubts, open, n, stage)
  BY AccountIs
<1>3. PICK s : s = [Alloc(x, {}) EXCEPT !.op = "allocunchecked"]
  OBVIOUS
<1>4. g = Account(h.live \cup {x}, h.doubt \cup {x}, h.open, h.sent, h.stage)
  BY <1>1, <1>2
<1>5. s.op = "allocunchecked" /\ s.x = x
  BY <1>3 DEF Alloc
<1>6. Leads(f, h, s, g)
  BY <1>1, <1>4, <1>5 DEF Leads
<1>7. QED
  BY <1>1, <1>2, <1>3, <1>6

LEMMA FreeLeads ==
  ASSUME NEW f, NEW live \in SUBSET Pointers, NEW doubt \in SUBSET Pointers,
         NEW open \in SUBSET Ciphers, NEW n \in Nat, NEW stage \in Stages \ {"left"},
         live \subseteq Frees(f),
         NEW x \in Pointers, NEW less, less = live \ {x}, NEW doubts, doubts = doubt \ {x}
  PROVE  Leads(f, Account(live, doubt, open, n, stage), Free(x),
               Account(less, doubts, open, n, stage))
<1>1. PICK h \in Accounts : /\ h = Account(live, doubt, open, n, stage)
                           /\ h.live = live /\ h.doubt = doubt /\ h.open = open
                           /\ h.sent = n /\ h.stage = stage /\ h.stage # "left"
  BY AccountIs
<1>2. PICK g \in Accounts : g = Account(less, doubts, open, n, stage)
  BY AccountIs
<1>3. PICK s : s = Free(x)
  OBVIOUS
<1>4. g = Account(h.live \ {x}, h.doubt \ {x}, h.open, h.sent, h.stage)
  BY <1>1, <1>2
<1>5. s.op = "free" /\ s.x = x
  BY <1>3 DEF Free
<1>6. Leads(f, h, s, g)
  BY <1>1, <1>4, <1>5 DEF Leads
<1>7. QED
  BY <1>1, <1>2, <1>3, <1>6

LEMMA OpenLeads ==
  ASSUME NEW f, NEW live \in SUBSET Pointers, NEW doubt \in SUBSET Pointers,
         NEW open \in SUBSET Ciphers, NEW n \in Nat, NEW stage \in Stages \ {"left"},
         live \subseteq Frees(f),
         NEW c \in Ciphers \ open, NEW more, more = open \cup {c}
  PROVE  Leads(f, Account(live, doubt, open, n, stage), Open(c, open),
               Account(live, doubt, more, n, stage))
<1>1. PICK h \in Accounts : /\ h = Account(live, doubt, open, n, stage)
                           /\ h.live = live /\ h.doubt = doubt /\ h.open = open
                           /\ h.sent = n /\ h.stage = stage /\ h.stage # "left"
  BY AccountIs
<1>2. PICK g \in Accounts : g = Account(live, doubt, more, n, stage)
  BY AccountIs
<1>3. PICK s : s = Open(c, open)
  OBVIOUS
<1>4. g = Account(h.live, h.doubt, h.open \cup {c}, h.sent, h.stage)
  BY <1>1, <1>2
<1>5. s.op = "open" /\ s.c = c /\ s.close = open
  BY <1>3 DEF Open
<1>6. Leads(f, h, s, g)
  BY <1>1, <1>4, <1>5 DEF Leads
<1>7. QED
  BY <1>1, <1>2, <1>3, <1>6

LEMMA CryptLeads ==
  ASSUME NEW f, NEW live \in SUBSET Pointers, NEW doubt \in SUBSET Pointers,
         NEW open \in SUBSET Ciphers, NEW n \in Nat, NEW stage \in Stages \ {"left"},
         live \subseteq Frees(f),
         NEW c \in open, NEW reads \in SUBSET (live \ doubt), NEW frees \in SUBSET (live \ doubt),
         NEW less, less = live \ frees
  PROVE  Leads(f, Account(live, doubt, open, n, stage), Crypt(c, reads, frees, open),
               Account(less, doubt, open, n, stage))
<1>1. PICK h \in Accounts : /\ h = Account(live, doubt, open, n, stage)
                           /\ h.live = live /\ h.doubt = doubt /\ h.open = open
                           /\ h.sent = n /\ h.stage = stage /\ h.stage # "left"
  BY AccountIs
<1>2. PICK g \in Accounts : g = Account(less, doubt, open, n, stage)
  BY AccountIs
<1>3. PICK s : s = Crypt(c, reads, frees, open)
  OBVIOUS
<1>4. g = Account(h.live \ frees, h.doubt, h.open, h.sent, h.stage)
  BY <1>1, <1>2
<1>5. s.op = "crypt"
      /\ s.c = c /\ s.reads = reads /\ s.frees = frees /\ s.close = open
  BY <1>3 DEF Crypt
<1>6. Leads(f, h, s, g)
  BY <1>1, <1>4, <1>5 DEF Leads
<1>7. QED
  BY <1>1, <1>2, <1>3, <1>6

LEMMA SendLeads ==
  ASSUME NEW f, NEW live \in SUBSET Pointers, NEW doubt \in SUBSET Pointers,
         NEW open \in SUBSET Ciphers, NEW n \in Nat, NEW stage \in Stages \ {"left"},
         live \subseteq Frees(f),
         NEW cmd, NEW x, x # "none" => x \in live,
         NEW fields, Sendable(f, n, stage, cmd, fields), NEW next, next = n + 1
  PROVE  Leads(f, Account(live, doubt, open, n, stage), Send(cmd, x, FALSE, fields),
               Account(live, doubt, open, next, "asked"))
<1>1. PICK h \in Accounts : /\ h = Account(live, doubt, open, n, stage)
                           /\ h.live = live /\ h.doubt = doubt /\ h.open = open
                           /\ h.sent = n /\ h.stage = stage /\ h.stage # "left"
  BY AccountIs
<1>2. PICK g \in Accounts : g = Account(live, doubt, open, next, "asked")
  BY AccountIs DEF Stages
<1>3. PICK s : s = Send(cmd, x, FALSE, fields)
  OBVIOUS
<1>4. g = Account(h.live, h.doubt, h.open, h.sent + 1, "asked")
  BY <1>1, <1>2
<1>5. s.op = "send"
      /\ s.cmd = cmd /\ s.x = x /\ s.rx = FALSE /\ s.fields = fields
  BY <1>3 DEF Send
<1>6. Leads(f, h, s, g)
  BY <1>1, <1>4, <1>5 DEF Leads
<1>7. QED
  BY <1>1, <1>2, <1>3, <1>6

LEMMA ReceiveLeads ==
  ASSUME NEW f, NEW live \in SUBSET Pointers, NEW doubt \in SUBSET Pointers,
         NEW open \in SUBSET Ciphers, NEW n \in Nat, NEW stage \in Stages \ {"left"},
         live \subseteq Frees(f),
         NEW cmd, NEW x, x # "none" => x \in live, "rx" \in live \ doubt,
         NEW fields, Sendable(f, n, stage, cmd, fields), NEW next, next = n + 1
  PROVE  Leads(f, Account(live, doubt, open, n, stage), Send(cmd, x, TRUE, fields),
               Account(live, doubt, open, next, "asked"))
<1>1. PICK h \in Accounts : /\ h = Account(live, doubt, open, n, stage)
                           /\ h.live = live /\ h.doubt = doubt /\ h.open = open
                           /\ h.sent = n /\ h.stage = stage /\ h.stage # "left"
  BY AccountIs
<1>2. PICK g \in Accounts : g = Account(live, doubt, open, next, "asked")
  BY AccountIs DEF Stages
<1>3. PICK s : s = Send(cmd, x, TRUE, fields)
  OBVIOUS
<1>4. g = Account(h.live, h.doubt, h.open, h.sent + 1, "asked")
  BY <1>1, <1>2
<1>5. s.op = "send"
      /\ s.cmd = cmd /\ s.x = x /\ s.rx = TRUE /\ s.fields = fields
  BY <1>3 DEF Send
<1>6. Leads(f, h, s, g)
  BY <1>1, <1>4, <1>5 DEF Leads
<1>7. QED
  BY <1>1, <1>2, <1>3, <1>6

LEMMA ContinueLeads ==
  ASSUME NEW f, NEW live \in SUBSET Pointers, NEW doubt \in SUBSET Pointers,
         NEW open \in SUBSET Ciphers, NEW n \in Nat, NEW stage \in Stages \ {"left"},
         live \subseteq Frees(f)
  PROVE  Leads(f, Account(live, doubt, open, n, stage), Continue(open),
               Account(live, doubt, open, n, "passed"))
<1>1. PICK h \in Accounts : /\ h = Account(live, doubt, open, n, stage)
                           /\ h.live = live /\ h.doubt = doubt /\ h.open = open
                           /\ h.sent = n /\ h.stage = stage /\ h.stage # "left"
  BY AccountIs
<1>2. PICK g \in Accounts : g = Account(live, doubt, open, n, "passed")
  BY AccountIs DEF Stages
<1>3. PICK s : s = Continue(open)
  OBVIOUS
<1>4. g = Account(h.live, h.doubt, h.open, h.sent, "passed")
  BY <1>1, <1>2
<1>5. s.op = "continue" /\ s.close = open /\ s.code = "AuthContinue"
  BY <1>3 DEF Continue
<1>6. Leads(f, h, s, g)
  BY <1>1, <1>4, <1>5 DEF Leads
<1>7. QED
  BY <1>1, <1>2, <1>3, <1>6

LEMMA DoneLeads ==
  ASSUME NEW f, NEW live \in SUBSET Pointers, NEW doubt \in SUBSET Pointers,
         NEW open \in SUBSET Ciphers, NEW n \in Nat, NEW stage \in Stages \ {"left"},
         live \subseteq Frees(f)
  PROVE  Leads(f, Account(live, doubt, open, n, stage), OnlyIfDone(open),
               Account(live, doubt, open, n, "asked"))
<1>1. PICK h \in Accounts : /\ h = Account(live, doubt, open, n, stage)
                           /\ h.live = live /\ h.doubt = doubt /\ h.open = open
                           /\ h.sent = n /\ h.stage = stage /\ h.stage # "left"
  BY AccountIs
<1>2. PICK g \in Accounts : g = Account(live, doubt, open, n, "asked")
  BY AccountIs DEF Stages
<1>3. PICK s : s = OnlyIfDone(open)
  OBVIOUS
<1>4. g = Account(h.live, h.doubt, h.open, h.sent, "asked")
  BY <1>1, <1>2
<1>5. s.op = "continue" /\ s.close = open /\ s.code = "NoErr"
  BY <1>3 DEF OnlyIfDone
<1>6. Leads(f, h, s, g)
  BY <1>1, <1>4, <1>5 DEF Leads
<1>7. QED
  BY <1>1, <1>2, <1>3, <1>6

LEMMA TakeIdLeads ==
  ASSUME NEW f, NEW live \in SUBSET Pointers, NEW doubt \in SUBSET Pointers,
         NEW open \in SUBSET Ciphers, NEW n \in Nat, NEW stage \in Stages \ {"left"},
         live \subseteq Frees(f),
         stage = "passed"
  PROVE  Leads(f, Account(live, doubt, open, n, stage), TakeId,
               Account(live, doubt, open, n, "taken"))
<1>1. PICK h \in Accounts : /\ h = Account(live, doubt, open, n, stage)
                           /\ h.live = live /\ h.doubt = doubt /\ h.open = open
                           /\ h.sent = n /\ h.stage = stage /\ h.stage # "left"
  BY AccountIs
<1>2. PICK g \in Accounts : g = Account(live, doubt, open, n, "taken")
  BY AccountIs DEF Stages
<1>3. PICK s : s = TakeId
  OBVIOUS
<1>4. g = Account(h.live, h.doubt, h.open, h.sent, "taken")
  BY <1>1, <1>2
<1>5. s.op = "takeid"
  BY <1>3 DEF TakeId
<1>6. Leads(f, h, s, g)
  BY <1>1, <1>4, <1>5 DEF Leads
<1>7. QED
  BY <1>1, <1>2, <1>3, <1>6

LEMMA CompareLeads ==
  ASSUME NEW f, NEW live \in SUBSET Pointers, NEW doubt \in SUBSET Pointers,
         NEW open \in SUBSET Ciphers, NEW n \in Nat, NEW stage \in Stages \ {"left"},
         live \subseteq Frees(f),
         stage = "asked", n > 0
  PROVE  Leads(f, Account(live, doubt, open, n, stage), Compare,
               Account(live, doubt, open, n, stage))
<1>1. PICK h \in Accounts : /\ h = Account(live, doubt, open, n, stage)
                           /\ h.live = live /\ h.doubt = doubt /\ h.open = open
                           /\ h.sent = n /\ h.stage = stage /\ h.stage # "left"
  BY AccountIs
<1>2. PICK g \in Accounts : g = Account(live, doubt, open, n, stage)
  BY AccountIs
<1>3. PICK s : s = Compare
  OBVIOUS
<1>4. g = h
  BY <1>1, <1>2
<1>5. s.op = "compare"
  BY <1>3 DEF Compare
<1>6. Leads(f, h, s, g)
  BY <1>1, <1>4, <1>5 DEF Leads
<1>7. QED
  BY <1>1, <1>2, <1>3, <1>6

LEMMA LeaveLeads ==
  ASSUME NEW f, NEW live \in SUBSET Pointers, NEW doubt \in SUBSET Pointers,
         NEW open \in SUBSET Ciphers, NEW n \in Nat, NEW stage \in Stages \ {"left"},
         live \subseteq Frees(f)
  PROVE  Leads(f, Account(live, doubt, open, n, stage), Leave(open),
               Account(live, doubt, open, n, "left"))
<1>1. PICK h \in Accounts : /\ h = Account(live, doubt, open, n, stage)
                           /\ h.live = live /\ h.doubt = doubt /\ h.open = open
                           /\ h.sent = n /\ h.stage = stage /\ h.stage # "left"
  BY AccountIs
<1>2. PICK g \in Accounts : g = Account(live, doubt, open, n, "left")
  BY AccountIs DEF Stages
<1>3. PICK s : s = Leave(open)
  OBVIOUS
<1>4. g = Account(h.live, h.doubt, h.open, h.sent, "left")
  BY <1>1, <1>2
<1>5. s.op = "leave" /\ s.close = open
  BY <1>3 DEF Leave
<1>6. Leads(f, h, s, g)
  BY <1>1, <1>4, <1>5 DEF Leads
<1>7. QED
  BY <1>1, <1>2, <1>3, <1>6

-----------------------------------------------------------------------------
(* The functions, fragment by fragment *)

\* Which blocks the functions free as they leave.
LEMMA FreesFacts ==
  /\ Frees("noauth_login") = {}
  /\ Frees("cleartxt_login") = {"ai"} /\ Frees("cleartxt_passwd") = {"ai"}
  /\ Frees("randnum_passwd") = {"ai"}
  /\ Frees("randnum_login") = {"rx", "ai"} /\ Frees("randnum2_login") = {"rx", "ai"}
  /\ Frees("dhx_login") = {"rx", "ai"} /\ Frees("dhx_passwd") = {"rx", "ai"}
  /\ Frees("dhx2_login") = Pointers /\ Frees("dhx2_passwd") = Pointers
BY DEF Frees

\* A function on 1..n is a sequence.
LEMMA IsSequence ==
  ASSUME NEW S, NEW n \in Nat, NEW P, P = [i \in 1..n |-> P[i]], \A i \in 1..n : P[i] \in S
  PROVE  P \in Seq(S) /\ Len(P) = n
<1>1. P \in [1..n -> S]
  OBVIOUS
<1>2. QED
  BY <1>1

\* Steps in order followed by steps in order are in order.
LEMMA GoesOn ==
  ASSUME NEW f, NEW h, NEW g, NEW k, NEW P, NEW m \in Nat, NEW R, NEW n \in Nat,
         Goes(f, h, P, m, g), Goes(f, g, R, n, k)
  PROVE  Goes(f, h, P \o R, m + n, k)
<1>1. m \in Nat /\ Len(P) = m /\ P = [i \in 1..m |-> P[i]]
  BY DEF Goes
<1>2. n \in Nat /\ Len(R) = n /\ R = [i \in 1..n |-> R[i]]
  BY DEF Goes
<1>3. PICK Q : /\ Q[1] = h /\ Q[m + 1] = g
               /\ \A i \in 1..m : Leads(f, Q[i], P[i], Q[i + 1])
  BY <1>1 DEF Goes
<1>4. PICK T : /\ T[1] = g /\ T[n + 1] = k
               /\ \A i \in 1..n : Leads(f, T[i], R[i], T[i + 1])
  BY <1>2 DEF Goes
<1>5. PICK W : W = P \o R
  OBVIOUS
<1>6. /\ Len(W) = m + n /\ W = [i \in 1..m + n |-> W[i]]
      /\ \A i \in 1..m : W[i] = P[i]
      /\ \A i \in m + 1..m + n : W[i] = R[i - m]
  <2>1. PICK S : S = {P[i] : i \in 1..m} \cup {R[i] : i \in 1..n}
    OBVIOUS
  <2>2. \A i \in 1..m : P[i] \in S
    BY <2>1
  <2>3. \A i \in 1..n : R[i] \in S
    BY <2>1
  <2>4. P \in Seq(S) /\ Len(P) = m
    BY <1>1, <2>2, IsSequence
  <2>5. R \in Seq(S) /\ Len(R) = n
    BY <1>2, <2>3, IsSequence
  <2>6. Len(W) = m + n /\ W \in Seq(S)
    <3>1. W \in Seq(S) /\ Len(W) = Len(P) + Len(R)
      BY <1>5, <2>4, <2>5, ConcatProperties, Zenon
    <3>2. QED
      BY <2>4, <2>5, <3>1
  <2>7. \A i \in 1..m + n : W[i] = IF i <= m THEN P[i] ELSE R[i - m]
    <3>1. \A i \in 1..Len(P) + Len(R) : W[i] = IF i <= Len(P) THEN P[i] ELSE R[i - Len(P)]
      BY <1>5, <2>4, <2>5, ConcatProperties, Zenon
    <3>2. QED
      BY <2>4, <2>5, <3>1
  <2>8. W = [i \in 1..m + n |-> W[i]]
    BY <2>6
  <2>9. QED
    BY <2>6, <2>7, <2>8
<1>7. PICK V : V = [i \in 1..m + n + 1 |-> IF i <= m THEN Q[i] ELSE T[i - m]]
  OBVIOUS
<1>8. V[1] = h /\ V[m + n + 1] = k
  <2>1. V[m + n + 1] = T[n + 1]
    BY <1>7
  <2>2. CASE m = 0
    <3>1. V[1] = T[1]
      BY <1>7, <2>2
    <3>2. QED
      BY <1>3, <1>4, <2>1, <2>2, <3>1
  <2>3. CASE m > 0
    <3>1. V[1] = Q[1]
      BY <1>7, <2>3
    <3>2. QED
      BY <1>3, <1>4, <2>1, <3>1
  <2>4. QED
    BY <2>2, <2>3
<1>9. ASSUME NEW i \in 1..m + n
      PROVE  Leads(f, V[i], W[i], V[i + 1])
  <2>1. CASE i < m
    <3>1. PICK j \in 1..m : j = i + 1
      BY <2>1
    <3>2. V[i] = Q[i] /\ V[j] = Q[j] /\ W[i] = P[i]
      <4>1. i \in 1..m
        BY <2>1
      <4>2. W[i] = P[i]
        BY <1>6, <4>1
      <4>3. V[i] = Q[i] /\ V[j] = Q[j]
        BY <1>7, <2>1, <3>1
      <4>4. QED
        BY <4>2, <4>3
    <3>3. Leads(f, Q[i], P[i], Q[i + 1])
      BY <1>3, <2>1
    <3>4. QED
      BY <3>1, <3>2, <3>3
  <2>2. CASE i = m
    <3>1. PICK j \in 1..m + n + 1 : j = i + 1 /\ j > m /\ j - m = 1
      BY <2>2
    <3>2. V[i] = Q[i] /\ V[j] = T[1] /\ W[i] = P[i]
      <4>1. i \in 1..m
        BY <2>2
      <4>2. W[i] = P[i]
        BY <1>6, <4>1
      <4>3. V[i] = Q[i]
        BY <1>7, <2>2
      <4>4. V[j] = T[1]
        BY <1>7, <3>1
      <4>5. QED
        BY <4>2, <4>3, <4>4
    <3>3. Leads(f, Q[i], P[i], T[1])
      BY <1>3, <1>4, <2>2
    <3>4. QED
      BY <3>1, <3>2, <3>3
  <2>3. CASE i > m
    <3>1. PICK j \in 1..n : j = i - m
      BY <2>3
    <3>2. PICK l \in 1..m + n + 1 : l = i + 1 /\ l > m /\ l - m = j + 1
      BY <3>1
    <3>3. V[i] = T[j]
      BY <1>7, <2>3, <3>1
    <3>4. V[l] = T[j + 1]
      BY <1>7, <3>2
    <3>5. W[i] = R[j]
      <4>1. i \in m + 1..m + n
        BY <2>3
      <4>2. QED
        BY <1>6, <3>1, <4>1
    <3>6. QED
      BY <1>4, <3>2, <3>3, <3>4, <3>5
  <2>4. QED
    BY <2>1, <2>2, <2>3
<1>10. \A i \in 1..m + n : Leads(f, V[i], W[i], V[i + 1])
  BY <1>9
<1>11. m + n \in Nat
  BY <1>1, <1>2
<1>12. Goes(f, h, W, m + n, k)
  BY <1>6, <1>8, <1>10, <1>11 DEF Goes
<1>13. QED
  BY <1>5, <1>12

\* noauthlogin().
LEMMA noauth_login_goes ==
  Goes("noauth_login", Account({}, {}, {}, 0, "asked"), noauth_login, 2,
       Account({}, {}, {}, 1, "left"))
<1>1. PICK P : P = noauth_login
  OBVIOUS
<1>2. Len(P) = 2 /\ P = [i \in 1..2 |-> P[i]]
  BY <1>1 DEF noauth_login
<1>3. Leads("noauth_login", Account({}, {}, {}, 0, "asked"), P[1],
            Account({}, {}, {}, 1, "asked"))
  <2>1. P[1] = Send("login", "none", FALSE, Plain)
    BY <1>1 DEF noauth_login
  <2>2. Sendable("noauth_login", 0, "asked", "login", Plain)
    BY DEF Sendable, Changes, NewBy, Rounds, Plain, With, NoField, Field
  <2>3. PICK n, next : n \in Nat /\ n = 0 /\ next = 1 /\ next = n + 1
    OBVIOUS
  <2>4. PICK fields : fields = Plain
    OBVIOUS
  <2>5. Sendable("noauth_login", n, "asked", "login", fields)
    BY <2>2, <2>3, <2>4
  <2>6. Leads("noauth_login", Account({}, {}, {}, n, "asked"),
              Send("login", "none", FALSE, fields),
              Account({}, {}, {}, next, "asked"))
    BY <2>3, <2>5, SendLeads, FreesFacts DEF Pointers, Stages, Ciphers
  <2>7. QED
    BY <2>1, <2>3, <2>4, <2>6
<1>4. Leads("noauth_login", Account({}, {}, {}, 1, "asked"), P[2],
            Account({}, {}, {}, 1, "left"))
  <2>1. P[2] = Leave({})
    BY <1>1 DEF noauth_login
  <2>2. QED
    BY <2>1, LeaveLeads, FreesFacts DEF Pointers, Stages, Ciphers
<1>5. PICK Q : Q = << Account({}, {}, {}, 0, "asked"),
                      Account({}, {}, {}, 1, "asked"),
                      Account({}, {}, {}, 1, "left") >>
  OBVIOUS
<1>6. /\ Q[1] = Account({}, {}, {}, 0, "asked")
      /\ Q[2] = Account({}, {}, {}, 1, "asked")
      /\ Q[3] = Account({}, {}, {}, 1, "left")
  BY <1>5
<1>7. ASSUME NEW k \in 1..2
      PROVE  Leads("noauth_login", Q[k], P[k], Q[k + 1])
  <2>1. k = 1 \/ k = 2
    OBVIOUS
  <2>2. QED
    BY <1>6, <2>1, <1>3, <1>4
<1>8. Goes("noauth_login", Q[1], P, 2, Q[3])
  BY <1>2, <1>7 DEF Goes
<1>9. QED
  BY <1>1, <1>6, <1>8

\* cleartxt_login().
LEMMA cleartxt_login_goes ==
  Goes("cleartxt_login", Account({}, {}, {}, 0, "asked"), cleartxt_login, 3,
       Account({"ai"}, {}, {}, 1, "left"))
<1>1. PICK P : P = cleartxt_login
  OBVIOUS
<1>2. Len(P) = 3 /\ P = [i \in 1..3 |-> P[i]]
  BY <1>1 DEF cleartxt_login
<1>3. Leads("cleartxt_login", Account({}, {}, {}, 0, "asked"), P[1],
            Account({"ai"}, {}, {}, 0, "asked"))
  <2>1. P[1] = Alloc("ai", {})
    BY <1>1 DEF cleartxt_login
  <2>2. QED
    BY <2>1, AllocLeads, FreesFacts DEF Pointers, Stages, Ciphers
<1>4. Leads("cleartxt_login", Account({"ai"}, {}, {}, 0, "asked"), P[2],
            Account({"ai"}, {}, {}, 1, "asked"))
  <2>1. P[2] = Send("login", "ai", FALSE, [With("old") EXCEPT !.at = Field(16, "even")])
    BY <1>1 DEF cleartxt_login
  <2>2. Sendable("cleartxt_login", 0, "asked", "login",
          [With("old") EXCEPT !.at = Field(16, "even")])
    BY DEF Sendable, Changes, NewBy, Rounds, Plain, With, NoField, Field
  <2>3. PICK n, next : n \in Nat /\ n = 0 /\ next = 1 /\ next = n + 1
    OBVIOUS
  <2>4. PICK fields : fields = [With("old") EXCEPT !.at = Field(16, "even")]
    OBVIOUS
  <2>5. Sendable("cleartxt_login", n, "asked", "login", fields)
    BY <2>2, <2>3, <2>4
  <2>6. Leads("cleartxt_login", Account({"ai"}, {}, {}, n, "asked"),
              Send("login", "ai", FALSE, fields),
              Account({"ai"}, {}, {}, next, "asked"))
    BY <2>3, <2>5, SendLeads, FreesFacts DEF Pointers, Stages, Ciphers
  <2>7. QED
    BY <2>1, <2>3, <2>4, <2>6
<1>5. Leads("cleartxt_login", Account({"ai"}, {}, {}, 1, "asked"), P[3],
            Account({"ai"}, {}, {}, 1, "left"))
  <2>1. P[3] = Leave({})
    BY <1>1 DEF cleartxt_login
  <2>2. QED
    BY <2>1, LeaveLeads, FreesFacts DEF Pointers, Stages, Ciphers
<1>6. PICK Q : Q = << Account({}, {}, {}, 0, "asked"),
                      Account({"ai"}, {}, {}, 0, "asked"),
                      Account({"ai"}, {}, {}, 1, "asked"),
                      Account({"ai"}, {}, {}, 1, "left") >>
  OBVIOUS
<1>7. /\ Q[1] = Account({}, {}, {}, 0, "asked")
      /\ Q[2] = Account({"ai"}, {}, {}, 0, "asked")
      /\ Q[3] = Account({"ai"}, {}, {}, 1, "asked")
      /\ Q[4] = Account({"ai"}, {}, {}, 1, "left")
  BY <1>6
<1>8. ASSUME NEW k \in 1..3
      PROVE  Leads("cleartxt_login", Q[k], P[k], Q[k + 1])
  <2>1. k = 1 \/ k = 2 \/ k = 3
    OBVIOUS
  <2>2. QED
    BY <1>7, <2>1, <1>3, <1>4, <1>5
<1>9. Goes("cleartxt_login", Q[1], P, 3, Q[4])
  BY <1>2, <1>8 DEF Goes
<1>10. QED
  BY <1>1, <1>7, <1>9

\* cleartxt_passwd().
LEMMA cleartxt_passwd_goes ==
  Goes("cleartxt_passwd", Account({}, {}, {}, 0, "asked"), cleartxt_passwd, 3,
       Account({"ai"}, {}, {}, 1, "left"))
<1>1. PICK P : P = cleartxt_passwd
  OBVIOUS
<1>2. Len(P) = 3 /\ P = [i \in 1..3 |-> P[i]]
  BY <1>1 DEF cleartxt_passwd
<1>3. Leads("cleartxt_passwd", Account({}, {}, {}, 0, "asked"), P[1],
            Account({"ai"}, {}, {}, 0, "asked"))
  <2>1. P[1] = Alloc("ai", {})
    BY <1>1 DEF cleartxt_passwd
  <2>2. QED
    BY <2>1, AllocLeads, FreesFacts DEF Pointers, Stages, Ciphers
<1>4. Leads("cleartxt_passwd", Account({"ai"}, {}, {}, 0, "asked"), P[2],
            Account({"ai"}, {}, {}, 1, "asked"))
  <2>1. P[2] = Send("passwd", "ai", FALSE, [With("none") EXCEPT !.new = "new",
          !.at = Field(16, "even")])
    BY <1>1 DEF cleartxt_passwd
  <2>2. Sendable("cleartxt_passwd", 0, "asked", "passwd",
          [With("none") EXCEPT !.new = "new", !.at = Field(16, "even")])
    BY DEF Sendable, Changes, NewBy, Rounds, Plain, With, NoField, Field
  <2>3. PICK n, next : n \in Nat /\ n = 0 /\ next = 1 /\ next = n + 1
    OBVIOUS
  <2>4. PICK fields : fields = [With("none") EXCEPT !.new = "new", !.at = Field(16, "even")]
    OBVIOUS
  <2>5. Sendable("cleartxt_passwd", n, "asked", "passwd", fields)
    BY <2>2, <2>3, <2>4
  <2>6. Leads("cleartxt_passwd", Account({"ai"}, {}, {}, n, "asked"),
              Send("passwd", "ai", FALSE, fields),
              Account({"ai"}, {}, {}, next, "asked"))
    BY <2>3, <2>5, SendLeads, FreesFacts DEF Pointers, Stages, Ciphers
  <2>7. QED
    BY <2>1, <2>3, <2>4, <2>6
<1>5. Leads("cleartxt_passwd", Account({"ai"}, {}, {}, 1, "asked"), P[3],
            Account({"ai"}, {}, {}, 1, "left"))
  <2>1. P[3] = Leave({})
    BY <1>1 DEF cleartxt_passwd
  <2>2. QED
    BY <2>1, LeaveLeads, FreesFacts DEF Pointers, Stages, Ciphers
<1>6. PICK Q : Q = << Account({}, {}, {}, 0, "asked"),
                      Account({"ai"}, {}, {}, 0, "asked"),
                      Account({"ai"}, {}, {}, 1, "asked"),
                      Account({"ai"}, {}, {}, 1, "left") >>
  OBVIOUS
<1>7. /\ Q[1] = Account({}, {}, {}, 0, "asked")
      /\ Q[2] = Account({"ai"}, {}, {}, 0, "asked")
      /\ Q[3] = Account({"ai"}, {}, {}, 1, "asked")
      /\ Q[4] = Account({"ai"}, {}, {}, 1, "left")
  BY <1>6
<1>8. ASSUME NEW k \in 1..3
      PROVE  Leads("cleartxt_passwd", Q[k], P[k], Q[k + 1])
  <2>1. k = 1 \/ k = 2 \/ k = 3
    OBVIOUS
  <2>2. QED
    BY <1>7, <2>1, <1>3, <1>4, <1>5
<1>9. Goes("cleartxt_passwd", Q[1], P, 3, Q[4])
  BY <1>2, <1>8 DEF Goes
<1>10. QED
  BY <1>1, <1>7, <1>9

\* randnum_login().
LEMMA randnum_login_goes ==
  Goes("randnum_login", Account({}, {}, {}, 0, "asked"), randnum_login, 11,
       Account({"rx"}, {}, {"a"}, 2, "left"))
<1>1. PICK P : P = randnum_login
  OBVIOUS
<1>2. Len(P) = 11 /\ P = [i \in 1..11 |-> P[i]]
  BY <1>1 DEF randnum_login
<1>3. Leads("randnum_login", Account({}, {}, {}, 0, "asked"), P[1],
            Account({"rx"}, {}, {}, 0, "asked"))
  <2>1. P[1] = Alloc("rx", {})
    BY <1>1 DEF randnum_login
  <2>2. QED
    BY <2>1, AllocLeads, FreesFacts DEF Pointers, Stages, Ciphers
<1>4. Leads("randnum_login", Account({"rx"}, {}, {}, 0, "asked"), P[2],
            Account({"ai", "rx"}, {}, {}, 0, "asked"))
  <2>1. P[2] = Alloc("ai", {})
    BY <1>1 DEF randnum_login
  <2>2. QED
    BY <2>1, AllocLeads, FreesFacts DEF Pointers, Stages, Ciphers
<1>5. Leads("randnum_login", Account({"ai", "rx"}, {}, {}, 0, "asked"), P[3],
            Account({"ai", "rx"}, {}, {}, 1, "asked"))
  <2>1. P[3] = Send("login", "ai", TRUE, Plain)
    BY <1>1 DEF randnum_login
  <2>2. Sendable("randnum_login", 0, "asked", "login", Plain)
    BY DEF Sendable, Changes, NewBy, Rounds, Plain, With, NoField, Field
  <2>3. PICK n, next : n \in Nat /\ n = 0 /\ next = 1 /\ next = n + 1
    OBVIOUS
  <2>4. PICK fields : fields = Plain
    OBVIOUS
  <2>5. Sendable("randnum_login", n, "asked", "login", fields)
    BY <2>2, <2>3, <2>4
  <2>6. Leads("randnum_login", Account({"ai", "rx"}, {}, {}, n, "asked"),
              Send("login", "ai", TRUE, fields),
              Account({"ai", "rx"}, {}, {}, next, "asked"))
    BY <2>3, <2>5, ReceiveLeads, FreesFacts DEF Pointers, Stages, Ciphers
  <2>7. QED
    BY <2>1, <2>3, <2>4, <2>6
<1>6. Leads("randnum_login", Account({"ai", "rx"}, {}, {}, 1, "asked"), P[4],
            Account({"rx"}, {}, {}, 1, "asked"))
  <2>1. P[4] = Free("ai")
    BY <1>1 DEF randnum_login
  <2>2. PICK live, less :
              live \in SUBSET Pointers /\ live = {"ai", "rx"} /\ less = {"rx"} /\ less = live \ {"ai"}
    BY DEF Pointers
  <2>3. live \subseteq Frees("randnum_login") /\ "ai" \in Pointers
    BY <2>2, FreesFacts DEF Pointers
  <2>4. Leads("randnum_login", Account(live, {}, {}, 1, "asked"), Free("ai"),
          Account(less, {}, {}, 1, "asked"))
    BY <2>2, <2>3, FreeLeads DEF Stages
  <2>5. QED
    BY <2>1, <2>2, <2>4
<1>7. Leads("randnum_login", Account({"rx"}, {}, {}, 1, "asked"), P[5],
            Account({"rx"}, {}, {}, 1, "passed"))
  <2>1. P[5] = Continue({})
    BY <1>1 DEF randnum_login
  <2>2. QED
    BY <2>1, ContinueLeads, FreesFacts DEF Pointers, Stages, Ciphers
<1>8. Leads("randnum_login", Account({"rx"}, {}, {}, 1, "passed"), P[6],
            Account({"rx"}, {}, {}, 1, "taken"))
  <2>1. P[6] = TakeId
    BY <1>1 DEF randnum_login
  <2>2. QED
    BY <2>1, TakeIdLeads, FreesFacts DEF Pointers, Stages, Ciphers
<1>9. Leads("randnum_login", Account({"rx"}, {}, {}, 1, "taken"), P[7],
            Account({"rx"}, {}, {"a"}, 1, "taken"))
  <2>1. P[7] = Open("a", {})
    BY <1>1 DEF randnum_login
  <2>2. QED
    BY <2>1, OpenLeads, FreesFacts DEF Pointers, Stages, Ciphers
<1>10. Leads("randnum_login", Account({"rx"}, {}, {"a"}, 1, "taken"), P[8],
             Account({"rx"}, {}, {"a"}, 1, "taken"))
  <2>1. P[8] = Crypt("a", {}, {}, {"a"})
    BY <1>1 DEF randnum_login
  <2>2. QED
    BY <2>1, CryptLeads, FreesFacts DEF Pointers, Stages, Ciphers
<1>11. Leads("randnum_login", Account({"rx"}, {}, {"a"}, 1, "taken"), P[9],
             Account({"rx"}, {}, {"a"}, 1, "taken"))
  <2>1. P[9] = Crypt("a", {"rx"}, {}, {"a"})
    BY <1>1 DEF randnum_login
  <2>2. QED
    BY <2>1, CryptLeads, FreesFacts DEF Pointers, Stages, Ciphers
<1>12. Leads("randnum_login", Account({"rx"}, {}, {"a"}, 1, "taken"), P[10],
             Account({"rx"}, {}, {"a"}, 2, "asked"))
  <2>1. P[10] = Send("cont", "rx", FALSE, [With("old") EXCEPT !.id = "host"])
    BY <1>1 DEF randnum_login
  <2>2. Sendable("randnum_login", 1, "taken", "cont", [With("old") EXCEPT !.id = "host"])
    BY DEF Sendable, Changes, NewBy, Rounds, Plain, With, NoField, Field
  <2>3. PICK n, next : n \in Nat /\ n = 1 /\ next = 2 /\ next = n + 1
    OBVIOUS
  <2>4. PICK fields : fields = [With("old") EXCEPT !.id = "host"]
    OBVIOUS
  <2>5. Sendable("randnum_login", n, "taken", "cont", fields)
    BY <2>2, <2>3, <2>4
  <2>6. Leads("randnum_login", Account({"rx"}, {}, {"a"}, n, "taken"),
              Send("cont", "rx", FALSE, fields),
              Account({"rx"}, {}, {"a"}, next, "asked"))
    BY <2>3, <2>5, SendLeads, FreesFacts DEF Pointers, Stages, Ciphers
  <2>7. QED
    BY <2>1, <2>3, <2>4, <2>6
<1>13. Leads("randnum_login", Account({"rx"}, {}, {"a"}, 2, "asked"), P[11],
             Account({"rx"}, {}, {"a"}, 2, "left"))
  <2>1. P[11] = Leave({"a"})
    BY <1>1 DEF randnum_login
  <2>2. QED
    BY <2>1, LeaveLeads, FreesFacts DEF Pointers, Stages, Ciphers
<1>14. PICK Q : Q = << Account({}, {}, {}, 0, "asked"),
                       Account({"rx"}, {}, {}, 0, "asked"),
                       Account({"ai", "rx"}, {}, {}, 0, "asked"),
                       Account({"ai", "rx"}, {}, {}, 1, "asked"),
                       Account({"rx"}, {}, {}, 1, "asked"),
                       Account({"rx"}, {}, {}, 1, "passed"),
                       Account({"rx"}, {}, {}, 1, "taken"),
                       Account({"rx"}, {}, {"a"}, 1, "taken"),
                       Account({"rx"}, {}, {"a"}, 1, "taken"),
                       Account({"rx"}, {}, {"a"}, 1, "taken"),
                       Account({"rx"}, {}, {"a"}, 2, "asked"),
                       Account({"rx"}, {}, {"a"}, 2, "left") >>
  OBVIOUS
<1>15. /\ Q[1] = Account({}, {}, {}, 0, "asked")
       /\ Q[2] = Account({"rx"}, {}, {}, 0, "asked")
       /\ Q[3] = Account({"ai", "rx"}, {}, {}, 0, "asked")
       /\ Q[4] = Account({"ai", "rx"}, {}, {}, 1, "asked")
       /\ Q[5] = Account({"rx"}, {}, {}, 1, "asked")
       /\ Q[6] = Account({"rx"}, {}, {}, 1, "passed")
       /\ Q[7] = Account({"rx"}, {}, {}, 1, "taken")
       /\ Q[8] = Account({"rx"}, {}, {"a"}, 1, "taken")
       /\ Q[9] = Account({"rx"}, {}, {"a"}, 1, "taken")
       /\ Q[10] = Account({"rx"}, {}, {"a"}, 1, "taken")
       /\ Q[11] = Account({"rx"}, {}, {"a"}, 2, "asked")
       /\ Q[12] = Account({"rx"}, {}, {"a"}, 2, "left")
  BY <1>14
<1>16. ASSUME NEW k \in 1..11
       PROVE  Leads("randnum_login", Q[k], P[k], Q[k + 1])
  <2>1. k = 1 \/ k = 2 \/ k = 3 \/ k = 4 \/ k = 5 \/ k = 6 \/ k = 7 \/ k = 8 \/ k = 9 \/ k = 10
          \/ k = 11
    OBVIOUS
  <2>2. QED
    BY <1>15, <2>1, <1>3, <1>4, <1>5, <1>6, <1>7, <1>8, <1>9, <1>10, <1>11, <1>12, <1>13
<1>17. Goes("randnum_login", Q[1], P, 11, Q[12])
  BY <1>2, <1>16 DEF Goes
<1>18. QED
  BY <1>1, <1>15, <1>17

\* randnum_passwd().
LEMMA randnum_passwd_start_goes ==
  Goes("randnum_passwd", Account({}, {}, {}, 0, "asked"),
    << Alloc("ai", {}), Open("a", {}), Open("b", {"a"}) >>, 3,
       Account({"ai"}, {}, {"a", "b"}, 0, "asked"))
<1>1. PICK P : P = << Alloc("ai", {}), Open("a", {}), Open("b", {"a"}) >>
  OBVIOUS
<1>2. Len(P) = 3 /\ P = [i \in 1..3 |-> P[i]]
  BY <1>1
<1>3. Leads("randnum_passwd", Account({}, {}, {}, 0, "asked"), P[1],
            Account({"ai"}, {}, {}, 0, "asked"))
  <2>1. P[1] = Alloc("ai", {})
    BY <1>1
  <2>2. QED
    BY <2>1, AllocLeads, FreesFacts DEF Pointers, Stages, Ciphers
<1>4. Leads("randnum_passwd", Account({"ai"}, {}, {}, 0, "asked"), P[2],
            Account({"ai"}, {}, {"a"}, 0, "asked"))
  <2>1. P[2] = Open("a", {})
    BY <1>1
  <2>2. QED
    BY <2>1, OpenLeads, FreesFacts DEF Pointers, Stages, Ciphers
<1>5. Leads("randnum_passwd", Account({"ai"}, {}, {"a"}, 0, "asked"), P[3],
            Account({"ai"}, {}, {"a", "b"}, 0, "asked"))
  <2>1. P[3] = Open("b", {"a"})
    BY <1>1
  <2>2. QED
    BY <2>1, OpenLeads, FreesFacts DEF Pointers, Stages, Ciphers
<1>6. PICK Q : Q = << Account({}, {}, {}, 0, "asked"),
                      Account({"ai"}, {}, {}, 0, "asked"),
                      Account({"ai"}, {}, {"a"}, 0, "asked"),
                      Account({"ai"}, {}, {"a", "b"}, 0, "asked") >>
  OBVIOUS
<1>7. /\ Q[1] = Account({}, {}, {}, 0, "asked")
      /\ Q[2] = Account({"ai"}, {}, {}, 0, "asked")
      /\ Q[3] = Account({"ai"}, {}, {"a"}, 0, "asked")
      /\ Q[4] = Account({"ai"}, {}, {"a", "b"}, 0, "asked")
  BY <1>6
<1>8. ASSUME NEW k \in 1..3
      PROVE  Leads("randnum_passwd", Q[k], P[k], Q[k + 1])
  <2>1. k = 1 \/ k = 2 \/ k = 3
    OBVIOUS
  <2>2. QED
    BY <1>7, <2>1, <1>3, <1>4, <1>5
<1>9. Goes("randnum_passwd", Q[1], P, 3, Q[4])
  BY <1>2, <1>8 DEF Goes
<1>10. QED
  BY <1>1, <1>7, <1>9

\* randnum_passwd(), after its ciphers are open.
LEMMA randnum_passwd_rest_goes ==
  Goes("randnum_passwd", Account({"ai"}, {}, {"a", "b"}, 0, "asked"),
    << Crypt("a", {}, {}, {"a", "b"}), Crypt("b", {}, {}, {"a", "b"}),
                  Crypt("b", {"ai"}, {}, {"a", "b"}), Crypt("a", {"ai"}, {}, {"a", "b"}),
                  Send("passwd", "ai", FALSE, [With("old") EXCEPT !.new = "new",
                    !.at = Field(16, "even")]),
                  Leave({"a", "b"}) >>, 6,
       Account({"ai"}, {}, {"a", "b"}, 1, "left"))
<1>1. PICK P : P = << Crypt("a", {}, {}, {"a", "b"}), Crypt("b", {}, {}, {"a", "b"}),
                  Crypt("b", {"ai"}, {}, {"a", "b"}), Crypt("a", {"ai"}, {}, {"a", "b"}),
                  Send("passwd", "ai", FALSE, [With("old") EXCEPT !.new = "new",
                    !.at = Field(16, "even")]),
                  Leave({"a", "b"}) >>
  OBVIOUS
<1>2. Len(P) = 6 /\ P = [i \in 1..6 |-> P[i]]
  BY <1>1
<1>3. Leads("randnum_passwd", Account({"ai"}, {}, {"a", "b"}, 0, "asked"), P[1],
            Account({"ai"}, {}, {"a", "b"}, 0, "asked"))
  <2>1. P[1] = Crypt("a", {}, {}, {"a", "b"})
    BY <1>1
  <2>2. QED
    BY <2>1, CryptLeads, FreesFacts DEF Pointers, Stages, Ciphers
<1>4. Leads("randnum_passwd", Account({"ai"}, {}, {"a", "b"}, 0, "asked"), P[2],
            Account({"ai"}, {}, {"a", "b"}, 0, "asked"))
  <2>1. P[2] = Crypt("b", {}, {}, {"a", "b"})
    BY <1>1
  <2>2. QED
    BY <2>1, CryptLeads, FreesFacts DEF Pointers, Stages, Ciphers
<1>5. Leads("randnum_passwd", Account({"ai"}, {}, {"a", "b"}, 0, "asked"), P[3],
            Account({"ai"}, {}, {"a", "b"}, 0, "asked"))
  <2>1. P[3] = Crypt("b", {"ai"}, {}, {"a", "b"})
    BY <1>1
  <2>2. QED
    BY <2>1, CryptLeads, FreesFacts DEF Pointers, Stages, Ciphers
<1>6. Leads("randnum_passwd", Account({"ai"}, {}, {"a", "b"}, 0, "asked"), P[4],
            Account({"ai"}, {}, {"a", "b"}, 0, "asked"))
  <2>1. P[4] = Crypt("a", {"ai"}, {}, {"a", "b"})
    BY <1>1
  <2>2. QED
    BY <2>1, CryptLeads, FreesFacts DEF Pointers, Stages, Ciphers
<1>7. Leads("randnum_passwd", Account({"ai"}, {}, {"a", "b"}, 0, "asked"), P[5],
            Account({"ai"}, {}, {"a", "b"}, 1, "asked"))
  <2>1. P[5] = Send("passwd", "ai", FALSE, [With("old") EXCEPT !.new = "new",
          !.at = Field(16, "even")])
    BY <1>1
  <2>2. Sendable("randnum_passwd", 0, "asked", "passwd",
          [With("old") EXCEPT !.new = "new", !.at = Field(16, "even")])
    BY DEF Sendable, Changes, NewBy, Rounds, Plain, With, NoField, Field
  <2>3. PICK n, next : n \in Nat /\ n = 0 /\ next = 1 /\ next = n + 1
    OBVIOUS
  <2>4. PICK fields : fields = [With("old") EXCEPT !.new = "new", !.at = Field(16, "even")]
    OBVIOUS
  <2>5. Sendable("randnum_passwd", n, "asked", "passwd", fields)
    BY <2>2, <2>3, <2>4
  <2>6. Leads("randnum_passwd", Account({"ai"}, {}, {"a", "b"}, n, "asked"),
              Send("passwd", "ai", FALSE, fields),
              Account({"ai"}, {}, {"a", "b"}, next, "asked"))
    BY <2>3, <2>5, SendLeads, FreesFacts DEF Pointers, Stages, Ciphers
  <2>7. QED
    BY <2>1, <2>3, <2>4, <2>6
<1>8. Leads("randnum_passwd", Account({"ai"}, {}, {"a", "b"}, 1, "asked"), P[6],
            Account({"ai"}, {}, {"a", "b"}, 1, "left"))
  <2>1. P[6] = Leave({"a", "b"})
    BY <1>1
  <2>2. QED
    BY <2>1, LeaveLeads, FreesFacts DEF Pointers, Stages, Ciphers
<1>9. PICK Q : Q = << Account({"ai"}, {}, {"a", "b"}, 0, "asked"),
                      Account({"ai"}, {}, {"a", "b"}, 0, "asked"),
                      Account({"ai"}, {}, {"a", "b"}, 0, "asked"),
                      Account({"ai"}, {}, {"a", "b"}, 0, "asked"),
                      Account({"ai"}, {}, {"a", "b"}, 0, "asked"),
                      Account({"ai"}, {}, {"a", "b"}, 1, "asked"),
                      Account({"ai"}, {}, {"a", "b"}, 1, "left") >>
  OBVIOUS
<1>10. /\ Q[1] = Account({"ai"}, {}, {"a", "b"}, 0, "asked")
       /\ Q[2] = Account({"ai"}, {}, {"a", "b"}, 0, "asked")
       /\ Q[3] = Account({"ai"}, {}, {"a", "b"}, 0, "asked")
       /\ Q[4] = Account({"ai"}, {}, {"a", "b"}, 0, "asked")
       /\ Q[5] = Account({"ai"}, {}, {"a", "b"}, 0, "asked")
       /\ Q[6] = Account({"ai"}, {}, {"a", "b"}, 1, "asked")
       /\ Q[7] = Account({"ai"}, {}, {"a", "b"}, 1, "left")
  BY <1>9
<1>11. ASSUME NEW k \in 1..6
       PROVE  Leads("randnum_passwd", Q[k], P[k], Q[k + 1])
  <2>1. k = 1 \/ k = 2 \/ k = 3 \/ k = 4 \/ k = 5 \/ k = 6
    OBVIOUS
  <2>2. QED
    BY <1>10, <2>1, <1>3, <1>4, <1>5, <1>6, <1>7, <1>8
<1>12. Goes("randnum_passwd", Q[1], P, 6, Q[7])
  BY <1>2, <1>11 DEF Goes
<1>13. QED
  BY <1>1, <1>10, <1>12

\* randnum2_login().
LEMMA randnum2_login_goes ==
  Goes("randnum2_login", Account({}, {}, {}, 0, "asked"), randnum2_login, 16,
       Account({"ai", "rx"}, {}, {"a"}, 2, "left"))
<1>1. PICK P : P = randnum2_login
  OBVIOUS
<1>2. Len(P) = 16 /\ P = [i \in 1..16 |-> P[i]]
  BY <1>1 DEF randnum2_login
<1>3. Leads("randnum2_login", Account({}, {}, {}, 0, "asked"), P[1],
            Account({"rx"}, {}, {}, 0, "asked"))
  <2>1. P[1] = Alloc("rx", {})
    BY <1>1 DEF randnum2_login
  <2>2. QED
    BY <2>1, AllocLeads, FreesFacts DEF Pointers, Stages, Ciphers
<1>4. Leads("randnum2_login", Account({"rx"}, {}, {}, 0, "asked"), P[2],
            Account({"ai", "rx"}, {}, {}, 0, "asked"))
  <2>1. P[2] = Alloc("ai", {})
    BY <1>1 DEF randnum2_login
  <2>2. QED
    BY <2>1, AllocLeads, FreesFacts DEF Pointers, Stages, Ciphers
<1>5. Leads("randnum2_login", Account({"ai", "rx"}, {}, {}, 0, "asked"), P[3],
            Account({"ai", "rx"}, {}, {}, 1, "asked"))
  <2>1. P[3] = Send("login", "ai", TRUE, Plain)
    BY <1>1 DEF randnum2_login
  <2>2. Sendable("randnum2_login", 0, "asked", "login", Plain)
    BY DEF Sendable, Changes, NewBy, Rounds, Plain, With, NoField, Field
  <2>3. PICK n, next : n \in Nat /\ n = 0 /\ next = 1 /\ next = n + 1
    OBVIOUS
  <2>4. PICK fields : fields = Plain
    OBVIOUS
  <2>5. Sendable("randnum2_login", n, "asked", "login", fields)
    BY <2>2, <2>3, <2>4
  <2>6. Leads("randnum2_login", Account({"ai", "rx"}, {}, {}, n, "asked"),
              Send("login", "ai", TRUE, fields),
              Account({"ai", "rx"}, {}, {}, next, "asked"))
    BY <2>3, <2>5, ReceiveLeads, FreesFacts DEF Pointers, Stages, Ciphers
  <2>7. QED
    BY <2>1, <2>3, <2>4, <2>6
<1>6. Leads("randnum2_login", Account({"ai", "rx"}, {}, {}, 1, "asked"), P[4],
            Account({"rx"}, {}, {}, 1, "asked"))
  <2>1. P[4] = Free("ai")
    BY <1>1 DEF randnum2_login
  <2>2. PICK live, less :
              live \in SUBSET Pointers /\ live = {"ai", "rx"} /\ less = {"rx"} /\ less = live \ {"ai"}
    BY DEF Pointers
  <2>3. live \subseteq Frees("randnum2_login") /\ "ai" \in Pointers
    BY <2>2, FreesFacts DEF Pointers
  <2>4. Leads("randnum2_login", Account(live, {}, {}, 1, "asked"), Free("ai"),
          Account(less, {}, {}, 1, "asked"))
    BY <2>2, <2>3, FreeLeads DEF Stages
  <2>5. QED
    BY <2>1, <2>2, <2>4
<1>7. Leads("randnum2_login", Account({"rx"}, {}, {}, 1, "asked"), P[5],
            Account({"rx"}, {}, {}, 1, "passed"))
  <2>1. P[5] = Continue({})
    BY <1>1 DEF randnum2_login
  <2>2. QED
    BY <2>1, ContinueLeads, FreesFacts DEF Pointers, Stages, Ciphers
<1>8. Leads("randnum2_login", Account({"rx"}, {}, {}, 1, "passed"), P[6],
            Account({"rx"}, {}, {}, 1, "taken"))
  <2>1. P[6] = TakeId
    BY <1>1 DEF randnum2_login
  <2>2. QED
    BY <2>1, TakeIdLeads, FreesFacts DEF Pointers, Stages, Ciphers
<1>9. Leads("randnum2_login", Account({"rx"}, {}, {}, 1, "taken"), P[7],
            Account({"rx"}, {}, {"a"}, 1, "taken"))
  <2>1. P[7] = Open("a", {})
    BY <1>1 DEF randnum2_login
  <2>2. QED
    BY <2>1, OpenLeads, FreesFacts DEF Pointers, Stages, Ciphers
<1>10. Leads("randnum2_login", Account({"rx"}, {}, {"a"}, 1, "taken"), P[8],
             Account({"rx"}, {}, {"a"}, 1, "taken"))
  <2>1. P[8] = Crypt("a", {}, {}, {"a"})
    BY <1>1 DEF randnum2_login
  <2>2. QED
    BY <2>1, CryptLeads, FreesFacts DEF Pointers, Stages, Ciphers
<1>11. Leads("randnum2_login", Account({"rx"}, {}, {"a"}, 1, "taken"), P[9],
             Account({"ai", "rx"}, {}, {"a"}, 1, "taken"))
  <2>1. P[9] = Alloc("ai", {"a"})
    BY <1>1 DEF randnum2_login
  <2>2. QED
    BY <2>1, AllocLeads, FreesFacts DEF Pointers, Stages, Ciphers
<1>12. Leads("randnum2_login", Account({"ai", "rx"}, {}, {"a"}, 1, "taken"), P[10],
             Account({"ai"}, {}, {"a"}, 1, "taken"))
  <2>1. P[10] = Crypt("a", {"ai", "rx"}, {"rx"}, {"a"})
    BY <1>1 DEF randnum2_login
  <2>2. QED
    BY <2>1, CryptLeads, FreesFacts DEF Pointers, Stages, Ciphers
<1>13. Leads("randnum2_login", Account({"ai"}, {}, {"a"}, 1, "taken"), P[11],
             Account({"ai", "rx"}, {}, {"a"}, 1, "taken"))
  <2>1. P[11] = Alloc("rx", {"a"})
    BY <1>1 DEF randnum2_login
  <2>2. QED
    BY <2>1, AllocLeads, FreesFacts DEF Pointers, Stages, Ciphers
<1>14. Leads("randnum2_login", Account({"ai", "rx"}, {}, {"a"}, 1, "taken"), P[12],
             Account({"ai", "rx"}, {}, {"a"}, 2, "asked"))
  <2>1. P[12] = Send("cont", "ai", TRUE, [With("old") EXCEPT !.id = "host"])
    BY <1>1 DEF randnum2_login
  <2>2. Sendable("randnum2_login", 1, "taken", "cont", [With("old") EXCEPT !.id = "host"])
    BY DEF Sendable, Changes, NewBy, Rounds, Plain, With, NoField, Field
  <2>3. PICK n, next : n \in Nat /\ n = 1 /\ next = 2 /\ next = n + 1
    OBVIOUS
  <2>4. PICK fields : fields = [With("old") EXCEPT !.id = "host"]
    OBVIOUS
  <2>5. Sendable("randnum2_login", n, "taken", "cont", fields)
    BY <2>2, <2>3, <2>4
  <2>6. Leads("randnum2_login", Account({"ai", "rx"}, {}, {"a"}, n, "taken"),
              Send("cont", "ai", TRUE, fields),
              Account({"ai", "rx"}, {}, {"a"}, next, "asked"))
    BY <2>3, <2>5, ReceiveLeads, FreesFacts DEF Pointers, Stages, Ciphers
  <2>7. QED
    BY <2>1, <2>3, <2>4, <2>6
<1>15. Leads("randnum2_login", Account({"ai", "rx"}, {}, {"a"}, 2, "asked"), P[13],
             Account({"ai", "rx"}, {}, {"a"}, 2, "asked"))
  <2>1. P[13] = OnlyIfDone({"a"})
    BY <1>1 DEF randnum2_login
  <2>2. QED
    BY <2>1, DoneLeads, FreesFacts DEF Pointers, Stages, Ciphers
<1>16. Leads("randnum2_login", Account({"ai", "rx"}, {}, {"a"}, 2, "asked"), P[14],
             Account({"ai", "rx"}, {}, {"a"}, 2, "asked"))
  <2>1. P[14] = Crypt("a", {"ai"}, {}, {"a"})
    BY <1>1 DEF randnum2_login
  <2>2. QED
    BY <2>1, CryptLeads, FreesFacts DEF Pointers, Stages, Ciphers
<1>17. Leads("randnum2_login", Account({"ai", "rx"}, {}, {"a"}, 2, "asked"), P[15],
             Account({"ai", "rx"}, {}, {"a"}, 2, "asked"))
  <2>1. P[15] = Compare
    BY <1>1 DEF randnum2_login
  <2>2. QED
    BY <2>1, CompareLeads, FreesFacts DEF Pointers, Stages, Ciphers
<1>18. Leads("randnum2_login", Account({"ai", "rx"}, {}, {"a"}, 2, "asked"), P[16],
             Account({"ai", "rx"}, {}, {"a"}, 2, "left"))
  <2>1. P[16] = Leave({"a"})
    BY <1>1 DEF randnum2_login
  <2>2. QED
    BY <2>1, LeaveLeads, FreesFacts DEF Pointers, Stages, Ciphers
<1>19. PICK Q : Q = << Account({}, {}, {}, 0, "asked"),
                       Account({"rx"}, {}, {}, 0, "asked"),
                       Account({"ai", "rx"}, {}, {}, 0, "asked"),
                       Account({"ai", "rx"}, {}, {}, 1, "asked"),
                       Account({"rx"}, {}, {}, 1, "asked"),
                       Account({"rx"}, {}, {}, 1, "passed"),
                       Account({"rx"}, {}, {}, 1, "taken"),
                       Account({"rx"}, {}, {"a"}, 1, "taken"),
                       Account({"rx"}, {}, {"a"}, 1, "taken"),
                       Account({"ai", "rx"}, {}, {"a"}, 1, "taken"),
                       Account({"ai"}, {}, {"a"}, 1, "taken"),
                       Account({"ai", "rx"}, {}, {"a"}, 1, "taken"),
                       Account({"ai", "rx"}, {}, {"a"}, 2, "asked"),
                       Account({"ai", "rx"}, {}, {"a"}, 2, "asked"),
                       Account({"ai", "rx"}, {}, {"a"}, 2, "asked"),
                       Account({"ai", "rx"}, {}, {"a"}, 2, "asked"),
                       Account({"ai", "rx"}, {}, {"a"}, 2, "left") >>
  OBVIOUS
<1>20. /\ Q[1] = Account({}, {}, {}, 0, "asked")
       /\ Q[2] = Account({"rx"}, {}, {}, 0, "asked")
       /\ Q[3] = Account({"ai", "rx"}, {}, {}, 0, "asked")
       /\ Q[4] = Account({"ai", "rx"}, {}, {}, 1, "asked")
       /\ Q[5] = Account({"rx"}, {}, {}, 1, "asked")
       /\ Q[6] = Account({"rx"}, {}, {}, 1, "passed")
       /\ Q[7] = Account({"rx"}, {}, {}, 1, "taken")
       /\ Q[8] = Account({"rx"}, {}, {"a"}, 1, "taken")
       /\ Q[9] = Account({"rx"}, {}, {"a"}, 1, "taken")
       /\ Q[10] = Account({"ai", "rx"}, {}, {"a"}, 1, "taken")
       /\ Q[11] = Account({"ai"}, {}, {"a"}, 1, "taken")
       /\ Q[12] = Account({"ai", "rx"}, {}, {"a"}, 1, "taken")
       /\ Q[13] = Account({"ai", "rx"}, {}, {"a"}, 2, "asked")
       /\ Q[14] = Account({"ai", "rx"}, {}, {"a"}, 2, "asked")
       /\ Q[15] = Account({"ai", "rx"}, {}, {"a"}, 2, "asked")
       /\ Q[16] = Account({"ai", "rx"}, {}, {"a"}, 2, "asked")
       /\ Q[17] = Account({"ai", "rx"}, {}, {"a"}, 2, "left")
  BY <1>19
<1>21. ASSUME NEW k \in 1..16
       PROVE  Leads("randnum2_login", Q[k], P[k], Q[k + 1])
  <2>1. k = 1 \/ k = 2 \/ k = 3 \/ k = 4 \/ k = 5 \/ k = 6 \/ k = 7 \/ k = 8 \/ k = 9 \/ k = 10
          \/ k = 11 \/ k = 12 \/ k = 13 \/ k = 14 \/ k = 15 \/ k = 16
    OBVIOUS
  <2>2. QED
    BY <1>20, <2>1, <1>3, <1>4, <1>5, <1>6, <1>7, <1>8, <1>9, <1>10, <1>11, <1>12, <1>13, <1>14,
       <1>15, <1>16, <1>17, <1>18
<1>22. Goes("randnum2_login", Q[1], P, 16, Q[17])
  BY <1>2, <1>21 DEF Goes
<1>23. QED
  BY <1>1, <1>20, <1>22

\* The first request of dhx_login().
LEMMA dhx_login_first_goes ==
  Goes("dhx_login", Account({}, {}, {}, 0, "asked"), dhx_login_first, 5,
       Account({"rx"}, {}, {}, 1, "passed"))
<1>1. PICK P : P = dhx_login_first
  OBVIOUS
<1>2. Len(P) = 5 /\ P = [i \in 1..5 |-> P[i]]
  BY <1>1 DEF dhx_login_first
<1>3. Leads("dhx_login", Account({}, {}, {}, 0, "asked"), P[1],
            Account({"ai"}, {}, {}, 0, "asked"))
  <2>1. P[1] = Alloc("ai", {})
    BY <1>1 DEF dhx_login_first
  <2>2. QED
    BY <2>1, AllocLeads, FreesFacts DEF Pointers, Stages, Ciphers
<1>4. Leads("dhx_login", Account({"ai"}, {}, {}, 0, "asked"), P[2],
            Account({"ai", "rx"}, {}, {}, 0, "asked"))
  <2>1. P[2] = Alloc("rx", {})
    BY <1>1 DEF dhx_login_first
  <2>2. QED
    BY <2>1, AllocLeads, FreesFacts DEF Pointers, Stages, Ciphers
<1>5. Leads("dhx_login", Account({"ai", "rx"}, {}, {}, 0, "asked"), P[3],
            Account({"ai", "rx"}, {}, {}, 1, "asked"))
  <2>1. P[3] = Send("login", "ai", TRUE, [Plain EXCEPT !.at = Field(9, "odd")])
    BY <1>1 DEF dhx_login_first
  <2>2. Sendable("dhx_login", 0, "asked", "login", [Plain EXCEPT !.at = Field(9, "odd")])
    BY DEF Sendable, Changes, NewBy, Rounds, Plain, With, NoField, Field
  <2>3. PICK n, next : n \in Nat /\ n = 0 /\ next = 1 /\ next = n + 1
    OBVIOUS
  <2>4. PICK fields : fields = [Plain EXCEPT !.at = Field(9, "odd")]
    OBVIOUS
  <2>5. Sendable("dhx_login", n, "asked", "login", fields)
    BY <2>2, <2>3, <2>4
  <2>6. Leads("dhx_login", Account({"ai", "rx"}, {}, {}, n, "asked"),
              Send("login", "ai", TRUE, fields),
              Account({"ai", "rx"}, {}, {}, next, "asked"))
    BY <2>3, <2>5, ReceiveLeads, FreesFacts DEF Pointers, Stages, Ciphers
  <2>7. QED
    BY <2>1, <2>3, <2>4, <2>6
<1>6. Leads("dhx_login", Account({"ai", "rx"}, {}, {}, 1, "asked"), P[4],
            Account({"rx"}, {}, {}, 1, "asked"))
  <2>1. P[4] = Free("ai")
    BY <1>1 DEF dhx_login_first
  <2>2. PICK live, less :
              live \in SUBSET Pointers /\ live = {"ai", "rx"} /\ less = {"rx"} /\ less = live \ {"ai"}
    BY DEF Pointers
  <2>3. live \subseteq Frees("dhx_login") /\ "ai" \in Pointers
    BY <2>2, FreesFacts DEF Pointers
  <2>4. Leads("dhx_login", Account(live, {}, {}, 1, "asked"), Free("ai"),
          Account(less, {}, {}, 1, "asked"))
    BY <2>2, <2>3, FreeLeads DEF Stages
  <2>5. QED
    BY <2>1, <2>2, <2>4
<1>7. Leads("dhx_login", Account({"rx"}, {}, {}, 1, "asked"), P[5],
            Account({"rx"}, {}, {}, 1, "passed"))
  <2>1. P[5] = Continue({})
    BY <1>1 DEF dhx_login_first
  <2>2. QED
    BY <2>1, ContinueLeads, FreesFacts DEF Pointers, Stages, Ciphers
<1>8. PICK Q : Q = << Account({}, {}, {}, 0, "asked"),
                      Account({"ai"}, {}, {}, 0, "asked"),
                      Account({"ai", "rx"}, {}, {}, 0, "asked"),
                      Account({"ai", "rx"}, {}, {}, 1, "asked"),
                      Account({"rx"}, {}, {}, 1, "asked"),
                      Account({"rx"}, {}, {}, 1, "passed") >>
  OBVIOUS
<1>9. /\ Q[1] = Account({}, {}, {}, 0, "asked")
      /\ Q[2] = Account({"ai"}, {}, {}, 0, "asked")
      /\ Q[3] = Account({"ai", "rx"}, {}, {}, 0, "asked")
      /\ Q[4] = Account({"ai", "rx"}, {}, {}, 1, "asked")
      /\ Q[5] = Account({"rx"}, {}, {}, 1, "asked")
      /\ Q[6] = Account({"rx"}, {}, {}, 1, "passed")
  BY <1>8
<1>10. ASSUME NEW k \in 1..5
       PROVE  Leads("dhx_login", Q[k], P[k], Q[k + 1])
  <2>1. k = 1 \/ k = 2 \/ k = 3 \/ k = 4 \/ k = 5
    OBVIOUS
  <2>2. QED
    BY <1>9, <2>1, <1>3, <1>4, <1>5, <1>6, <1>7
<1>11. Goes("dhx_login", Q[1], P, 5, Q[6])
  BY <1>2, <1>10 DEF Goes
<1>12. QED
  BY <1>1, <1>9, <1>11

\* The first request of dhx_passwd().
LEMMA dhx_passwd_first_goes ==
  Goes("dhx_passwd", Account({}, {}, {}, 0, "asked"), dhx_passwd_first, 5,
       Account({"rx"}, {}, {}, 1, "passed"))
<1>1. PICK P : P = dhx_passwd_first
  OBVIOUS
<1>2. Len(P) = 5 /\ P = [i \in 1..5 |-> P[i]]
  BY <1>1 DEF dhx_passwd_first
<1>3. Leads("dhx_passwd", Account({}, {}, {}, 0, "asked"), P[1],
            Account({"ai"}, {}, {}, 0, "asked"))
  <2>1. P[1] = Alloc("ai", {})
    BY <1>1 DEF dhx_passwd_first
  <2>2. QED
    BY <2>1, AllocLeads, FreesFacts DEF Pointers, Stages, Ciphers
<1>4. Leads("dhx_passwd", Account({"ai"}, {}, {}, 0, "asked"), P[2],
            Account({"ai", "rx"}, {}, {}, 0, "asked"))
  <2>1. P[2] = Alloc("rx", {})
    BY <1>1 DEF dhx_passwd_first
  <2>2. QED
    BY <2>1, AllocLeads, FreesFacts DEF Pointers, Stages, Ciphers
<1>5. Leads("dhx_passwd", Account({"ai", "rx"}, {}, {}, 0, "asked"), P[3],
            Account({"ai", "rx"}, {}, {}, 1, "asked"))
  <2>1. P[3] = Send("passwd", "ai", TRUE, [Plain EXCEPT !.id = "zero", !.at = Field(9, "always")])
    BY <1>1 DEF dhx_passwd_first
  <2>2. Sendable("dhx_passwd", 0, "asked", "passwd",
          [Plain EXCEPT !.id = "zero", !.at = Field(9, "always")])
    BY DEF Sendable, Changes, NewBy, Rounds, Plain, With, NoField, Field
  <2>3. PICK n, next : n \in Nat /\ n = 0 /\ next = 1 /\ next = n + 1
    OBVIOUS
  <2>4. PICK fields : fields = [Plain EXCEPT !.id = "zero", !.at = Field(9, "always")]
    OBVIOUS
  <2>5. Sendable("dhx_passwd", n, "asked", "passwd", fields)
    BY <2>2, <2>3, <2>4
  <2>6. Leads("dhx_passwd", Account({"ai", "rx"}, {}, {}, n, "asked"),
              Send("passwd", "ai", TRUE, fields),
              Account({"ai", "rx"}, {}, {}, next, "asked"))
    BY <2>3, <2>5, ReceiveLeads, FreesFacts DEF Pointers, Stages, Ciphers
  <2>7. QED
    BY <2>1, <2>3, <2>4, <2>6
<1>6. Leads("dhx_passwd", Account({"ai", "rx"}, {}, {}, 1, "asked"), P[4],
            Account({"rx"}, {}, {}, 1, "asked"))
  <2>1. P[4] = Free("ai")
    BY <1>1 DEF dhx_passwd_first
  <2>2. PICK live, less :
              live \in SUBSET Pointers /\ live = {"ai", "rx"} /\ less = {"rx"} /\ less = live \ {"ai"}
    BY DEF Pointers
  <2>3. live \subseteq Frees("dhx_passwd") /\ "ai" \in Pointers
    BY <2>2, FreesFacts DEF Pointers
  <2>4. Leads("dhx_passwd", Account(live, {}, {}, 1, "asked"), Free("ai"),
          Account(less, {}, {}, 1, "asked"))
    BY <2>2, <2>3, FreeLeads DEF Stages
  <2>5. QED
    BY <2>1, <2>2, <2>4
<1>7. Leads("dhx_passwd", Account({"rx"}, {}, {}, 1, "asked"), P[5],
            Account({"rx"}, {}, {}, 1, "passed"))
  <2>1. P[5] = Continue({})
    BY <1>1 DEF dhx_passwd_first
  <2>2. QED
    BY <2>1, ContinueLeads, FreesFacts DEF Pointers, Stages, Ciphers
<1>8. PICK Q : Q = << Account({}, {}, {}, 0, "asked"),
                      Account({"ai"}, {}, {}, 0, "asked"),
                      Account({"ai", "rx"}, {}, {}, 0, "asked"),
                      Account({"ai", "rx"}, {}, {}, 1, "asked"),
                      Account({"rx"}, {}, {}, 1, "asked"),
                      Account({"rx"}, {}, {}, 1, "passed") >>
  OBVIOUS
<1>9. /\ Q[1] = Account({}, {}, {}, 0, "asked")
      /\ Q[2] = Account({"ai"}, {}, {}, 0, "asked")
      /\ Q[3] = Account({"ai", "rx"}, {}, {}, 0, "asked")
      /\ Q[4] = Account({"ai", "rx"}, {}, {}, 1, "asked")
      /\ Q[5] = Account({"rx"}, {}, {}, 1, "asked")
      /\ Q[6] = Account({"rx"}, {}, {}, 1, "passed")
  BY <1>8
<1>10. ASSUME NEW k \in 1..5
       PROVE  Leads("dhx_passwd", Q[k], P[k], Q[k + 1])
  <2>1. k = 1 \/ k = 2 \/ k = 3 \/ k = 4 \/ k = 5
    OBVIOUS
  <2>2. QED
    BY <1>9, <2>1, <1>3, <1>4, <1>5, <1>6, <1>7
<1>11. Goes("dhx_passwd", Q[1], P, 5, Q[6])
  BY <1>2, <1>10 DEF Goes
<1>12. QED
  BY <1>1, <1>9, <1>11

\* The rest of both, around their second request x.
LEMMA dhx_key_goes ==
  ASSUME NEW f \in {"dhx_login", "dhx_passwd"},
         NEW x, Leads(f, Account({"ai"}, {}, {"a"}, 1, "taken"), x,
                      Account({"ai"}, {}, {"a"}, 2, "asked"))
  PROVE  Goes(f, Account({"rx"}, {}, {}, 1, "passed"),
               dhx_key(x), 11,
               Account({"ai"}, {}, {"a"}, 2, "left"))
<1>1. PICK P : P = dhx_key(x)
  OBVIOUS
<1>2. Len(P) = 11 /\ P = [i \in 1..11 |-> P[i]]
  BY <1>1 DEF dhx_key
<1>3. {"rx", "ai"} \subseteq Frees(f)
  BY FreesFacts DEF Pointers
<1>4. Leads(f, Account({"rx"}, {}, {}, 1, "passed"), P[1],
            Account({"rx"}, {}, {}, 1, "taken"))
  <2>1. P[1] = TakeId
    BY <1>1 DEF dhx_key
  <2>2. QED
    BY <2>1, TakeIdLeads, <1>3 DEF Pointers, Stages, Ciphers
<1>5. Leads(f, Account({"rx"}, {}, {}, 1, "taken"), P[2],
            Account({"rx"}, {}, {"a"}, 1, "taken"))
  <2>1. P[2] = Open("a", {})
    BY <1>1 DEF dhx_key
  <2>2. QED
    BY <2>1, OpenLeads, <1>3 DEF Pointers, Stages, Ciphers
<1>6. Leads(f, Account({"rx"}, {}, {"a"}, 1, "taken"), P[3],
            Account({"rx"}, {}, {"a"}, 1, "taken"))
  <2>1. P[3] = Crypt("a", {}, {}, {"a"})
    BY <1>1 DEF dhx_key
  <2>2. QED
    BY <2>1, CryptLeads, <1>3 DEF Pointers, Stages, Ciphers
<1>7. Leads(f, Account({"rx"}, {}, {"a"}, 1, "taken"), P[4],
            Account({"rx"}, {}, {"a"}, 1, "taken"))
  <2>1. P[4] = Crypt("a", {}, {}, {"a"})
    BY <1>1 DEF dhx_key
  <2>2. QED
    BY <2>1, CryptLeads, <1>3 DEF Pointers, Stages, Ciphers
<1>8. Leads(f, Account({"rx"}, {}, {"a"}, 1, "taken"), P[5],
            Account({"rx"}, {}, {"a"}, 1, "taken"))
  <2>1. P[5] = Crypt("a", {"rx"}, {}, {"a"})
    BY <1>1 DEF dhx_key
  <2>2. QED
    BY <2>1, CryptLeads, <1>3 DEF Pointers, Stages, Ciphers
<1>9. Leads(f, Account({"rx"}, {}, {"a"}, 1, "taken"), P[6],
            Account({}, {}, {"a"}, 1, "taken"))
  <2>1. P[6] = Free("rx")
    BY <1>1 DEF dhx_key
  <2>2. PICK live, less :
              live \in SUBSET Pointers /\ live = {"rx"} /\ less = {} /\ less = live \ {"rx"}
    BY DEF Pointers
  <2>3. live \subseteq Frees(f) /\ "rx" \in Pointers
    BY <2>2, <1>3 DEF Pointers
  <2>4. Leads(f, Account(live, {}, {"a"}, 1, "taken"), Free("rx"),
          Account(less, {}, {"a"}, 1, "taken"))
    BY <2>2, <2>3, FreeLeads DEF Stages, Ciphers
  <2>5. QED
    BY <2>1, <2>2, <2>4
<1>10. Leads(f, Account({}, {}, {"a"}, 1, "taken"), P[7],
             Account({"ai"}, {}, {"a"}, 1, "taken"))
  <2>1. P[7] = Alloc("ai", {"a"})
    BY <1>1 DEF dhx_key
  <2>2. QED
    BY <2>1, AllocLeads, <1>3 DEF Pointers, Stages, Ciphers
<1>11. Leads(f, Account({"ai"}, {}, {"a"}, 1, "taken"), P[8],
             Account({"ai"}, {}, {"a"}, 1, "taken"))
  <2>1. P[8] = Crypt("a", {}, {}, {"a"})
    BY <1>1 DEF dhx_key
  <2>2. QED
    BY <2>1, CryptLeads, <1>3 DEF Pointers, Stages, Ciphers
<1>12. Leads(f, Account({"ai"}, {}, {"a"}, 1, "taken"), P[9],
             Account({"ai"}, {}, {"a"}, 1, "taken"))
  <2>1. P[9] = Crypt("a", {"ai"}, {}, {"a"})
    BY <1>1 DEF dhx_key
  <2>2. QED
    BY <2>1, CryptLeads, <1>3 DEF Pointers, Stages, Ciphers
<1>13. Leads(f, Account({"ai"}, {}, {"a"}, 1, "taken"), P[10],
             Account({"ai"}, {}, {"a"}, 2, "asked"))
  BY <1>1 DEF dhx_key
<1>14. Leads(f, Account({"ai"}, {}, {"a"}, 2, "asked"), P[11],
             Account({"ai"}, {}, {"a"}, 2, "left"))
  <2>1. P[11] = Leave({"a"})
    BY <1>1 DEF dhx_key
  <2>2. QED
    BY <2>1, LeaveLeads, <1>3 DEF Pointers, Stages, Ciphers
<1>15. PICK Q : Q = << Account({"rx"}, {}, {}, 1, "passed"),
                       Account({"rx"}, {}, {}, 1, "taken"),
                       Account({"rx"}, {}, {"a"}, 1, "taken"),
                       Account({"rx"}, {}, {"a"}, 1, "taken"),
                       Account({"rx"}, {}, {"a"}, 1, "taken"),
                       Account({"rx"}, {}, {"a"}, 1, "taken"),
                       Account({}, {}, {"a"}, 1, "taken"),
                       Account({"ai"}, {}, {"a"}, 1, "taken"),
                       Account({"ai"}, {}, {"a"}, 1, "taken"),
                       Account({"ai"}, {}, {"a"}, 1, "taken"),
                       Account({"ai"}, {}, {"a"}, 2, "asked"),
                       Account({"ai"}, {}, {"a"}, 2, "left") >>
  OBVIOUS
<1>16. /\ Q[1] = Account({"rx"}, {}, {}, 1, "passed")
       /\ Q[2] = Account({"rx"}, {}, {}, 1, "taken")
       /\ Q[3] = Account({"rx"}, {}, {"a"}, 1, "taken")
       /\ Q[4] = Account({"rx"}, {}, {"a"}, 1, "taken")
       /\ Q[5] = Account({"rx"}, {}, {"a"}, 1, "taken")
       /\ Q[6] = Account({"rx"}, {}, {"a"}, 1, "taken")
       /\ Q[7] = Account({}, {}, {"a"}, 1, "taken")
       /\ Q[8] = Account({"ai"}, {}, {"a"}, 1, "taken")
       /\ Q[9] = Account({"ai"}, {}, {"a"}, 1, "taken")
       /\ Q[10] = Account({"ai"}, {}, {"a"}, 1, "taken")
       /\ Q[11] = Account({"ai"}, {}, {"a"}, 2, "asked")
       /\ Q[12] = Account({"ai"}, {}, {"a"}, 2, "left")
  BY <1>15
<1>17. ASSUME NEW k \in 1..11
       PROVE  Leads(f, Q[k], P[k], Q[k + 1])
  <2>1. k = 1 \/ k = 2 \/ k = 3 \/ k = 4 \/ k = 5 \/ k = 6 \/ k = 7 \/ k = 8 \/ k = 9 \/ k = 10
          \/ k = 11
    OBVIOUS
  <2>2. QED
    BY <1>16, <2>1, <1>4, <1>5, <1>6, <1>7, <1>8, <1>9, <1>10, <1>11, <1>12, <1>13, <1>14
<1>18. Goes(f, Q[1], P, 11, Q[12])
  BY <1>2, <1>17 DEF Goes
<1>19. QED
  BY <1>1, <1>16, <1>18

\* The first request of dhx2_login().
LEMMA dhx2_login_first_goes ==
  Goes("dhx2_login", Account({}, {}, {}, 0, "asked"), dhx2_login_first, 5,
       Account({"rx"}, {}, {}, 1, "passed"))
<1>1. PICK P : P = dhx2_login_first
  OBVIOUS
<1>2. Len(P) = 5 /\ P = [i \in 1..5 |-> P[i]]
  BY <1>1 DEF dhx2_login_first
<1>3. Leads("dhx2_login", Account({}, {}, {}, 0, "asked"), P[1],
            Account({"ai"}, {}, {}, 0, "asked"))
  <2>1. P[1] = Alloc("ai", {})
    BY <1>1 DEF dhx2_login_first
  <2>2. QED
    BY <2>1, AllocLeads, FreesFacts DEF Pointers, Stages, Ciphers
<1>4. Leads("dhx2_login", Account({"ai"}, {}, {}, 0, "asked"), P[2],
            Account({"ai", "rx"}, {}, {}, 0, "asked"))
  <2>1. P[2] = Alloc("rx", {})
    BY <1>1 DEF dhx2_login_first
  <2>2. QED
    BY <2>1, AllocLeads, FreesFacts DEF Pointers, Stages, Ciphers
<1>5. Leads("dhx2_login", Account({"ai", "rx"}, {}, {}, 0, "asked"), P[3],
            Account({"ai", "rx"}, {}, {}, 1, "asked"))
  <2>1. P[3] = Send("login", "ai", TRUE, Plain)
    BY <1>1 DEF dhx2_login_first
  <2>2. Sendable("dhx2_login", 0, "asked", "login", Plain)
    BY DEF Sendable, Changes, NewBy, Rounds, Plain, With, NoField, Field
  <2>3. PICK n, next : n \in Nat /\ n = 0 /\ next = 1 /\ next = n + 1
    OBVIOUS
  <2>4. PICK fields : fields = Plain
    OBVIOUS
  <2>5. Sendable("dhx2_login", n, "asked", "login", fields)
    BY <2>2, <2>3, <2>4
  <2>6. Leads("dhx2_login", Account({"ai", "rx"}, {}, {}, n, "asked"),
              Send("login", "ai", TRUE, fields),
              Account({"ai", "rx"}, {}, {}, next, "asked"))
    BY <2>3, <2>5, ReceiveLeads, FreesFacts DEF Pointers, Stages, Ciphers
  <2>7. QED
    BY <2>1, <2>3, <2>4, <2>6
<1>6. Leads("dhx2_login", Account({"ai", "rx"}, {}, {}, 1, "asked"), P[4],
            Account({"rx"}, {}, {}, 1, "asked"))
  <2>1. P[4] = Free("ai")
    BY <1>1 DEF dhx2_login_first
  <2>2. PICK live, less :
              live \in SUBSET Pointers /\ live = {"ai", "rx"} /\ less = {"rx"} /\ less = live \ {"ai"}
    BY DEF Pointers
  <2>3. live \subseteq Frees("dhx2_login") /\ "ai" \in Pointers
    BY <2>2, FreesFacts DEF Pointers
  <2>4. Leads("dhx2_login", Account(live, {}, {}, 1, "asked"), Free("ai"),
          Account(less, {}, {}, 1, "asked"))
    BY <2>2, <2>3, FreeLeads DEF Stages
  <2>5. QED
    BY <2>1, <2>2, <2>4
<1>7. Leads("dhx2_login", Account({"rx"}, {}, {}, 1, "asked"), P[5],
            Account({"rx"}, {}, {}, 1, "passed"))
  <2>1. P[5] = Continue({})
    BY <1>1 DEF dhx2_login_first
  <2>2. QED
    BY <2>1, ContinueLeads, FreesFacts DEF Pointers, Stages, Ciphers
<1>8. PICK Q : Q = << Account({}, {}, {}, 0, "asked"),
                      Account({"ai"}, {}, {}, 0, "asked"),
                      Account({"ai", "rx"}, {}, {}, 0, "asked"),
                      Account({"ai", "rx"}, {}, {}, 1, "asked"),
                      Account({"rx"}, {}, {}, 1, "asked"),
                      Account({"rx"}, {}, {}, 1, "passed") >>
  OBVIOUS
<1>9. /\ Q[1] = Account({}, {}, {}, 0, "asked")
      /\ Q[2] = Account({"ai"}, {}, {}, 0, "asked")
      /\ Q[3] = Account({"ai", "rx"}, {}, {}, 0, "asked")
      /\ Q[4] = Account({"ai", "rx"}, {}, {}, 1, "asked")
      /\ Q[5] = Account({"rx"}, {}, {}, 1, "asked")
      /\ Q[6] = Account({"rx"}, {}, {}, 1, "passed")
  BY <1>8
<1>10. ASSUME NEW k \in 1..5
       PROVE  Leads("dhx2_login", Q[k], P[k], Q[k + 1])
  <2>1. k = 1 \/ k = 2 \/ k = 3 \/ k = 4 \/ k = 5
    OBVIOUS
  <2>2. QED
    BY <1>9, <2>1, <1>3, <1>4, <1>5, <1>6, <1>7
<1>11. Goes("dhx2_login", Q[1], P, 5, Q[6])
  BY <1>2, <1>10 DEF Goes
<1>12. QED
  BY <1>1, <1>9, <1>11

\* The first request of dhx2_passwd(), with the block it may not have got.
LEMMA dhx2_passwd_first_goes ==
  Goes("dhx2_passwd", Account({}, {}, {}, 0, "asked"), dhx2_passwd_first, 5,
       Account({"rx"}, {}, {}, 1, "passed"))
<1>1. PICK P : P = dhx2_passwd_first
  OBVIOUS
<1>2. Len(P) = 5 /\ P = [i \in 1..5 |-> P[i]]
  BY <1>1 DEF dhx2_passwd_first
<1>3. Leads("dhx2_passwd", Account({}, {}, {}, 0, "asked"), P[1],
            Account({"ai"}, {"ai"}, {}, 0, "asked"))
  <2>1. P[1] = [Alloc("ai", {}) EXCEPT !.op = "allocunchecked"]
    BY <1>1 DEF dhx2_passwd_first
  <2>2. QED
    BY <2>1, UncheckedLeads, FreesFacts DEF Pointers, Stages, Ciphers
<1>4. Leads("dhx2_passwd", Account({"ai"}, {"ai"}, {}, 0, "asked"), P[2],
            Account({"ai", "rx"}, {"ai"}, {}, 0, "asked"))
  <2>1. P[2] = Alloc("rx", {})
    BY <1>1 DEF dhx2_passwd_first
  <2>2. QED
    BY <2>1, AllocLeads, FreesFacts DEF Pointers, Stages, Ciphers
<1>5. Leads("dhx2_passwd", Account({"ai", "rx"}, {"ai"}, {}, 0, "asked"), P[3],
            Account({"ai", "rx"}, {"ai"}, {}, 1, "asked"))
  <2>1. P[3] = Send("passwd", "ai", TRUE, Plain)
    BY <1>1 DEF dhx2_passwd_first
  <2>2. Sendable("dhx2_passwd", 0, "asked", "passwd", Plain)
    BY DEF Sendable, Changes, NewBy, Rounds, Plain, With, NoField, Field
  <2>3. PICK n, next : n \in Nat /\ n = 0 /\ next = 1 /\ next = n + 1
    OBVIOUS
  <2>4. PICK fields : fields = Plain
    OBVIOUS
  <2>5. Sendable("dhx2_passwd", n, "asked", "passwd", fields)
    BY <2>2, <2>3, <2>4
  <2>6. Leads("dhx2_passwd", Account({"ai", "rx"}, {"ai"}, {}, n, "asked"),
              Send("passwd", "ai", TRUE, fields),
              Account({"ai", "rx"}, {"ai"}, {}, next, "asked"))
    BY <2>3, <2>5, ReceiveLeads, FreesFacts DEF Pointers, Stages, Ciphers
  <2>7. QED
    BY <2>1, <2>3, <2>4, <2>6
<1>6. Leads("dhx2_passwd", Account({"ai", "rx"}, {"ai"}, {}, 1, "asked"), P[4],
            Account({"rx"}, {}, {}, 1, "asked"))
  <2>1. P[4] = Free("ai")
    BY <1>1 DEF dhx2_passwd_first
  <2>2. PICK live, less :
              live \in SUBSET Pointers /\ live = {"ai", "rx"} /\ less = {"rx"} /\ less = live \ {"ai"}
    BY DEF Pointers
  <2>3. live \subseteq Frees("dhx2_passwd") /\ "ai" \in Pointers
    BY <2>2, FreesFacts DEF Pointers
  <2>4. {} = {"ai"} \ {"ai"}
    OBVIOUS
  <2>5. Leads("dhx2_passwd", Account(live, {"ai"}, {}, 1, "asked"), Free("ai"),
          Account(less, {}, {}, 1, "asked"))
    BY <2>2, <2>3, <2>4, FreeLeads DEF Stages, Pointers
  <2>6. QED
    BY <2>1, <2>2, <2>5
<1>7. Leads("dhx2_passwd", Account({"rx"}, {}, {}, 1, "asked"), P[5],
            Account({"rx"}, {}, {}, 1, "passed"))
  <2>1. P[5] = Continue({})
    BY <1>1 DEF dhx2_passwd_first
  <2>2. QED
    BY <2>1, ContinueLeads, FreesFacts DEF Pointers, Stages, Ciphers
<1>8. PICK Q : Q = << Account({}, {}, {}, 0, "asked"),
                      Account({"ai"}, {"ai"}, {}, 0, "asked"),
                      Account({"ai", "rx"}, {"ai"}, {}, 0, "asked"),
                      Account({"ai", "rx"}, {"ai"}, {}, 1, "asked"),
                      Account({"rx"}, {}, {}, 1, "asked"),
                      Account({"rx"}, {}, {}, 1, "passed") >>
  OBVIOUS
<1>9. /\ Q[1] = Account({}, {}, {}, 0, "asked")
      /\ Q[2] = Account({"ai"}, {"ai"}, {}, 0, "asked")
      /\ Q[3] = Account({"ai", "rx"}, {"ai"}, {}, 0, "asked")
      /\ Q[4] = Account({"ai", "rx"}, {"ai"}, {}, 1, "asked")
      /\ Q[5] = Account({"rx"}, {}, {}, 1, "asked")
      /\ Q[6] = Account({"rx"}, {}, {}, 1, "passed")
  BY <1>8
<1>10. ASSUME NEW k \in 1..5
       PROVE  Leads("dhx2_passwd", Q[k], P[k], Q[k + 1])
  <2>1. k = 1 \/ k = 2 \/ k = 3 \/ k = 4 \/ k = 5
    OBVIOUS
  <2>2. QED
    BY <1>9, <2>1, <1>3, <1>4, <1>5, <1>6, <1>7
<1>11. Goes("dhx2_passwd", Q[1], P, 5, Q[6])
  BY <1>2, <1>10 DEF Goes
<1>12. QED
  BY <1>1, <1>9, <1>11

\* The key of DHX2.
LEMMA dhx2_key_goes ==
  ASSUME NEW f \in {"dhx2_login", "dhx2_passwd"}
  PROVE  Goes(f, Account({"rx"}, {}, {}, 1, "passed"),
               dhx2_key, 12,
               Account({"ai", "rx", "K"}, {}, {"a"}, 1, "taken"))
<1>1. PICK P : P = dhx2_key
  OBVIOUS
<1>2. Len(P) = 12 /\ P = [i \in 1..12 |-> P[i]]
  BY <1>1 DEF dhx2_key
<1>3. \A y \in Pointers : y \in Frees(f)
  BY FreesFacts DEF Pointers
<1>4. Leads(f, Account({"rx"}, {}, {}, 1, "passed"), P[1],
            Account({"rx"}, {}, {}, 1, "taken"))
  <2>1. P[1] = TakeId
    BY <1>1 DEF dhx2_key
  <2>2. QED
    BY <2>1, TakeIdLeads, <1>3 DEF Pointers, Stages, Ciphers
<1>5. Leads(f, Account({"rx"}, {}, {}, 1, "taken"), P[2],
            Account({}, {}, {}, 1, "taken"))
  <2>1. P[2] = Free("rx")
    BY <1>1 DEF dhx2_key
  <2>2. PICK live, less :
              live \in SUBSET Pointers /\ live = {"rx"} /\ less = {} /\ less = live \ {"rx"}
    BY DEF Pointers
  <2>3. live \subseteq Frees(f) /\ "rx" \in Pointers
    BY <2>2, <1>3 DEF Pointers
  <2>4. Leads(f, Account(live, {}, {}, 1, "taken"), Free("rx"), Account(less, {}, {}, 1, "taken"))
    BY <2>2, <2>3, FreeLeads DEF Stages
  <2>5. QED
    BY <2>1, <2>2, <2>4
<1>6. Leads(f, Account({}, {}, {}, 1, "taken"), P[3],
            Account({"Ra"}, {}, {}, 1, "taken"))
  <2>1. P[3] = Alloc("Ra", {})
    BY <1>1 DEF dhx2_key
  <2>2. QED
    BY <2>1, AllocLeads, <1>3 DEF Pointers, Stages, Ciphers
<1>7. Leads(f, Account({"Ra"}, {}, {}, 1, "taken"), P[4],
            Account({}, {}, {}, 1, "taken"))
  <2>1. P[4] = Free("Ra")
    BY <1>1 DEF dhx2_key
  <2>2. PICK live, less :
              live \in SUBSET Pointers /\ live = {"Ra"} /\ less = {} /\ less = live \ {"Ra"}
    BY DEF Pointers
  <2>3. live \subseteq Frees(f) /\ "Ra" \in Pointers
    BY <2>2, <1>3 DEF Pointers
  <2>4. Leads(f, Account(live, {}, {}, 1, "taken"), Free("Ra"), Account(less, {}, {}, 1, "taken"))
    BY <2>2, <2>3, FreeLeads DEF Stages
  <2>5. QED
    BY <2>1, <2>2, <2>4
<1>8. Leads(f, Account({}, {}, {}, 1, "taken"), P[5],
            Account({"K"}, {}, {}, 1, "taken"))
  <2>1. P[5] = Alloc("K", {})
    BY <1>1 DEF dhx2_key
  <2>2. QED
    BY <2>1, AllocLeads, <1>3 DEF Pointers, Stages, Ciphers
<1>9. Leads(f, Account({"K"}, {}, {}, 1, "taken"), P[6],
            Account({"K", "hash"}, {}, {}, 1, "taken"))
  <2>1. P[6] = Alloc("hash", {})
    BY <1>1 DEF dhx2_key
  <2>2. QED
    BY <2>1, AllocLeads, <1>3 DEF Pointers, Stages, Ciphers
<1>10. Leads(f, Account({"K", "hash"}, {}, {}, 1, "taken"), P[7],
             Account({"K", "hash"}, {}, {"a"}, 1, "taken"))
  <2>1. P[7] = Open("a", {})
    BY <1>1 DEF dhx2_key
  <2>2. QED
    BY <2>1, OpenLeads, <1>3 DEF Pointers, Stages, Ciphers
<1>11. Leads(f, Account({"K", "hash"}, {}, {"a"}, 1, "taken"), P[8],
             Account({"K"}, {}, {"a"}, 1, "taken"))
  <2>1. P[8] = Crypt("a", {"hash"}, {"hash"}, {"a"})
    BY <1>1 DEF dhx2_key
  <2>2. QED
    BY <2>1, CryptLeads, <1>3 DEF Pointers, Stages, Ciphers
<1>12. Leads(f, Account({"K"}, {}, {"a"}, 1, "taken"), P[9],
             Account({"K"}, {}, {"a"}, 1, "taken"))
  <2>1. P[9] = Crypt("a", {}, {}, {"a"})
    BY <1>1 DEF dhx2_key
  <2>2. QED
    BY <2>1, CryptLeads, <1>3 DEF Pointers, Stages, Ciphers
<1>13. Leads(f, Account({"K"}, {}, {"a"}, 1, "taken"), P[10],
             Account({"ai", "K"}, {}, {"a"}, 1, "taken"))
  <2>1. P[10] = Alloc("ai", {"a"})
    BY <1>1 DEF dhx2_key
  <2>2. QED
    BY <2>1, AllocLeads, <1>3 DEF Pointers, Stages, Ciphers
<1>14. Leads(f, Account({"ai", "K"}, {}, {"a"}, 1, "taken"), P[11],
             Account({"ai", "K"}, {}, {"a"}, 1, "taken"))
  <2>1. P[11] = Crypt("a", {"ai"}, {}, {"a"})
    BY <1>1 DEF dhx2_key
  <2>2. QED
    BY <2>1, CryptLeads, <1>3 DEF Pointers, Stages, Ciphers
<1>15. Leads(f, Account({"ai", "K"}, {}, {"a"}, 1, "taken"), P[12],
             Account({"ai", "rx", "K"}, {}, {"a"}, 1, "taken"))
  <2>1. P[12] = Alloc("rx", {"a"})
    BY <1>1 DEF dhx2_key
  <2>2. QED
    BY <2>1, AllocLeads, <1>3 DEF Pointers, Stages, Ciphers
<1>16. PICK Q : Q = << Account({"rx"}, {}, {}, 1, "passed"),
                       Account({"rx"}, {}, {}, 1, "taken"),
                       Account({}, {}, {}, 1, "taken"),
                       Account({"Ra"}, {}, {}, 1, "taken"),
                       Account({}, {}, {}, 1, "taken"),
                       Account({"K"}, {}, {}, 1, "taken"),
                       Account({"K", "hash"}, {}, {}, 1, "taken"),
                       Account({"K", "hash"}, {}, {"a"}, 1, "taken"),
                       Account({"K"}, {}, {"a"}, 1, "taken"),
                       Account({"K"}, {}, {"a"}, 1, "taken"),
                       Account({"ai", "K"}, {}, {"a"}, 1, "taken"),
                       Account({"ai", "K"}, {}, {"a"}, 1, "taken"),
                       Account({"ai", "rx", "K"}, {}, {"a"}, 1, "taken") >>
  OBVIOUS
<1>17. /\ Q[1] = Account({"rx"}, {}, {}, 1, "passed")
       /\ Q[2] = Account({"rx"}, {}, {}, 1, "taken")
       /\ Q[3] = Account({}, {}, {}, 1, "taken")
       /\ Q[4] = Account({"Ra"}, {}, {}, 1, "taken")
       /\ Q[5] = Account({}, {}, {}, 1, "taken")
       /\ Q[6] = Account({"K"}, {}, {}, 1, "taken")
       /\ Q[7] = Account({"K", "hash"}, {}, {}, 1, "taken")
       /\ Q[8] = Account({"K", "hash"}, {}, {"a"}, 1, "taken")
       /\ Q[9] = Account({"K"}, {}, {"a"}, 1, "taken")
       /\ Q[10] = Account({"K"}, {}, {"a"}, 1, "taken")
       /\ Q[11] = Account({"ai", "K"}, {}, {"a"}, 1, "taken")
       /\ Q[12] = Account({"ai", "K"}, {}, {"a"}, 1, "taken")
       /\ Q[13] = Account({"ai", "rx", "K"}, {}, {"a"}, 1, "taken")
  BY <1>16
<1>18. ASSUME NEW k \in 1..12
       PROVE  Leads(f, Q[k], P[k], Q[k + 1])
  <2>1. k = 1 \/ k = 2 \/ k = 3 \/ k = 4 \/ k = 5 \/ k = 6 \/ k = 7 \/ k = 8 \/ k = 9 \/ k = 10
          \/ k = 11 \/ k = 12
    OBVIOUS
  <2>2. QED
    BY <1>17, <2>1, <1>4, <1>5, <1>6, <1>7, <1>8, <1>9, <1>10, <1>11, <1>12, <1>13, <1>14, <1>15
<1>19. Goes(f, Q[1], P, 12, Q[13])
  BY <1>2, <1>18 DEF Goes
<1>20. QED
  BY <1>1, <1>17, <1>19

\* The second request of dhx2_login().
LEMMA dhx2_login_second_goes ==
  Goes("dhx2_login", Account({"ai", "rx", "K"}, {}, {"a"}, 1, "taken"),
    << Send("cont", "ai", TRUE, [Plain EXCEPT !.id = "host"]) >>, 1,
       Account({"ai", "rx", "K"}, {}, {"a"}, 2, "asked"))
<1>1. PICK P : P = << Send("cont", "ai", TRUE, [Plain EXCEPT !.id = "host"]) >>
  OBVIOUS
<1>2. Len(P) = 1 /\ P = [i \in 1..1 |-> P[i]]
  BY <1>1
<1>3. Leads("dhx2_login", Account({"ai", "rx", "K"}, {}, {"a"}, 1, "taken"), P[1],
            Account({"ai", "rx", "K"}, {}, {"a"}, 2, "asked"))
  <2>1. P[1] = Send("cont", "ai", TRUE, [Plain EXCEPT !.id = "host"])
    BY <1>1
  <2>2. Sendable("dhx2_login", 1, "taken", "cont", [Plain EXCEPT !.id = "host"])
    BY DEF Sendable, Changes, NewBy, Rounds, Plain, With, NoField, Field
  <2>3. PICK n, next : n \in Nat /\ n = 1 /\ next = 2 /\ next = n + 1
    OBVIOUS
  <2>4. PICK fields : fields = [Plain EXCEPT !.id = "host"]
    OBVIOUS
  <2>5. Sendable("dhx2_login", n, "taken", "cont", fields)
    BY <2>2, <2>3, <2>4
  <2>6. PICK live, open : /\ live \in SUBSET Pointers /\ live = {"ai", "rx", "K"}
                          /\ open \in SUBSET Ciphers /\ open = {"a"}
    BY DEF Pointers, Ciphers
  <2>7. live \subseteq Frees("dhx2_login") /\ "ai" \in live /\ "rx" \in live \ {}
    BY <2>6, FreesFacts DEF Pointers
  <2>8. Leads("dhx2_login", Account(live, {}, open, n, "taken"), Send("cont", "ai", TRUE, fields),
              Account(live, {}, open, next, "asked"))
    BY <2>3, <2>5, <2>6, <2>7, ReceiveLeads DEF Stages
  <2>9. QED
    BY <2>1, <2>3, <2>4, <2>6, <2>8
<1>4. PICK Q : Q = << Account({"ai", "rx", "K"}, {}, {"a"}, 1, "taken"),
                      Account({"ai", "rx", "K"}, {}, {"a"}, 2, "asked") >>
  OBVIOUS
<1>5. /\ Q[1] = Account({"ai", "rx", "K"}, {}, {"a"}, 1, "taken")
      /\ Q[2] = Account({"ai", "rx", "K"}, {}, {"a"}, 2, "asked")
  BY <1>4
<1>6. ASSUME NEW k \in 1..1
      PROVE  Leads("dhx2_login", Q[k], P[k], Q[k + 1])
  <2>1. k = 1
    OBVIOUS
  <2>2. QED
    BY <1>5, <2>1, <1>3
<1>7. Goes("dhx2_login", Q[1], P, 1, Q[2])
  BY <1>2, <1>6 DEF Goes
<1>8. QED
  BY <1>1, <1>5, <1>7

\* The second request of dhx2_passwd().
LEMMA dhx2_passwd_second_goes ==
  Goes("dhx2_passwd", Account({"ai", "rx", "K"}, {}, {"a"}, 1, "taken"),
    << Send("passwd", "ai", TRUE, [Plain EXCEPT !.id = "host", !.at = Field(4, "always")]) >>, 1,
       Account({"ai", "rx", "K"}, {}, {"a"}, 2, "asked"))
<1>1. PICK P : P = << Send("passwd", "ai", TRUE, [Plain EXCEPT !.id = "host",
        !.at = Field(4, "always")]) >>
  OBVIOUS
<1>2. Len(P) = 1 /\ P = [i \in 1..1 |-> P[i]]
  BY <1>1
<1>3. Leads("dhx2_passwd", Account({"ai", "rx", "K"}, {}, {"a"}, 1, "taken"), P[1],
            Account({"ai", "rx", "K"}, {}, {"a"}, 2, "asked"))
  <2>1. P[1] = Send("passwd", "ai", TRUE, [Plain EXCEPT !.id = "host", !.at = Field(4, "always")])
    BY <1>1
  <2>2. Sendable("dhx2_passwd", 1, "taken", "passwd",
          [Plain EXCEPT !.id = "host", !.at = Field(4, "always")])
    BY DEF Sendable, Changes, NewBy, Rounds, Plain, With, NoField, Field
  <2>3. PICK n, next : n \in Nat /\ n = 1 /\ next = 2 /\ next = n + 1
    OBVIOUS
  <2>4. PICK fields : fields = [Plain EXCEPT !.id = "host", !.at = Field(4, "always")]
    OBVIOUS
  <2>5. Sendable("dhx2_passwd", n, "taken", "passwd", fields)
    BY <2>2, <2>3, <2>4
  <2>6. PICK live, open : /\ live \in SUBSET Pointers /\ live = {"ai", "rx", "K"}
                          /\ open \in SUBSET Ciphers /\ open = {"a"}
    BY DEF Pointers, Ciphers
  <2>7. live \subseteq Frees("dhx2_passwd") /\ "ai" \in live /\ "rx" \in live \ {}
    BY <2>6, FreesFacts DEF Pointers
  <2>8. Leads("dhx2_passwd", Account(live, {}, open, n, "taken"), Send("passwd", "ai", TRUE, fields),
              Account(live, {}, open, next, "asked"))
    BY <2>3, <2>5, <2>6, <2>7, ReceiveLeads DEF Stages
  <2>9. QED
    BY <2>1, <2>3, <2>4, <2>6, <2>8
<1>4. PICK Q : Q = << Account({"ai", "rx", "K"}, {}, {"a"}, 1, "taken"),
                      Account({"ai", "rx", "K"}, {}, {"a"}, 2, "asked") >>
  OBVIOUS
<1>5. /\ Q[1] = Account({"ai", "rx", "K"}, {}, {"a"}, 1, "taken")
      /\ Q[2] = Account({"ai", "rx", "K"}, {}, {"a"}, 2, "asked")
  BY <1>4
<1>6. ASSUME NEW k \in 1..1
      PROVE  Leads("dhx2_passwd", Q[k], P[k], Q[k + 1])
  <2>1. k = 1
    OBVIOUS
  <2>2. QED
    BY <1>5, <2>1, <1>3
<1>7. Goes("dhx2_passwd", Q[1], P, 1, Q[2])
  BY <1>2, <1>6 DEF Goes
<1>8. QED
  BY <1>1, <1>5, <1>7

\* The nonces of DHX2.
LEMMA dhx2_nonces_goes ==
  ASSUME NEW f \in {"dhx2_login", "dhx2_passwd"}
  PROVE  Goes(f, Account({"ai", "rx", "K"}, {}, {"a"}, 2, "asked"),
               dhx2_nonces, 9,
               Account({"ai", "K"}, {}, {"a"}, 2, "taken"))
<1>1. PICK P : P = dhx2_nonces
  OBVIOUS
<1>2. Len(P) = 9 /\ P = [i \in 1..9 |-> P[i]]
  BY <1>1 DEF dhx2_nonces
<1>3. \A y \in Pointers : y \in Frees(f)
  BY FreesFacts DEF Pointers
<1>4. Leads(f, Account({"ai", "rx", "K"}, {}, {"a"}, 2, "asked"), P[1],
            Account({"rx", "K"}, {}, {"a"}, 2, "asked"))
  <2>1. P[1] = Free("ai")
    BY <1>1 DEF dhx2_nonces
  <2>2. PICK live, less :
              /\ live \in SUBSET Pointers /\ live = {"ai", "rx", "K"}
              /\ less = {"rx", "K"} /\ less = live \ {"ai"}
    BY DEF Pointers
  <2>3. live \subseteq Frees(f) /\ "ai" \in Pointers
    BY <2>2, <1>3 DEF Pointers
  <2>4. Leads(f, Account(live, {}, {"a"}, 2, "asked"), Free("ai"),
          Account(less, {}, {"a"}, 2, "asked"))
    BY <2>2, <2>3, FreeLeads DEF Stages, Ciphers
  <2>5. QED
    BY <2>1, <2>2, <2>4
<1>5. Leads(f, Account({"rx", "K"}, {}, {"a"}, 2, "asked"), P[2],
            Account({"rx", "K"}, {}, {"a"}, 2, "passed"))
  <2>1. P[2] = Continue({"a"})
    BY <1>1 DEF dhx2_nonces
  <2>2. QED
    BY <2>1, ContinueLeads, <1>3 DEF Pointers, Stages, Ciphers
<1>6. Leads(f, Account({"rx", "K"}, {}, {"a"}, 2, "passed"), P[3],
            Account({"rx", "K"}, {}, {"a"}, 2, "taken"))
  <2>1. P[3] = TakeId
    BY <1>1 DEF dhx2_nonces
  <2>2. QED
    BY <2>1, TakeIdLeads, <1>3 DEF Pointers, Stages, Ciphers
<1>7. Leads(f, Account({"rx", "K"}, {}, {"a"}, 2, "taken"), P[4],
            Account({"rx", "K"}, {}, {"a"}, 2, "taken"))
  <2>1. P[4] = Crypt("a", {}, {}, {"a"})
    BY <1>1 DEF dhx2_nonces
  <2>2. QED
    BY <2>1, CryptLeads, <1>3 DEF Pointers, Stages, Ciphers
<1>8. Leads(f, Account({"rx", "K"}, {}, {"a"}, 2, "taken"), P[5],
            Account({"rx", "K"}, {}, {"a"}, 2, "taken"))
  <2>1. P[5] = Crypt("a", {"rx"}, {}, {"a"})
    BY <1>1 DEF dhx2_nonces
  <2>2. QED
    BY <2>1, CryptLeads, <1>3 DEF Pointers, Stages, Ciphers
<1>9. Leads(f, Account({"rx", "K"}, {}, {"a"}, 2, "taken"), P[6],
            Account({"K"}, {}, {"a"}, 2, "taken"))
  <2>1. P[6] = Free("rx")
    BY <1>1 DEF dhx2_nonces
  <2>2. PICK live, less :
              live \in SUBSET Pointers /\ live = {"rx", "K"} /\ less = {"K"} /\ less = live \ {"rx"}
    BY DEF Pointers
  <2>3. live \subseteq Frees(f) /\ "rx" \in Pointers
    BY <2>2, <1>3 DEF Pointers
  <2>4. Leads(f, Account(live, {}, {"a"}, 2, "taken"), Free("rx"),
          Account(less, {}, {"a"}, 2, "taken"))
    BY <2>2, <2>3, FreeLeads DEF Stages, Ciphers
  <2>5. QED
    BY <2>1, <2>2, <2>4
<1>10. Leads(f, Account({"K"}, {}, {"a"}, 2, "taken"), P[7],
             Account({"ai", "K"}, {}, {"a"}, 2, "taken"))
  <2>1. P[7] = Alloc("ai", {"a"})
    BY <1>1 DEF dhx2_nonces
  <2>2. QED
    BY <2>1, AllocLeads, <1>3 DEF Pointers, Stages, Ciphers
<1>11. Leads(f, Account({"ai", "K"}, {}, {"a"}, 2, "taken"), P[8],
             Account({"ai", "K"}, {}, {"a"}, 2, "taken"))
  <2>1. P[8] = Crypt("a", {}, {}, {"a"})
    BY <1>1 DEF dhx2_nonces
  <2>2. QED
    BY <2>1, CryptLeads, <1>3 DEF Pointers, Stages, Ciphers
<1>12. Leads(f, Account({"ai", "K"}, {}, {"a"}, 2, "taken"), P[9],
             Account({"ai", "K"}, {}, {"a"}, 2, "taken"))
  <2>1. P[9] = Crypt("a", {"ai"}, {}, {"a"})
    BY <1>1 DEF dhx2_nonces
  <2>2. QED
    BY <2>1, CryptLeads, <1>3 DEF Pointers, Stages, Ciphers
<1>13. PICK Q : Q = << Account({"ai", "rx", "K"}, {}, {"a"}, 2, "asked"),
                       Account({"rx", "K"}, {}, {"a"}, 2, "asked"),
                       Account({"rx", "K"}, {}, {"a"}, 2, "passed"),
                       Account({"rx", "K"}, {}, {"a"}, 2, "taken"),
                       Account({"rx", "K"}, {}, {"a"}, 2, "taken"),
                       Account({"rx", "K"}, {}, {"a"}, 2, "taken"),
                       Account({"K"}, {}, {"a"}, 2, "taken"),
                       Account({"ai", "K"}, {}, {"a"}, 2, "taken"),
                       Account({"ai", "K"}, {}, {"a"}, 2, "taken"),
                       Account({"ai", "K"}, {}, {"a"}, 2, "taken") >>
  OBVIOUS
<1>14. /\ Q[1] = Account({"ai", "rx", "K"}, {}, {"a"}, 2, "asked")
       /\ Q[2] = Account({"rx", "K"}, {}, {"a"}, 2, "asked")
       /\ Q[3] = Account({"rx", "K"}, {}, {"a"}, 2, "passed")
       /\ Q[4] = Account({"rx", "K"}, {}, {"a"}, 2, "taken")
       /\ Q[5] = Account({"rx", "K"}, {}, {"a"}, 2, "taken")
       /\ Q[6] = Account({"rx", "K"}, {}, {"a"}, 2, "taken")
       /\ Q[7] = Account({"K"}, {}, {"a"}, 2, "taken")
       /\ Q[8] = Account({"ai", "K"}, {}, {"a"}, 2, "taken")
       /\ Q[9] = Account({"ai", "K"}, {}, {"a"}, 2, "taken")
       /\ Q[10] = Account({"ai", "K"}, {}, {"a"}, 2, "taken")
  BY <1>13
<1>15. ASSUME NEW k \in 1..9
       PROVE  Leads(f, Q[k], P[k], Q[k + 1])
  <2>1. k = 1 \/ k = 2 \/ k = 3 \/ k = 4 \/ k = 5 \/ k = 6 \/ k = 7 \/ k = 8 \/ k = 9
    OBVIOUS
  <2>2. QED
    BY <1>14, <2>1, <1>4, <1>5, <1>6, <1>7, <1>8, <1>9, <1>10, <1>11, <1>12
<1>16. Goes(f, Q[1], P, 9, Q[10])
  BY <1>2, <1>15 DEF Goes
<1>17. QED
  BY <1>1, <1>14, <1>16

\* The last request of dhx2_login().
LEMMA dhx2_login_last_goes ==
  Goes("dhx2_login", Account({"ai", "K"}, {}, {"a"}, 2, "taken"),
    << Send("cont", "ai", FALSE, [With("old") EXCEPT !.id = "host"]), Leave({"a"}) >>, 2,
       Account({"ai", "K"}, {}, {"a"}, 3, "left"))
<1>1. PICK P : P = << Send("cont", "ai", FALSE, [With("old") EXCEPT !.id = "host"]),
        Leave({"a"}) >>
  OBVIOUS
<1>2. Len(P) = 2 /\ P = [i \in 1..2 |-> P[i]]
  BY <1>1
<1>3. Leads("dhx2_login", Account({"ai", "K"}, {}, {"a"}, 2, "taken"), P[1],
            Account({"ai", "K"}, {}, {"a"}, 3, "asked"))
  <2>1. P[1] = Send("cont", "ai", FALSE, [With("old") EXCEPT !.id = "host"])
    BY <1>1
  <2>2. Sendable("dhx2_login", 2, "taken", "cont", [With("old") EXCEPT !.id = "host"])
    BY DEF Sendable, Changes, NewBy, Rounds, Plain, With, NoField, Field
  <2>3. PICK n, next : n \in Nat /\ n = 2 /\ next = 3 /\ next = n + 1
    OBVIOUS
  <2>4. PICK fields : fields = [With("old") EXCEPT !.id = "host"]
    OBVIOUS
  <2>5. Sendable("dhx2_login", n, "taken", "cont", fields)
    BY <2>2, <2>3, <2>4
  <2>6. Leads("dhx2_login", Account({"ai", "K"}, {}, {"a"}, n, "taken"),
              Send("cont", "ai", FALSE, fields),
              Account({"ai", "K"}, {}, {"a"}, next, "asked"))
    BY <2>3, <2>5, SendLeads, FreesFacts DEF Pointers, Stages, Ciphers
  <2>7. QED
    BY <2>1, <2>3, <2>4, <2>6
<1>4. Leads("dhx2_login", Account({"ai", "K"}, {}, {"a"}, 3, "asked"), P[2],
            Account({"ai", "K"}, {}, {"a"}, 3, "left"))
  <2>1. P[2] = Leave({"a"})
    BY <1>1
  <2>2. QED
    BY <2>1, LeaveLeads, FreesFacts DEF Pointers, Stages, Ciphers
<1>5. PICK Q : Q = << Account({"ai", "K"}, {}, {"a"}, 2, "taken"),
                      Account({"ai", "K"}, {}, {"a"}, 3, "asked"),
                      Account({"ai", "K"}, {}, {"a"}, 3, "left") >>
  OBVIOUS
<1>6. /\ Q[1] = Account({"ai", "K"}, {}, {"a"}, 2, "taken")
      /\ Q[2] = Account({"ai", "K"}, {}, {"a"}, 3, "asked")
      /\ Q[3] = Account({"ai", "K"}, {}, {"a"}, 3, "left")
  BY <1>5
<1>7. ASSUME NEW k \in 1..2
      PROVE  Leads("dhx2_login", Q[k], P[k], Q[k + 1])
  <2>1. k = 1 \/ k = 2
    OBVIOUS
  <2>2. QED
    BY <1>6, <2>1, <1>3, <1>4
<1>8. Goes("dhx2_login", Q[1], P, 2, Q[3])
  BY <1>2, <1>7 DEF Goes
<1>9. QED
  BY <1>1, <1>6, <1>8

\* The last request of dhx2_passwd().
LEMMA dhx2_passwd_last_goes ==
  Goes("dhx2_passwd", Account({"ai", "K"}, {}, {"a"}, 2, "taken"), << Send("passwd", "ai", FALSE,
                       [id |-> "raw", pw |-> "old", new |-> "old", at |-> Field(4, "always")]),
                         Leave({"a"}) >>, 2,
       Account({"ai", "K"}, {}, {"a"}, 3, "left"))
<1>1. PICK P : P = << Send("passwd", "ai", FALSE,
                       [id |-> "raw", pw |-> "old", new |-> "old", at |-> Field(4, "always")]),
                         Leave({"a"}) >>
  OBVIOUS
<1>2. Len(P) = 2 /\ P = [i \in 1..2 |-> P[i]]
  BY <1>1
<1>3. Leads("dhx2_passwd", Account({"ai", "K"}, {}, {"a"}, 2, "taken"), P[1],
            Account({"ai", "K"}, {}, {"a"}, 3, "asked"))
  <2>1. P[1] = Send("passwd", "ai", FALSE, [id |-> "raw", pw |-> "old", new |-> "old",
          at |-> Field(4, "always")])
    BY <1>1
  <2>2. Sendable("dhx2_passwd", 2, "taken", "passwd", [id |-> "raw", pw |-> "old", new |-> "old",
          at |-> Field(4, "always")])
    BY DEF Sendable, Changes, NewBy, Rounds, Plain, With, NoField, Field
  <2>3. PICK n, next : n \in Nat /\ n = 2 /\ next = 3 /\ next = n + 1
    OBVIOUS
  <2>4. PICK fields : fields = [id |-> "raw", pw |-> "old", new |-> "old", at |-> Field(4,
          "always")]
    OBVIOUS
  <2>5. Sendable("dhx2_passwd", n, "taken", "passwd", fields)
    BY <2>2, <2>3, <2>4
  <2>6. Leads("dhx2_passwd", Account({"ai", "K"}, {}, {"a"}, n, "taken"),
              Send("passwd", "ai", FALSE, fields),
              Account({"ai", "K"}, {}, {"a"}, next, "asked"))
    BY <2>3, <2>5, SendLeads, FreesFacts DEF Pointers, Stages, Ciphers
  <2>7. QED
    BY <2>1, <2>3, <2>4, <2>6
<1>4. Leads("dhx2_passwd", Account({"ai", "K"}, {}, {"a"}, 3, "asked"), P[2],
            Account({"ai", "K"}, {}, {"a"}, 3, "left"))
  <2>1. P[2] = Leave({"a"})
    BY <1>1
  <2>2. QED
    BY <2>1, LeaveLeads, FreesFacts DEF Pointers, Stages, Ciphers
<1>5. PICK Q : Q = << Account({"ai", "K"}, {}, {"a"}, 2, "taken"),
                      Account({"ai", "K"}, {}, {"a"}, 3, "asked"),
                      Account({"ai", "K"}, {}, {"a"}, 3, "left") >>
  OBVIOUS
<1>6. /\ Q[1] = Account({"ai", "K"}, {}, {"a"}, 2, "taken")
      /\ Q[2] = Account({"ai", "K"}, {}, {"a"}, 3, "asked")
      /\ Q[3] = Account({"ai", "K"}, {}, {"a"}, 3, "left")
  BY <1>5
<1>7. ASSUME NEW k \in 1..2
      PROVE  Leads("dhx2_passwd", Q[k], P[k], Q[k + 1])
  <2>1. k = 1 \/ k = 2
    OBVIOUS
  <2>2. QED
    BY <1>6, <2>1, <1>3, <1>4
<1>8. Goes("dhx2_passwd", Q[1], P, 2, Q[3])
  BY <1>2, <1>7 DEF Goes
<1>9. QED
  BY <1>1, <1>6, <1>8

\* dhx_login(): the number of its steps, all in order.
LEMMA dhx_login_goes ==
  Goes("dhx_login", Fresh, dhx_login, 16, Account({"ai"}, {}, {"a"}, 2, "left"))
<1>1. PICK fields : fields = [With("old") EXCEPT !.id = "host"]
  OBVIOUS
<1>2. Leads("dhx_login", Account({"ai"}, {}, {"a"}, 1, "taken"),
        Send("cont", "ai", FALSE, fields),
            Account({"ai"}, {}, {"a"}, 2, "asked"))
  <2>1. Sendable("dhx_login", 1, "taken", "cont", fields)
    BY <1>1 DEF Sendable, Changes, NewBy, Rounds, Plain, With, NoField, Field
  <2>2. PICK n, next : n \in Nat /\ n = 1 /\ next = 2 /\ next = n + 1
    OBVIOUS
  <2>3. Sendable("dhx_login", n, "taken", "cont", fields)
    BY <2>1, <2>2
  <2>4. Leads("dhx_login", Account({"ai"}, {}, {"a"}, n, "taken"),
          Send("cont", "ai", FALSE, fields),
              Account({"ai"}, {}, {"a"}, next, "asked"))
    BY <2>2, <2>3, SendLeads, FreesFacts DEF Pointers, Stages, Ciphers
  <2>5. QED
    BY <2>2, <2>4
<1>3. PICK x : x = Send("cont", "ai", FALSE, fields)
  OBVIOUS
<1>4. Goes("dhx_login", Account({"rx"}, {}, {}, 1, "passed"), dhx_key(x), 11,
           Account({"ai"}, {}, {"a"}, 2, "left"))
  BY <1>2, <1>3, dhx_key_goes
<1>5. Goes("dhx_login", Fresh, dhx_login_first \o dhx_key(x), 5 + 11,
           Account({"ai"}, {}, {"a"}, 2, "left"))
  BY <1>4, dhx_login_first_goes, GoesOn DEF Fresh
<1>6. dhx_login = dhx_login_first \o dhx_key(x)
  BY <1>1, <1>3, Zenon DEF dhx_login
<1>7. QED
  BY <1>5, <1>6

\* dhx_passwd().
LEMMA dhx_passwd_goes ==
  Goes("dhx_passwd", Fresh, dhx_passwd, 16, Account({"ai"}, {}, {"a"}, 2, "left"))
<1>1. PICK fields : fields = [id |-> "host", pw |-> "old", new |-> "new", at |-> Field(9,
        "always")]
  OBVIOUS
<1>2. Leads("dhx_passwd", Account({"ai"}, {}, {"a"}, 1, "taken"),
        Send("passwd", "ai", FALSE, fields),
            Account({"ai"}, {}, {"a"}, 2, "asked"))
  <2>1. Sendable("dhx_passwd", 1, "taken", "passwd", fields)
    BY <1>1 DEF Sendable, Changes, NewBy, Rounds, Plain, With, NoField, Field
  <2>2. PICK n, next : n \in Nat /\ n = 1 /\ next = 2 /\ next = n + 1
    OBVIOUS
  <2>3. Sendable("dhx_passwd", n, "taken", "passwd", fields)
    BY <2>1, <2>2
  <2>4. Leads("dhx_passwd", Account({"ai"}, {}, {"a"}, n, "taken"),
          Send("passwd", "ai", FALSE, fields),
              Account({"ai"}, {}, {"a"}, next, "asked"))
    BY <2>2, <2>3, SendLeads, FreesFacts DEF Pointers, Stages, Ciphers
  <2>5. QED
    BY <2>2, <2>4
<1>3. PICK x : x = Send("passwd", "ai", FALSE, fields)
  OBVIOUS
<1>4. Goes("dhx_passwd", Account({"rx"}, {}, {}, 1, "passed"), dhx_key(x), 11,
           Account({"ai"}, {}, {"a"}, 2, "left"))
  BY <1>2, <1>3, dhx_key_goes
<1>5. Goes("dhx_passwd", Fresh, dhx_passwd_first \o dhx_key(x), 5 + 11,
           Account({"ai"}, {}, {"a"}, 2, "left"))
  BY <1>4, dhx_passwd_first_goes, GoesOn DEF Fresh
<1>6. dhx_passwd = dhx_passwd_first \o dhx_key(x)
  BY <1>1, <1>3, Zenon DEF dhx_passwd
<1>7. QED
  BY <1>5, <1>6

\* dhx2_login().
LEMMA dhx2_login_goes ==
  Goes("dhx2_login", Fresh, dhx2_login, 29, Account({"ai", "K"}, {}, {"a"}, 3, "left"))
<1>1. PICK second : second = << Send("cont", "ai", TRUE, [Plain EXCEPT !.id = "host"]) >>
  OBVIOUS
<1>2. PICK last :
        last = << Send("cont", "ai", FALSE, [With("old") EXCEPT !.id = "host"]), Leave({"a"}) >>
  OBVIOUS
<1>3. Goes("dhx2_login", Account({"ai", "rx", "K"}, {}, {"a"}, 1, "taken"), second, 1,
           Account({"ai", "rx", "K"}, {}, {"a"}, 2, "asked"))
  BY <1>1, dhx2_login_second_goes, Zenon
<1>4. Goes("dhx2_login", Account({"ai", "K"}, {}, {"a"}, 2, "taken"), last, 2,
           Account({"ai", "K"}, {}, {"a"}, 3, "left"))
  BY <1>2, dhx2_login_last_goes, Zenon
<1>5. Goes("dhx2_login", Fresh, dhx2_login_first \o dhx2_key, 5 + 12,
           Account({"ai", "rx", "K"}, {}, {"a"}, 1, "taken"))
  BY dhx2_login_first_goes, dhx2_key_goes, GoesOn DEF Fresh
<1>6. Goes("dhx2_login", Fresh, dhx2_login_first \o dhx2_key \o second, 17 + 1,
           Account({"ai", "rx", "K"}, {}, {"a"}, 2, "asked"))
  BY <1>3, <1>5, GoesOn
<1>7. Goes("dhx2_login", Fresh, dhx2_login_first \o dhx2_key \o second \o dhx2_nonces, 18 + 9,
           Account({"ai", "K"}, {}, {"a"}, 2, "taken"))
  BY <1>6, dhx2_nonces_goes, GoesOn
<1>8. Goes("dhx2_login", Fresh, dhx2_login_first \o dhx2_key \o second \o dhx2_nonces \o last,
           27 + 2, Account({"ai", "K"}, {}, {"a"}, 3, "left"))
  BY <1>4, <1>7, GoesOn
<1>9. QED
  BY <1>1, <1>2, <1>8 DEF dhx2_login

\* dhx2_passwd().
LEMMA dhx2_passwd_goes ==
  Goes("dhx2_passwd", Fresh, dhx2_passwd, 29, Account({"ai", "K"}, {}, {"a"}, 3, "left"))
<1>1. PICK second :
        second = << Send("passwd", "ai", TRUE, [Plain EXCEPT !.id = "host",
          !.at = Field(4, "always")]) >>
  OBVIOUS
<1>2. PICK last :
        last = << Send("passwd", "ai", FALSE,
                       [id |-> "raw", pw |-> "old", new |-> "old", at |-> Field(4, "always")]),
                  Leave({"a"}) >>
  OBVIOUS
<1>3. Goes("dhx2_passwd", Account({"ai", "rx", "K"}, {}, {"a"}, 1, "taken"), second, 1,
           Account({"ai", "rx", "K"}, {}, {"a"}, 2, "asked"))
  BY <1>1, dhx2_passwd_second_goes, Zenon
<1>4. Goes("dhx2_passwd", Account({"ai", "K"}, {}, {"a"}, 2, "taken"), last, 2,
           Account({"ai", "K"}, {}, {"a"}, 3, "left"))
  BY <1>2, dhx2_passwd_last_goes, Zenon
<1>5. Goes("dhx2_passwd", Account({"rx"}, {}, {}, 1, "passed"), dhx2_key \o second, 12 + 1,
           Account({"ai", "rx", "K"}, {}, {"a"}, 2, "asked"))
  BY <1>3, dhx2_key_goes, GoesOn
<1>6. Goes("dhx2_passwd", Fresh, dhx2_passwd_first \o (dhx2_key \o second), 5 + 13,
           Account({"ai", "rx", "K"}, {}, {"a"}, 2, "asked"))
  BY <1>5, dhx2_passwd_first_goes, GoesOn DEF Fresh
<1>7. Goes("dhx2_passwd", Fresh, dhx2_passwd_first \o (dhx2_key \o second) \o dhx2_nonces, 18 + 9,
           Account({"ai", "K"}, {}, {"a"}, 2, "taken"))
  BY <1>6, dhx2_nonces_goes, GoesOn
<1>8. Goes("dhx2_passwd", Fresh, dhx2_passwd_first \o (dhx2_key \o second) \o dhx2_nonces \o last,
           27 + 2, Account({"ai", "K"}, {}, {"a"}, 3, "left"))
  BY <1>4, <1>7, GoesOn
<1>9. QED
  BY <1>1, <1>2, <1>8 DEF dhx2_passwd, dhx2_passwd_key

\* randnum_passwd().
LEMMA randnum_passwd_goes ==
  Goes("randnum_passwd", Fresh, randnum_passwd, 9, Account({"ai"}, {}, {"a", "b"}, 1, "left"))
<1>1. PICK start : start = << Alloc("ai", {}), Open("a", {}), Open("b", {"a"}) >>
  OBVIOUS
<1>2. PICK rest :
        rest = << Crypt("a", {}, {}, {"a", "b"}), Crypt("b", {}, {}, {"a", "b"}),
                  Crypt("b", {"ai"}, {}, {"a", "b"}), Crypt("a", {"ai"}, {}, {"a", "b"}),
                  Send("passwd", "ai", FALSE, [With("old") EXCEPT !.new = "new",
                    !.at = Field(16, "even")]),
                  Leave({"a", "b"}) >>
  OBVIOUS
<1>3. Goes("randnum_passwd", Fresh, start, 3, Account({"ai"}, {}, {"a", "b"}, 0, "asked"))
  BY <1>1, randnum_passwd_start_goes, Zenon DEF Fresh
<1>4. Goes("randnum_passwd", Account({"ai"}, {}, {"a", "b"}, 0, "asked"), rest, 6,
           Account({"ai"}, {}, {"a", "b"}, 1, "left"))
  BY <1>2, randnum_passwd_rest_goes, Zenon
<1>5. Goes("randnum_passwd", Fresh, start \o rest, 3 + 6,
        Account({"ai"}, {}, {"a", "b"}, 1, "left"))
  BY <1>3, <1>4, GoesOn
<1>6. QED
  BY <1>1, <1>2, <1>5 DEF randnum_passwd

\* Every function is in order from its first step to its last.
LEMMA ProgramsGo ==
  ASSUME NEW f \in {"noauth_login", "cleartxt_login", "cleartxt_passwd", "randnum_login",
                    "randnum_passwd", "randnum2_login", "dhx_login", "dhx_passwd", "dhx2_login",
                    "dhx2_passwd"}
  PROVE  \E n \in 1..29 : \E g : g.stage = "left" /\ Goes(f, Fresh, Program(f), n, g)
<1>1. ASSUME NEW live \in SUBSET Pointers, NEW open \in SUBSET Ciphers, NEW k \in Nat,
        NEW n \in 1..29,
             Goes(f, Fresh, Program(f), n, Account(live, {}, open, k, "left"))
      PROVE  \E m \in 1..29 : \E g : g.stage = "left" /\ Goes(f, Fresh, Program(f), m, g)
  <2>1. PICK g : g = Account(live, {}, open, k, "left")
    OBVIOUS
  <2>2. g.stage = "left"
    BY <2>1 DEF Account
  <2>3. QED
    BY <1>1, <2>1, <2>2
<1>2. CASE f = "noauth_login"
  <2>1. Program(f) = noauth_login
    BY <1>2 DEF Program
  <2>2. Goes(f, Fresh, Program(f), 2, Account({}, {}, {}, 1, "left"))
    BY <1>2, <2>1, noauth_login_goes DEF Fresh
  <2>3. QED
    BY <1>1, <2>2 DEF Pointers, Ciphers
<1>3. CASE f = "cleartxt_login"
  <2>1. Program(f) = cleartxt_login
    BY <1>3 DEF Program
  <2>2. Goes(f, Fresh, Program(f), 3, Account({"ai"}, {}, {}, 1, "left"))
    BY <1>3, <2>1, cleartxt_login_goes DEF Fresh
  <2>3. QED
    BY <1>1, <2>2 DEF Pointers, Ciphers
<1>4. CASE f = "cleartxt_passwd"
  <2>1. Program(f) = cleartxt_passwd
    BY <1>4 DEF Program
  <2>2. Goes(f, Fresh, Program(f), 3, Account({"ai"}, {}, {}, 1, "left"))
    BY <1>4, <2>1, cleartxt_passwd_goes DEF Fresh
  <2>3. QED
    BY <1>1, <2>2 DEF Pointers, Ciphers
<1>5. CASE f = "randnum_login"
  <2>1. Program(f) = randnum_login
    BY <1>5 DEF Program
  <2>2. Goes(f, Fresh, Program(f), 11, Account({"rx"}, {}, {"a"}, 2, "left"))
    BY <1>5, <2>1, randnum_login_goes DEF Fresh
  <2>3. QED
    BY <1>1, <2>2 DEF Pointers, Ciphers
<1>6. CASE f = "randnum_passwd"
  <2>1. Program(f) = randnum_passwd
    BY <1>6 DEF Program
  <2>2. Goes(f, Fresh, Program(f), 9, Account({"ai"}, {}, {"a", "b"}, 1, "left"))
    BY <1>6, <2>1, randnum_passwd_goes DEF Fresh
  <2>3. QED
    BY <1>1, <2>2 DEF Pointers, Ciphers
<1>7. CASE f = "randnum2_login"
  <2>1. Program(f) = randnum2_login
    BY <1>7 DEF Program
  <2>2. Goes(f, Fresh, Program(f), 16, Account({"ai", "rx"}, {}, {"a"}, 2, "left"))
    BY <1>7, <2>1, randnum2_login_goes DEF Fresh
  <2>3. QED
    BY <1>1, <2>2 DEF Pointers, Ciphers
<1>8. CASE f = "dhx_login"
  <2>1. Program(f) = dhx_login
    BY <1>8 DEF Program
  <2>2. Goes(f, Fresh, Program(f), 16, Account({"ai"}, {}, {"a"}, 2, "left"))
    BY <1>8, <2>1, dhx_login_goes DEF Fresh
  <2>3. QED
    BY <1>1, <2>2 DEF Pointers, Ciphers
<1>9. CASE f = "dhx_passwd"
  <2>1. Program(f) = dhx_passwd
    BY <1>9 DEF Program
  <2>2. Goes(f, Fresh, Program(f), 16, Account({"ai"}, {}, {"a"}, 2, "left"))
    BY <1>9, <2>1, dhx_passwd_goes DEF Fresh
  <2>3. QED
    BY <1>1, <2>2 DEF Pointers, Ciphers
<1>10. CASE f = "dhx2_login"
  <2>1. Program(f) = dhx2_login
    BY <1>10 DEF Program
  <2>2. Goes(f, Fresh, Program(f), 29, Account({"ai", "K"}, {}, {"a"}, 3, "left"))
    BY <1>10, <2>1, dhx2_login_goes DEF Fresh
  <2>3. QED
    BY <1>1, <2>2 DEF Pointers, Ciphers
<1>11. CASE f = "dhx2_passwd"
  <2>1. Program(f) = dhx2_passwd
    BY <1>11 DEF Program
  <2>2. Goes(f, Fresh, Program(f), 29, Account({"ai", "K"}, {}, {"a"}, 3, "left"))
    BY <1>11, <2>1, dhx2_passwd_goes DEF Fresh
  <2>3. QED
    BY <1>1, <2>2 DEF Pointers, Ciphers
<1>12. QED
  BY <1>2, <1>3, <1>4, <1>5, <1>6, <1>7, <1>8, <1>9, <1>10, <1>11

-----------------------------------------------------------------------------
(* The inductive invariant of a login *)

\* What the function that runs holds, by the account h of its next step.
Held(h) ==
  /\ \A x \in Pointers : \/ x \in h.live /\ mem[x] = "live"
                         \/ x \notin h.live /\ mem[x] = "null"
                         \/ x \in h.doubt /\ mem[x] = "null" /\ "null_used" \in trouble
  /\ \A c \in Ciphers : ciphers[c] = IF c \in h.open THEN "open" ELSE "junk"

\* What it has heard: the server and it are at the same message of the exchange.
Heard(h) ==
  /\ ret = "none" <=> h.sent = 0
  /\ ret = "AuthContinue" => srv.round = h.sent
  /\ h.stage \in {"passed", "taken"} => ret = "AuthContinue"
  /\ h.stage = "taken" => id = srv.told

\* The accounts Q of its n steps, with the next one.
Holds(n, Q) ==
  /\ pc \in 1..n /\ Q[n + 1].stage = "left"
  /\ \A k \in 1..n : Leads(fn, Q[k], Program(fn)[k], Q[k + 1])
  /\ Held(Q[pc]) /\ Heard(Q[pc])

InOrder == pc > 0 => fn # "none" /\ \E n \in 1..29 : \E Q : Holds(n, Q)

\* A function runs in two phases, the one of the method that was chosen.
Phases ==
  /\ fn = "none" <=> phase \notin {"authenticating", "changing"}
  /\ phase = "authenticating" => uam \in Registered /\ fn = LoginOf(uam)
  /\ phase = "changing" => uam \in Registered \ {"No_User_Authent"} /\ fn = PasswdOf(uam)
  /\ phase \in {"token", "parms", "done"} => uam \in Registered
  /\ fn = "none" => pc = 0 /\ ret = "none" /\ request = NoRequest
  /\ phase \in {"version", "uam"} => trouble = {} /\ changed.ret = "none"

NoTrouble == trouble \subseteq {"null_used"} /\ ("null_used" \in trouble => uam = "DHX2")

\* A function that is over has kept nothing.
Returned ==
  pc = 0 => /\ \A x \in Pointers : mem[x] # "live"
            /\ \A c \in Ciphers : ciphers[c] # "open"

\* A success is one: the server has a session, or the password that was asked for.
Achieved ==
  ret = "NoErr" => IF fn \in Changes THEN srv.password = NewBy(fn) ELSE srv.session

Admitted ==
  phase \in {"token", "parms", "done", "changing"} => srv.session \/ admitted \in AlreadyLoggedIn

Changed ==
  changed.ret = "NoErr" =>
    changed.uam = uam /\ srv.password = (IF uam = "DHX2" THEN "old" ELSE "new")

Servers == [password : {"old", "new", "other"}, session : BOOLEAN, round : 0..2,
            id : Ids \cup {0}, told : Ids \cup {0}, proof : BOOLEAN]

Typed ==
  /\ LoginTypeOK
  /\ srv \in Servers
  /\ user \in NameLengths

LoginInv ==
  /\ Typed /\ InOrder /\ Phases /\ NoTrouble /\ Returned /\ Achieved /\ Admitted /\ Changed
  /\ RequestsWellFormed

-----------------------------------------------------------------------------
(* What a step that is in order does to the account *)

LEMMA LeadsFrom ==
  ASSUME NEW f, NEW h, NEW s, NEW g, Leads(f, h, s, g)
  PROVE  /\ h \in Accounts /\ h.live \subseteq Frees(f) /\ h.stage # "left"
         /\ s.op \in {"alloc", "open", "crypt", "continue", "leave"} => s.close = h.open
BY DEF Leads

LEMMA NotLast ==
  ASSUME NEW f, NEW h, NEW s, NEW g, Leads(f, h, s, g), s.op # "leave"
  PROVE  g.stage # "left"
<1>1. h \in Accounts /\ h.stage # "left"
  BY DEF Leads
<1>2. CASE s.op \in {"alloc", "allocunchecked", "free", "open", "crypt", "compare"}
  <2>1. g = h \/ \E live, doubt, open : g = Account(live, doubt, open, h.sent, h.stage)
    BY <1>2 DEF Leads
  <2>2. QED
    BY <1>1, <2>1 DEF Account
<1>3. CASE s.op \in {"send", "continue", "takeid"}
  <2>1. \E n, stage : g = Account(h.live, h.doubt, h.open, n, stage) /\ stage # "left"
    BY <1>3 DEF Leads
  <2>2. QED
    BY <2>1 DEF Account
<1>4. QED
  BY <1>2, <1>3 DEF Leads

LEMMA AllocTo ==
  ASSUME NEW f, NEW h, NEW s, NEW g, Leads(f, h, s, g), s.op \in {"alloc", "allocunchecked"}
  PROVE  /\ s.x \in Pointers \ h.live /\ g.live = h.live \cup {s.x}
         /\ h.doubt \subseteq g.doubt
         /\ s.op = "allocunchecked" => f = "dhx2_passwd" /\ s.x \in g.doubt
         /\ g.open = h.open /\ g.sent = h.sent /\ g.stage = h.stage
<1>1. CASE s.op = "alloc"
  <2>1. s.x \in Pointers \ h.live /\ g = Account(h.live \cup {s.x}, h.doubt, h.open, h.sent,
          h.stage)
    BY <1>1 DEF Leads
  <2>2. QED
    BY <1>1, <2>1 DEF Account
<1>2. CASE s.op = "allocunchecked"
  <2>1. /\ s.x \in Pointers \ h.live /\ f = "dhx2_passwd"
        /\ g = Account(h.live \cup {s.x}, h.doubt \cup {s.x}, h.open, h.sent, h.stage)
    BY <1>2 DEF Leads
  <2>2. QED
    BY <2>1 DEF Account
<1>3. QED
  BY <1>1, <1>2

LEMMA FreeTo ==
  ASSUME NEW f, NEW h, NEW s, NEW g, Leads(f, h, s, g), s.op = "free"
  PROVE  /\ s.x \in Pointers /\ g.live = h.live \ {s.x} /\ g.doubt = h.doubt \ {s.x}
         /\ g.open = h.open /\ g.sent = h.sent /\ g.stage = h.stage
<1>1. /\ s.x \in Pointers
      /\ g = Account(h.live \ {s.x}, h.doubt \ {s.x}, h.open, h.sent, h.stage)
  BY DEF Leads
<1>2. QED
  BY <1>1 DEF Account

LEMMA OpenTo ==
  ASSUME NEW f, NEW h, NEW s, NEW g, Leads(f, h, s, g), s.op = "open"
  PROVE  /\ s.c \in Ciphers \ h.open /\ g.open = h.open \cup {s.c}
         /\ g.live = h.live /\ g.doubt = h.doubt /\ g.sent = h.sent /\ g.stage = h.stage
<1>1. s.c \in Ciphers \ h.open /\ g = Account(h.live, h.doubt, h.open \cup {s.c}, h.sent, h.stage)
  BY DEF Leads
<1>2. QED
  BY <1>1 DEF Account

LEMMA CryptTo ==
  ASSUME NEW f, NEW h, NEW s, NEW g, Leads(f, h, s, g), s.op = "crypt"
  PROVE  /\ s.c \in h.open /\ s.reads \subseteq h.live \ h.doubt
    /\ s.frees \subseteq h.live \ h.doubt
         /\ g.live = h.live \ s.frees /\ g.doubt = h.doubt
         /\ g.open = h.open /\ g.sent = h.sent /\ g.stage = h.stage
<1>1. /\ s.c \in h.open /\ s.reads \subseteq h.live \ h.doubt
        /\ s.frees \subseteq h.live \ h.doubt
      /\ g = Account(h.live \ s.frees, h.doubt, h.open, h.sent, h.stage)
  BY DEF Leads
<1>2. QED
  BY <1>1 DEF Account

LEMMA SendTo ==
  ASSUME NEW f, NEW h, NEW s, NEW g, Leads(f, h, s, g), s.op = "send"
  PROVE  /\ s.x # "none" => s.x \in h.live
         /\ s.rx => "rx" \in h.live \ h.doubt
         /\ Sendable(f, h.sent, h.stage, s.cmd, s.fields)
         /\ g.live = h.live /\ g.doubt = h.doubt /\ g.open = h.open
         /\ g.sent = h.sent + 1 /\ g.stage = "asked"
<1>1. g = Account(h.live, h.doubt, h.open, h.sent + 1, "asked")
  BY DEF Leads
<1>2. /\ g.live = h.live /\ g.doubt = h.doubt /\ g.open = h.open
      /\ g.sent = h.sent + 1 /\ g.stage = "asked"
  BY <1>1 DEF Account
<1>3. s.x # "none" => s.x \in h.live
  BY DEF Leads
<1>4. s.rx => "rx" \in h.live \ h.doubt
  BY DEF Leads
<1>5. Sendable(f, h.sent, h.stage, s.cmd, s.fields)
  BY DEF Leads
<1>6. QED
  BY <1>2, <1>3, <1>4, <1>5

LEMMA ContinueTo ==
  ASSUME NEW f, NEW h, NEW s, NEW g, Leads(f, h, s, g), s.op = "continue"
  PROVE  /\ g.live = h.live /\ g.doubt = h.doubt /\ g.open = h.open /\ g.sent = h.sent
         /\ \/ s.code = "AuthContinue" /\ g.stage = "passed"
            \/ s.code = "NoErr" /\ g.stage = "asked"
<1>1. CASE s.code = "AuthContinue" /\ g = Account(h.live, h.doubt, h.open, h.sent, "passed")
  BY <1>1 DEF Account
<1>2. CASE s.code = "NoErr" /\ g = Account(h.live, h.doubt, h.open, h.sent, "asked")
  BY <1>2 DEF Account
<1>3. QED
  BY <1>1, <1>2 DEF Leads

LEMMA TakeIdTo ==
  ASSUME NEW f, NEW h, NEW s, NEW g, Leads(f, h, s, g), s.op = "takeid"
  PROVE  /\ h.stage = "passed" /\ g.stage = "taken"
         /\ g.live = h.live /\ g.doubt = h.doubt /\ g.open = h.open /\ g.sent = h.sent
<1>1. h.stage = "passed" /\ g = Account(h.live, h.doubt, h.open, h.sent, "taken")
  BY DEF Leads
<1>2. QED
  BY <1>1 DEF Account

LEMMA CompareTo ==
  ASSUME NEW f, NEW h, NEW s, NEW g, Leads(f, h, s, g), s.op = "compare"
  PROVE  h.stage = "asked" /\ h.sent > 0 /\ g = h
BY DEF Leads

\* There is no other kind of step: none keeps a pointer to a block it has freed.
LEMMA StepKinds ==
  ASSUME NEW f, NEW h, NEW s, NEW g, Leads(f, h, s, g)
  PROVE  s.op \in {"alloc", "allocunchecked", "free", "open", "crypt", "send", "continue",
                   "takeid", "compare", "leave"}
BY DEF Leads

-----------------------------------------------------------------------------
(* The steps of a function *)

\* The step s that comes next, between the accounts h and g.
Doing(n, Q, h, s, g) ==
  /\ n \in 1..29 /\ Holds(n, Q) /\ h = Q[pc] /\ s = Step /\ g = Q[pc + 1]
  /\ Leads(fn, h, s, g) /\ Held(h) /\ Heard(h)

LEMMA NextStep ==
  ASSUME LoginInv, pc > 0
  PROVE  /\ fn # "none" /\ pc \in Nat
         /\ \E n, Q, h, s, g : Doing(n, Q, h, s, g)
<1>1. fn # "none" /\ pc \in Nat
  BY DEF LoginInv, InOrder, Typed, LoginTypeOK
<1>2. PICK n, Q : n \in 1..29 /\ Holds(n, Q)
  BY DEF LoginInv, InOrder
<1>3. PICK h, s, g : h = Q[pc] /\ s = Step /\ g = Q[pc + 1]
  OBVIOUS
<1>4. pc \in 1..n /\ Held(Q[pc]) /\ Heard(Q[pc])
  BY <1>2 DEF Holds
<1>5. \A k \in 1..n : Leads(fn, Q[k], Program(fn)[k], Q[k + 1])
  BY <1>2 DEF Holds
<1>6. Leads(fn, h, s, g)
  BY <1>3, <1>4, <1>5 DEF Step
<1>7. Held(h) /\ Heard(h)
  BY <1>3, <1>4
<1>8. Doing(n, Q, h, s, g)
  BY <1>2, <1>3, <1>6, <1>7 DEF Doing
<1>9. QED
  BY <1>1, <1>8

\* The step is done, and the next one is in order.
LEMMA StepOn ==
  ASSUME LoginInv, pc > 0, Advance, NEW n, NEW Q, NEW h, NEW s, NEW g, Doing(n, Q, h, s, g),
         s.op # "leave", Held(g)', Heard(g)'
  PROVE  InOrder' /\ Returned'
<1>1. fn # "none" /\ pc \in Nat
  BY NextStep
<1>2. fn' = fn /\ pc' = pc + 1
  BY DEF Advance
<1>3. n \in 1..29 /\ pc \in 1..n /\ g = Q[pc + 1] /\ Q[n + 1].stage = "left"
  BY DEF Doing, Holds
<1>4. g.stage # "left"
  BY NotLast DEF Doing
<1>5. pc + 1 \in 1..n
  BY <1>1, <1>3, <1>4
<1>6. \A k \in 1..n : Leads(fn, Q[k], Program(fn)[k], Q[k + 1])
  BY DEF Doing, Holds
<1>7. Holds(n, Q)'
  <2>1. Q[pc'] = g
    BY <1>2, <1>3
  <2>2. Held(Q[pc])' /\ Heard(Q[pc])'
    BY <2>1 DEF Held, Heard
  <2>3. (\A k \in 1..n : Leads(fn, Q[k], Program(fn)[k], Q[k + 1]))'
    BY <1>2, <1>6
  <2>4. QED
    BY <1>2, <1>3, <1>5, <2>2, <2>3 DEF Holds
<1>8. QED
  BY <1>1, <1>2, <1>3, <1>7 DEF InOrder, Returned

\* What a step of a function that makes no request leaves alone.
LEMMA IdleKeeps ==
  ASSUME LoginInv, pc > 0, Idle, UNCHANGED <<fn, request>>
  PROVE  Phases' /\ Admitted' /\ Changed' /\ RequestsWellFormed'
<1>1. fn # "none" /\ phase \in {"authenticating", "changing"}
  <2>1. fn # "none"
    BY NextStep
  <2>2. QED
    BY <2>1 DEF LoginInv, Phases
<1>2. UNCHANGED <<phase, uam, user, srv, admitted, changed>>
  BY DEF Idle, chosen, kept
<1>3. Phases'
  BY <1>1, <1>2 DEF LoginInv, Phases
<1>4. Admitted'
  BY <1>2 DEF LoginInv, Admitted
<1>5. Changed'
  BY <1>2 DEF LoginInv, Changed
<1>6. RequestsWellFormed'
  BY <1>2 DEF LoginInv, RequestsWellFormed
<1>7. QED
  BY <1>3, <1>4, <1>5, <1>6

LEMMA AdvanceKeeps ==
  ASSUME LoginInv, pc > 0, Advance, Idle, request' = request,
         NEW n, NEW Q, NEW h, NEW s, NEW g, Doing(n, Q, h, s, g),
         s.op # "leave", Held(g)', Heard(g)', NoTrouble',
         mem' \in [Pointers -> {"null", "live", "freed"}],
         ciphers' \in [Ciphers -> {"junk", "open", "closed"}],
         id' \in Ids \cup {0}, ret' \in Codes, ret' = "NoErr" => ret = "NoErr"
  PROVE  LoginInv'
<1>1. InOrder' /\ Returned'
  BY StepOn
<1>2. fn' = fn /\ pc' = pc + 1
  BY DEF Advance
<1>3. Phases' /\ Admitted' /\ Changed' /\ RequestsWellFormed'
  BY <1>2, IdleKeeps
<1>4. UNCHANGED <<phase, version, uam, user, srv, admitted, changed>>
  BY DEF Idle, chosen, kept
<1>5. Achieved'
  BY <1>2, <1>4 DEF LoginInv, Achieved
<1>6. Typed'
  <2>1. pc' \in 0..40
    <3>1. n \in 1..29 /\ pc \in 1..n
      BY DEF Doing, Holds
    <3>2. QED
      BY <1>2, <3>1
  <2>2. LoginTypeOK'
    BY <1>2, <1>4, <2>1 DEF LoginInv, Typed, LoginTypeOK
  <2>3. QED
    BY <1>4, <2>2 DEF LoginInv, Typed
<1>7. QED
  BY <1>1, <1>3, <1>5, <1>6 DEF LoginInv

\* The error exits and the end: all is given back.
LEMMA ExitKeeps ==
  ASSUME LoginInv, pc > 0, Idle, NEW n, NEW Q, NEW h, NEW s, NEW g, Doing(n, Q, h, s, g),
         NEW freed \in SUBSET (h.live \ h.doubt), NEW code \in Codes,
         Exit(h.open, freed, code), code = "NoErr" => ret = "NoErr"
  PROVE  LoginInv'
<1>1. h \in Accounts /\ h.live \subseteq Frees(fn)
  BY LeadsFrom DEF Doing
<1>2. fn' = fn /\ pc' = 0 /\ ret' = code /\ id' = id /\ request' = request
  BY DEF Exit
<1>3. Phases' /\ Admitted' /\ Changed' /\ RequestsWellFormed'
  BY <1>2, IdleKeeps
<1>4. UNCHANGED <<phase, version, uam, user, srv, admitted, changed>>
  BY DEF Idle, chosen, kept
<1>5. Achieved'
  BY <1>2, <1>4 DEF LoginInv, Achieved
<1>6. InOrder'
  BY <1>2 DEF InOrder
<1>7. \A x \in Pointers : x \notin h.live => mem[x] = "null"
  BY DEF Doing, Held
<1>8. \A x \in Pointers : mem[x] \in {"null", "live"}
  BY DEF Doing, Held
<1>9. PICK now \in [Pointers -> {"null", "live"}] :
        now = [x \in Pointers |-> IF x \in freed THEN "null" ELSE mem[x]]
  BY <1>8
<1>10. mem' = [x \in Pointers |-> IF x \in Frees(fn) /\ now[x] = "live" THEN "freed" ELSE now[x]]
  BY <1>9 DEF Exit
<1>11. \A x \in Pointers : mem'[x] \in {"null", "freed"}
  <2> TAKE x \in Pointers
  <2>1. CASE x \in Frees(fn)
    BY <1>9, <1>10, <2>1
  <2>2. CASE x \notin Frees(fn)
    <3>1. mem[x] = "null"
      BY <1>1, <1>7, <2>2
    <3>2. QED
      BY <1>9, <1>10, <2>2, <3>1
  <2>3. QED
    BY <2>1, <2>2
<1>12. \A c \in Ciphers : (c \in h.open => ciphers[c] = "open")
         /\ (c \notin h.open => ciphers[c] = "junk")
  BY DEF Doing, Held
<1>13. ciphers' = [c \in Ciphers |-> IF c \in h.open THEN "closed" ELSE ciphers[c]]
  BY DEF Exit
<1>14. \A c \in Ciphers : ciphers'[c] \in {"closed", "junk"}
  BY <1>12, <1>13
<1>15. Returned'
  BY <1>11, <1>14 DEF Returned
<1>16. trouble' = trouble
  <2>1. ~\E c \in h.open : ciphers[c] # "open"
    BY <1>1, <1>12 DEF Accounts
  <2>2. ~\E x \in Frees(fn) : now[x] = "freed"
    <3>1. Frees(fn) \subseteq Pointers
      BY DEF Frees, Pointers
    <3>2. QED
      BY <1>9, <3>1
  <2>3. trouble' = trouble \cup Wrong("closes_unopened", \E c \in h.open : ciphers[c] # "open")
                           \cup Wrong("freed_twice", \E x \in Frees(fn) : now[x] = "freed")
    BY <1>9 DEF Exit
  <2>4. QED
    BY <2>1, <2>2, <2>3 DEF Wrong
<1>17. NoTrouble'
  BY <1>4, <1>16 DEF LoginInv, NoTrouble
<1>18. Typed'
  <2>1. mem' \in [Pointers -> {"null", "live", "freed"}]
    BY <1>10, <1>11
  <2>2. ciphers' \in [Ciphers -> {"junk", "open", "closed"}]
    BY <1>13, <1>14
  <2>3. LoginTypeOK'
    BY <1>2, <1>4, <2>1, <2>2 DEF LoginInv, Typed, LoginTypeOK
  <2>4. QED
    BY <1>4, <2>3 DEF LoginInv, Typed
<1>19. QED
  BY <1>3, <1>5, <1>6, <1>15, <1>17, <1>18 DEF LoginInv

-----------------------------------------------------------------------------
(* The function of a method *)

LEMMA Logins ==
  ASSUME NEW u \in Registered
  PROVE  LoginOf(u) \in Functions \ (Changes \cup {"none"})
<1>1. u \in {"Cleartxt_Passwrd", "No_User_Authent", "Randnum_Exchange", "2-Way_Randnum_Exchange",
             "DHCAST128", "DHX2"}
  BY DEF Registered
<1>2. LoginOf(u) \in {"noauth_login", "cleartxt_login", "randnum_login", "dhx_login",
                      "randnum2_login", "dhx2_login"}
  BY <1>1 DEF LoginOf
<1>3. LoginOf(u) \in Functions
  BY DEF Functions
<1>4. QED
  BY <1>2, <1>3 DEF Changes

LEMMA ChangesOf ==
  ASSUME NEW u \in Registered \ {"No_User_Authent"}
  PROVE  /\ PasswdOf(u) \in Functions /\ PasswdOf(u) \in Changes /\ PasswdOf(u) # "none"
         /\ NewBy(PasswdOf(u)) = IF u = "DHX2" THEN "old" ELSE "new"
<1>1. u \in {"Cleartxt_Passwrd", "Randnum_Exchange", "2-Way_Randnum_Exchange", "DHCAST128",
        "DHX2"}
  BY DEF Registered
<1>2. /\ PasswdOf(u) \in {"cleartxt_passwd", "randnum_passwd", "dhx_passwd", "dhx2_passwd"}
      /\ PasswdOf(u) = "dhx2_passwd" <=> u = "DHX2"
  BY <1>1 DEF PasswdOf
<1>3. PasswdOf(u) \in Functions
  BY DEF Functions
<1>4. QED
  BY <1>2, <1>3 DEF Changes, NewBy

\* Only the change of a password by DHX2 is made by dhx2_passwd().
LEMMA ChangeOf ==
  ASSUME NEW u \in Registered
  PROVE  /\ LoginOf(u) # "dhx2_passwd"
         /\ u # "No_User_Authent" /\ PasswdOf(u) = "dhx2_passwd" => u = "DHX2"
<1>1. LoginOf(u) # "dhx2_passwd"
  BY Logins DEF Changes
<1>2. ASSUME u # "No_User_Authent", PasswdOf(u) = "dhx2_passwd"
      PROVE  u = "DHX2"
  <2>1. u \in {"Cleartxt_Passwrd", "Randnum_Exchange", "2-Way_Randnum_Exchange", "DHCAST128",
          "DHX2"}
    BY <1>2 DEF Registered
  <2>2. QED
    BY <1>2, <2>1 DEF PasswdOf
<1>3. QED
  BY <1>1, <1>2

\* There are no functions but those of uams.c.
LEMMA FunctionsAre ==
  ASSUME NEW f \in Functions
  PROVE  f \in {"noauth_login", "cleartxt_login", "cleartxt_passwd", "randnum_login",
                "randnum_passwd", "randnum2_login", "dhx_login", "dhx_passwd", "dhx2_login",
                "dhx2_passwd"}
<1>1. ASSUME NEW u \in Registered, f = LoginOf(u)
      PROVE  f \in {"noauth_login", "cleartxt_login", "randnum_login", "dhx_login",
                    "randnum2_login", "dhx2_login"}
  <2>1. u \in {"Cleartxt_Passwrd", "No_User_Authent", "Randnum_Exchange",
          "2-Way_Randnum_Exchange",
               "DHCAST128", "DHX2"}
    BY DEF Registered
  <2>2. QED
    BY <1>1, <2>1 DEF LoginOf
<1>2. ASSUME NEW u \in Registered \ {"No_User_Authent"}, f = PasswdOf(u)
      PROVE  f \in {"cleartxt_passwd", "randnum_passwd", "dhx_passwd", "dhx2_passwd"}
  BY <1>2, ChangesOf DEF Changes
<1>3. QED
  BY <1>1, <1>2 DEF Functions

\* An allocation, an opening or a call of libgcrypt that fails.
LEMMA StepFailsKeeps == LoginInv /\ StepFails => LoginInv'
<1> SUFFICES ASSUME LoginInv, StepFails PROVE LoginInv'
  OBVIOUS
<1>1. PICK n, Q, h, s, g : Doing(n, Q, h, s, g)
  BY NextStep DEF StepFails
<1>2. Step = s /\ Leads(fn, h, s, g)
  BY <1>1 DEF Doing
<1>3. s.op \in {"alloc", "open", "crypt"} /\ Idle /\ pc > 0
  BY <1>2 DEF StepFails
<1>4. s.close = h.open
  BY <1>2, <1>3, LeadsFrom
<1>5. PICK freed : freed = IF s.op = "crypt" THEN s.frees ELSE {}
  OBVIOUS
<1>6. freed \in SUBSET (h.live \ h.doubt)
  <2>1. CASE s.op = "crypt"
    BY <1>2, <1>5, <2>1, CryptTo
  <2>2. CASE s.op # "crypt"
    BY <1>5, <2>2
  <2>3. QED
    BY <2>1, <2>2
<1>7. Exit(h.open, freed, "error")
  BY <1>2, <1>4, <1>5 DEF StepFails
<1>8. "error" \in Codes
  BY DEF Codes
<1>9. QED
  BY <1>1, <1>3, <1>6, <1>7, <1>8, ExitKeeps

\* calloc() or malloc(), checked or not.
LEMMA AllocateKeeps == LoginInv /\ Allocate => LoginInv'
<1> SUFFICES ASSUME LoginInv, Allocate PROVE LoginInv'
  OBVIOUS
<1>1. PICK n, Q, h, s, g : Doing(n, Q, h, s, g)
  BY NextStep DEF Allocate
<1>2. Step = s /\ Leads(fn, h, s, g) /\ Held(h) /\ Heard(h)
  BY <1>1 DEF Doing
<1>3. s.op \in {"alloc", "allocunchecked"} /\ Advance /\ Idle /\ pc > 0
  BY <1>2 DEF Allocate
<1>4. UNCHANGED <<ciphers, id, ret, request, uam, srv>>
  BY <1>3 DEF Allocate, Idle, chosen
<1>5. /\ s.x \in Pointers \ h.live /\ g.live = h.live \cup {s.x}
      /\ h.doubt \subseteq g.doubt
      /\ s.op = "allocunchecked" => fn = "dhx2_passwd" /\ s.x \in g.doubt
      /\ g.open = h.open /\ g.sent = h.sent /\ g.stage = h.stage
  BY <1>2, <1>3, AllocTo
<1>6. \/ mem' = [mem EXCEPT ![s.x] = "live"] /\ trouble' = trouble
      \/ s.op = "allocunchecked" /\ trouble' = trouble \cup {"null_used"} /\ mem' = mem
  <2>1. mem[s.x] = "null"
    BY <1>2, <1>5 DEF Held
  <2>2. \/ /\ mem' = [mem EXCEPT ![s.x] = "live"]
           /\ trouble' = trouble \cup Wrong("lost_block", mem[s.x] = "live")
        \/ s.op = "allocunchecked" /\ trouble' = trouble \cup {"null_used"} /\ mem' = mem
    BY <1>2 DEF Allocate
  <2>3. QED
    BY <2>1, <2>2 DEF Wrong
<1>7. mem \in [Pointers -> {"null", "live", "freed"}]
  BY DEF LoginInv, Typed, LoginTypeOK
<1>8. mem' \in [Pointers -> {"null", "live", "freed"}]
  BY <1>6, <1>7
<1>9. Held(g)'
  <2>1. \A x \in Pointers : \/ x \in g.live /\ mem'[x] = "live"
                            \/ x \notin g.live /\ mem'[x] = "null"
                            \/ x \in g.doubt /\ mem'[x] = "null" /\ "null_used" \in trouble'
    <3> TAKE x \in Pointers
    <3>1. \/ x \in h.live /\ mem[x] = "live"
          \/ x \notin h.live /\ mem[x] = "null"
          \/ x \in h.doubt /\ mem[x] = "null" /\ "null_used" \in trouble
      BY <1>2 DEF Held
    <3>2. CASE mem' = [mem EXCEPT ![s.x] = "live"] /\ trouble' = trouble
      BY <1>5, <1>7, <3>1, <3>2
    <3>3. CASE s.op = "allocunchecked" /\ trouble' = trouble \cup {"null_used"} /\ mem' = mem
      BY <1>5, <3>1, <3>3
    <3>4. QED
      BY <1>6, <3>2, <3>3
  <2>2. \A c \in Ciphers : ciphers'[c] = IF c \in g.open THEN "open" ELSE "junk"
    BY <1>2, <1>4, <1>5 DEF Held
  <2>3. QED
    BY <2>1, <2>2 DEF Held
<1>10. Heard(g)'
  BY <1>2, <1>4, <1>5 DEF Heard
<1>11. NoTrouble'
  <2>1. fn = "dhx2_passwd" => uam = "DHX2"
    <3>1. fn # "none"
      BY <1>3, NextStep
    <3>2. (uam \in Registered /\ fn = LoginOf(uam))
            \/ (uam \in Registered \ {"No_User_Authent"} /\ fn = PasswdOf(uam))
      BY <3>1 DEF LoginInv, Phases
    <3>3. QED
      BY <3>2, ChangeOf
  <2>2. QED
    BY <1>4, <1>5, <1>6, <2>1 DEF LoginInv, NoTrouble
<1>12. ciphers' \in [Ciphers -> {"junk", "open", "closed"}] /\ id' \in Ids \cup {0}
         /\ ret' \in Codes
  BY <1>4 DEF LoginInv, Typed, LoginTypeOK
<1>13. s.op # "leave" /\ request' = request /\ (ret' = "NoErr" => ret = "NoErr")
  BY <1>3, <1>4
<1>14. QED
  BY <1>1, <1>3, <1>8, <1>9, <1>10, <1>11, <1>12, <1>13, AdvanceKeeps

\* free().
LEMMA FreeBlockKeeps == LoginInv /\ FreeBlock => LoginInv'
<1> SUFFICES ASSUME LoginInv, FreeBlock PROVE LoginInv'
  OBVIOUS
<1>1. PICK n, Q, h, s, g : Doing(n, Q, h, s, g)
  BY NextStep DEF FreeBlock
<1>2. Step = s /\ Leads(fn, h, s, g) /\ Held(h) /\ Heard(h)
  BY <1>1 DEF Doing
<1>3. s.op = "free" /\ Advance /\ Idle /\ pc > 0
  <2>1. s.op \in {"free", "freekept"} /\ Advance /\ Idle /\ pc > 0
    BY <1>2 DEF FreeBlock
  <2>2. s.op # "freekept"
    BY <1>2, StepKinds
  <2>3. QED
    BY <2>1, <2>2
<1>4. UNCHANGED <<ciphers, id, ret, request, uam, srv>>
  BY <1>3 DEF FreeBlock, Idle, chosen
<1>5. /\ s.x \in Pointers /\ g.live = h.live \ {s.x} /\ g.doubt = h.doubt \ {s.x}
      /\ g.open = h.open /\ g.sent = h.sent /\ g.stage = h.stage
  BY <1>2, <1>3, FreeTo
<1>6. mem' = [mem EXCEPT ![s.x] = "null"] /\ trouble' = trouble
  <2>1. mem[s.x] \in {"null", "live"}
    BY <1>2, <1>5 DEF Held
  <2>2. /\ mem' = [mem EXCEPT ![s.x] = IF s.op = "free" THEN "null" ELSE "freed"]
        /\ trouble' = trouble \cup Wrong("freed_twice", mem[s.x] = "freed")
    BY <1>2 DEF FreeBlock
  <2>3. QED
    BY <1>3, <2>1, <2>2 DEF Wrong
<1>7. mem \in [Pointers -> {"null", "live", "freed"}]
  BY DEF LoginInv, Typed, LoginTypeOK
<1>8. mem' \in [Pointers -> {"null", "live", "freed"}]
  BY <1>6, <1>7
<1>9. Held(g)'
  <2>1. \A x \in Pointers : \/ x \in g.live /\ mem'[x] = "live"
                            \/ x \notin g.live /\ mem'[x] = "null"
                            \/ x \in g.doubt /\ mem'[x] = "null" /\ "null_used" \in trouble'
    <3> TAKE x \in Pointers
    <3>1. \/ x \in h.live /\ mem[x] = "live"
          \/ x \notin h.live /\ mem[x] = "null"
          \/ x \in h.doubt /\ mem[x] = "null" /\ "null_used" \in trouble
      BY <1>2 DEF Held
    <3>2. CASE x = s.x
      BY <1>5, <1>6, <1>7, <3>2
    <3>3. CASE x # s.x
      BY <1>5, <1>6, <1>7, <3>1, <3>3
    <3>4. QED
      BY <3>2, <3>3
  <2>2. \A c \in Ciphers : ciphers'[c] = IF c \in g.open THEN "open" ELSE "junk"
    BY <1>2, <1>4, <1>5 DEF Held
  <2>3. QED
    BY <2>1, <2>2 DEF Held
<1>10. Heard(g)'
  BY <1>2, <1>4, <1>5 DEF Heard
<1>11. NoTrouble'
  BY <1>4, <1>6 DEF LoginInv, NoTrouble
<1>12. ciphers' \in [Ciphers -> {"junk", "open", "closed"}] /\ id' \in Ids \cup {0}
         /\ ret' \in Codes
  BY <1>4 DEF LoginInv, Typed, LoginTypeOK
<1>13. s.op # "leave" /\ request' = request /\ (ret' = "NoErr" => ret = "NoErr")
  BY <1>3, <1>4
<1>14. QED
  BY <1>1, <1>3, <1>8, <1>9, <1>10, <1>11, <1>12, <1>13, AdvanceKeeps

\* gcry_cipher_open().
LEMMA OpenCipherKeeps == LoginInv /\ OpenCipher => LoginInv'
<1> SUFFICES ASSUME LoginInv, OpenCipher PROVE LoginInv'
  OBVIOUS
<1>1. PICK n, Q, h, s, g : Doing(n, Q, h, s, g)
  BY NextStep DEF OpenCipher
<1>2. Step = s /\ Leads(fn, h, s, g) /\ Held(h) /\ Heard(h)
  BY <1>1 DEF Doing
<1>3. s.op = "open" /\ Advance /\ Idle /\ pc > 0
  BY <1>2 DEF OpenCipher
<1>4. UNCHANGED <<mem, id, ret, request, trouble, uam, srv>>
  BY <1>3 DEF OpenCipher, Idle, chosen
<1>5. /\ s.c \in Ciphers \ h.open /\ g.open = h.open \cup {s.c}
      /\ g.live = h.live /\ g.doubt = h.doubt /\ g.sent = h.sent /\ g.stage = h.stage
  BY <1>2, <1>3, OpenTo
<1>6. ciphers' = [ciphers EXCEPT ![s.c] = "open"]
  BY <1>2 DEF OpenCipher
<1>7. ciphers \in [Ciphers -> {"junk", "open", "closed"}]
  BY DEF LoginInv, Typed, LoginTypeOK
<1>8. ciphers' \in [Ciphers -> {"junk", "open", "closed"}]
  BY <1>6, <1>7
<1>9. Held(g)'
  <2>1. \A c \in Ciphers : ciphers'[c] = IF c \in g.open THEN "open" ELSE "junk"
    <3> TAKE c \in Ciphers
    <3>1. ciphers[c] = IF c \in h.open THEN "open" ELSE "junk"
      BY <1>2 DEF Held
    <3>2. QED
      BY <1>5, <1>6, <1>7, <3>1
  <2>2. QED
    BY <1>2, <1>4, <1>5, <2>1 DEF Held
<1>10. Heard(g)'
  BY <1>2, <1>4, <1>5 DEF Heard
<1>11. NoTrouble'
  BY <1>4 DEF LoginInv, NoTrouble
<1>12. mem' \in [Pointers -> {"null", "live", "freed"}] /\ id' \in Ids \cup {0} /\ ret' \in Codes
  BY <1>4 DEF LoginInv, Typed, LoginTypeOK
<1>13. s.op # "leave" /\ request' = request /\ (ret' = "NoErr" => ret = "NoErr")
  BY <1>3, <1>4
<1>14. QED
  BY <1>1, <1>3, <1>8, <1>9, <1>10, <1>11, <1>12, <1>13, AdvanceKeeps

\* A call of libgcrypt.
LEMMA UseCipherKeeps == LoginInv /\ UseCipher => LoginInv'
<1> SUFFICES ASSUME LoginInv, UseCipher PROVE LoginInv'
  OBVIOUS
<1>1. PICK n, Q, h, s, g : Doing(n, Q, h, s, g)
  BY NextStep DEF UseCipher
<1>2. Step = s /\ Leads(fn, h, s, g) /\ Held(h) /\ Heard(h)
  BY <1>1 DEF Doing
<1>3. s.op = "crypt" /\ Advance /\ Idle /\ pc > 0
  BY <1>2 DEF UseCipher
<1>4. UNCHANGED <<ciphers, id, ret, request, uam, srv>>
  BY <1>3 DEF UseCipher, Idle, chosen
<1>5. /\ s.c \in h.open /\ s.reads \subseteq h.live \ h.doubt
        /\ s.frees \subseteq h.live \ h.doubt
      /\ g.live = h.live \ s.frees /\ g.doubt = h.doubt
      /\ g.open = h.open /\ g.sent = h.sent /\ g.stage = h.stage
  BY <1>2, <1>3, CryptTo
<1>6. h.open \subseteq Ciphers /\ h.live \subseteq Pointers
  BY <1>2, LeadsFrom DEF Accounts
<1>7. trouble' = trouble
  <2>1. ciphers[s.c] = "open"
    BY <1>2, <1>5, <1>6 DEF Held
  <2>2. \A x \in s.reads : mem[x] = "live"
    BY <1>2, <1>5, <1>6 DEF Held
  <2>3. trouble' = trouble \cup Wrong("uses_unopened", ciphers[s.c] # "open")
                           \cup Wrong("uses_freed", \E x \in s.reads : mem[x] # "live")
    BY <1>2 DEF UseCipher
  <2>4. QED
    BY <2>1, <2>2, <2>3 DEF Wrong
<1>8. mem' = [x \in Pointers |-> IF x \in s.frees THEN "null" ELSE mem[x]]
  BY <1>2 DEF UseCipher
<1>9. mem \in [Pointers -> {"null", "live", "freed"}]
  BY DEF LoginInv, Typed, LoginTypeOK
<1>10. mem' \in [Pointers -> {"null", "live", "freed"}]
  BY <1>8, <1>9
<1>11. Held(g)'
  <2>1. \A x \in Pointers : \/ x \in g.live /\ mem'[x] = "live"
                            \/ x \notin g.live /\ mem'[x] = "null"
                            \/ x \in g.doubt /\ mem'[x] = "null" /\ "null_used" \in trouble'
    <3> TAKE x \in Pointers
    <3>1. \/ x \in h.live /\ mem[x] = "live"
          \/ x \notin h.live /\ mem[x] = "null"
          \/ x \in h.doubt /\ mem[x] = "null" /\ "null_used" \in trouble
      BY <1>2 DEF Held
    <3>2. CASE x \in s.frees
      BY <1>5, <1>8, <3>2
    <3>3. CASE x \notin s.frees
      BY <1>5, <1>7, <1>8, <3>1, <3>3
    <3>4. QED
      BY <3>2, <3>3
  <2>2. \A c \in Ciphers : ciphers'[c] = IF c \in g.open THEN "open" ELSE "junk"
    BY <1>2, <1>4, <1>5 DEF Held
  <2>3. QED
    BY <2>1, <2>2 DEF Held
<1>12. Heard(g)'
  BY <1>2, <1>4, <1>5 DEF Heard
<1>13. NoTrouble'
  BY <1>4, <1>7 DEF LoginInv, NoTrouble
<1>14. ciphers' \in [Ciphers -> {"junk", "open", "closed"}] /\ id' \in Ids \cup {0}
         /\ ret' \in Codes
  BY <1>4 DEF LoginInv, Typed, LoginTypeOK
<1>15. s.op # "leave" /\ request' = request /\ (ret' = "NoErr" => ret = "NoErr")
  BY <1>3, <1>4
<1>16. QED
  BY <1>1, <1>3, <1>10, <1>11, <1>12, <1>13, <1>14, <1>15, AdvanceKeeps

\* The id of the reply.
LEMMA TakeTheIdKeeps == LoginInv /\ TakeTheId => LoginInv'
<1> SUFFICES ASSUME LoginInv, TakeTheId PROVE LoginInv'
  OBVIOUS
<1>1. PICK n, Q, h, s, g : Doing(n, Q, h, s, g)
  BY NextStep DEF TakeTheId
<1>2. Step = s /\ Leads(fn, h, s, g) /\ Held(h) /\ Heard(h)
  BY <1>1 DEF Doing
<1>3. s.op = "takeid" /\ Advance /\ Idle /\ pc > 0 /\ id' = srv.told
  BY <1>2 DEF TakeTheId
<1>4. UNCHANGED <<mem, ciphers, ret, request, trouble, uam, srv>>
  BY <1>3 DEF TakeTheId, Idle, chosen
<1>5. /\ h.stage = "passed" /\ g.stage = "taken"
      /\ g.live = h.live /\ g.doubt = h.doubt /\ g.open = h.open /\ g.sent = h.sent
  BY <1>2, <1>3, TakeIdTo
<1>6. Held(g)'
  BY <1>2, <1>4, <1>5 DEF Held
<1>7. Heard(g)'
  BY <1>2, <1>3, <1>4, <1>5 DEF Heard
<1>8. NoTrouble'
  BY <1>4 DEF LoginInv, NoTrouble
<1>9. /\ mem' \in [Pointers -> {"null", "live", "freed"}]
      /\ ciphers' \in [Ciphers -> {"junk", "open", "closed"}] /\ ret' \in Codes
  BY <1>4 DEF LoginInv, Typed, LoginTypeOK
<1>10. id' \in Ids \cup {0}
  BY <1>3 DEF LoginInv, Typed, Servers
<1>11. s.op # "leave" /\ request' = request /\ (ret' = "NoErr" => ret = "NoErr")
  BY <1>3, <1>4
<1>12. QED
  BY <1>1, <1>3, <1>6, <1>7, <1>8, <1>9, <1>10, <1>11, AdvanceKeeps

\* The test of the answer.
LEMMA GoOnKeeps == LoginInv /\ GoOn => LoginInv'
<1> SUFFICES ASSUME LoginInv, GoOn PROVE LoginInv'
  OBVIOUS
<1>1. PICK n, Q, h, s, g : Doing(n, Q, h, s, g)
  BY NextStep DEF GoOn
<1>2. Step = s /\ Leads(fn, h, s, g) /\ Held(h) /\ Heard(h)
  BY <1>1 DEF Doing
<1>3. s.op = "continue" /\ Idle /\ pc > 0
  BY <1>2 DEF GoOn
<1>4. CASE ret = s.code /\ Advance /\ UNCHANGED <<mem, ciphers, id, ret, request, trouble>>
  <2>1. UNCHANGED <<uam, srv>>
    BY <1>3 DEF Idle, chosen
  <2>2. /\ g.live = h.live /\ g.doubt = h.doubt /\ g.open = h.open /\ g.sent = h.sent
        /\ \/ s.code = "AuthContinue" /\ g.stage = "passed"
           \/ s.code = "NoErr" /\ g.stage = "asked"
    BY <1>2, <1>3, ContinueTo
  <2>3. Held(g)'
    BY <1>2, <1>4, <2>2 DEF Held
  <2>4. Heard(g)'
    BY <1>2, <1>4, <2>1, <2>2 DEF Heard
  <2>5. NoTrouble'
    BY <1>4, <2>1 DEF LoginInv, NoTrouble
  <2>6. /\ mem' \in [Pointers -> {"null", "live", "freed"}]
        /\ ciphers' \in [Ciphers -> {"junk", "open", "closed"}]
        /\ id' \in Ids \cup {0} /\ ret' \in Codes
    BY <1>4 DEF LoginInv, Typed, LoginTypeOK
  <2>7. s.op # "leave" /\ request' = request /\ (ret' = "NoErr" => ret = "NoErr")
    BY <1>3, <1>4
  <2>8. QED
    BY <1>1, <1>3, <1>4, <2>3, <2>4, <2>5, <2>6, <2>7, AdvanceKeeps
<1>5. CASE Exit(s.close, {}, ret)
  <2>1. Exit(h.open, {}, ret)
    <3>1. s.close = h.open
      BY <1>2, <1>3, LeadsFrom
    <3>2. QED
      BY <1>5, <3>1
  <2>2. ret \in Codes /\ {} \in SUBSET (h.live \ h.doubt)
    BY DEF LoginInv, Typed, LoginTypeOK
  <2>3. QED
    BY <1>1, <1>3, <2>1, <2>2, ExitKeeps
<1>6. QED
  BY <1>2, <1>4, <1>5 DEF GoOn

\* The server's proof.
LEMMA CompareProofsKeeps == LoginInv /\ CompareProofs => LoginInv'
<1> SUFFICES ASSUME LoginInv, CompareProofs PROVE LoginInv'
  OBVIOUS
<1>1. PICK n, Q, h, s, g : Doing(n, Q, h, s, g)
  BY NextStep DEF CompareProofs
<1>2. Step = s /\ Leads(fn, h, s, g) /\ Held(h) /\ Heard(h)
  BY <1>1 DEF Doing
<1>3. s.op = "compare" /\ Advance /\ Idle /\ pc > 0
        /\ ret' = IF srv.proof THEN ret ELSE "UserNotAuth"
  BY <1>2 DEF CompareProofs
<1>4. UNCHANGED <<mem, ciphers, id, request, trouble, uam, srv>>
  BY <1>3 DEF CompareProofs, Idle, chosen
<1>5. h.stage = "asked" /\ h.sent > 0 /\ g = h
  BY <1>2, <1>3, CompareTo
<1>6. Held(g)'
  BY <1>2, <1>4, <1>5 DEF Held
<1>7. ret # "none"
  <2>1. h.sent # 0
    BY <1>5
  <2>2. QED
    BY <1>2, <2>1 DEF Heard
<1>8. Heard(g)'
  BY <1>2, <1>3, <1>4, <1>5, <1>7 DEF Heard
<1>9. NoTrouble'
  BY <1>4 DEF LoginInv, NoTrouble
<1>10. /\ mem' \in [Pointers -> {"null", "live", "freed"}]
       /\ ciphers' \in [Ciphers -> {"junk", "open", "closed"}] /\ id' \in Ids \cup {0}
  BY <1>4 DEF LoginInv, Typed, LoginTypeOK
<1>11. ret' \in Codes
  BY <1>3 DEF LoginInv, Typed, LoginTypeOK, Codes, Refusals
<1>12. s.op # "leave" /\ request' = request /\ (ret' = "NoErr" => ret = "NoErr")
  BY <1>3, <1>4
<1>13. QED
  BY <1>1, <1>3, <1>6, <1>8, <1>9, <1>10, <1>11, <1>12, AdvanceKeeps

\* The end of the function.
LEMMA LeaveFunctionKeeps == LoginInv /\ LeaveFunction => LoginInv'
<1> SUFFICES ASSUME LoginInv, LeaveFunction PROVE LoginInv'
  OBVIOUS
<1>1. PICK n, Q, h, s, g : Doing(n, Q, h, s, g)
  BY NextStep DEF LeaveFunction
<1>2. Step = s /\ Leads(fn, h, s, g)
  BY <1>1 DEF Doing
<1>3. s.op = "leave" /\ Idle /\ pc > 0 /\ Exit(s.close, {}, ret)
  BY <1>2 DEF LeaveFunction
<1>4. s.close = h.open
  BY <1>2, <1>3, LeadsFrom
<1>5. Exit(h.open, {}, ret)
  BY <1>3, <1>4
<1>6. ret \in Codes /\ {} \in SUBSET (h.live \ h.doubt)
  BY DEF LoginInv, Typed, LoginTypeOK
<1>7. QED
  BY <1>1, <1>3, <1>5, <1>6, ExitKeeps

-----------------------------------------------------------------------------
(* A request and its answer *)

\* Where the field after the name is: even, but for dhx_passwd() and dhx2_passwd().
LEMMA FieldsAreEven ==
  ASSUME user \in 1..255, NEW m, m = Request, NEW f, f = fn, NEW k, NEW stage,
         Sendable(f, k, stage, Step.cmd, Step.fields)
  PROVE  m.at % 2 = 1 => \/ fn = "dhx_passwd" /\ user % 2 = 1
                         \/ fn = "dhx2_passwd" /\ user % 2 = 0
<1>1. PICK at : at = Step.fields.at
  OBVIOUS
<1>2. m.at = IF at = NoField THEN 0
             ELSE IF Step.cmd = "login" THEN LoginField(at.uam, Padding(at.pad))
             ELSE PasswdField(at.uam, Padding(at.pad))
  BY <1>1 DEF Request
<1>3. CASE at = NoField
  BY <1>2, <1>3
<1>4. CASE at = Field(16, "even")
  <2>1. at.uam = 16 /\ at.pad = "even"
    BY <1>4 DEF Field
  <2>2. m.at \in {0, LoginField(16, PadWhenEven), PasswdField(16, PadWhenEven)}
    BY <1>2, <2>1 DEF Padding
  <2>3. LoginField(16, PadWhenEven) % 2 = 0 /\ PasswdField(16, PadWhenEven) % 2 = 0
    BY DEF LoginField, PasswdField, PadWhenEven
  <2>4. QED
    BY <2>2, <2>3
<1>5. CASE at = Field(9, "odd") /\ Step.cmd = "login"
  <2>1. at.uam = 9 /\ at.pad = "odd"
    BY <1>5 DEF Field
  <2>2. m.at \in {0, LoginField(9, PadWhenOdd)}
    BY <1>2, <1>5, <2>1 DEF Padding
  <2>3. LoginField(9, PadWhenOdd) % 2 = 0
    BY DEF LoginField, PadWhenOdd
  <2>4. QED
    BY <2>2, <2>3
<1>6. CASE f = "dhx_passwd" /\ at = Field(9, "always") /\ Step.cmd # "login"
  <2>1. at.uam = 9 /\ at.pad = "always"
    BY <1>6 DEF Field
  <2>2. m.at \in {0, PasswdField(9, 1)}
    BY <1>2, <1>6, <2>1 DEF Padding
  <2>3. PasswdField(9, 1) % 2 = 1 => user % 2 = 1
    BY DEF PasswdField
  <2>4. QED
    BY <1>6, <2>2, <2>3
<1>7. CASE f = "dhx2_passwd" /\ at = Field(4, "always") /\ Step.cmd # "login"
  <2>1. at.uam = 4 /\ at.pad = "always"
    BY <1>7 DEF Field
  <2>2. m.at \in {0, PasswdField(4, 1)}
    BY <1>2, <1>7, <2>1 DEF Padding
  <2>3. PasswdField(4, 1) % 2 = 1 => user % 2 = 0
    BY DEF PasswdField
  <2>4. QED
    BY <1>7, <2>2, <2>3
<1>8. f \in {"dhx_passwd", "dhx2_passwd"} => Step.cmd # "login"
  BY DEF Sendable, Changes
<1>9. QED
  BY <1>1, <1>3, <1>4, <1>5, <1>6, <1>7, <1>8 DEF Sendable

LEMMA SendRequestKeeps == LoginInv /\ SendRequest => LoginInv'
<1> SUFFICES ASSUME LoginInv, SendRequest PROVE LoginInv'
  OBVIOUS
<1>1. PICK n, Q, h, s, g : Doing(n, Q, h, s, g)
  BY NextStep DEF SendRequest
<1>2. Step = s /\ Leads(fn, h, s, g) /\ Held(h) /\ Heard(h)
  BY <1>1 DEF Doing
<1>3. s.op = "send" /\ Advance /\ pc > 0
  BY <1>2 DEF SendRequest
<1>4. fn' = fn /\ pc' = pc + 1 /\ UNCHANGED <<phase, chosen, mem, ciphers, id, kept>>
  BY <1>3 DEF SendRequest, Advance
<1>5. UNCHANGED <<version, uam, user, admitted, changed>>
  BY <1>4 DEF chosen, kept
<1>6. /\ s.x # "none" => s.x \in h.live
      /\ s.rx => "rx" \in h.live \ h.doubt
      /\ Sendable(fn, h.sent, h.stage, s.cmd, s.fields)
      /\ g.live = h.live /\ g.doubt = h.doubt /\ g.open = h.open
      /\ g.sent = h.sent + 1 /\ g.stage = "asked"
  BY <1>2, <1>3, SendTo
<1>7. h \in Accounts /\ h.live \subseteq Pointers /\ h.sent \in Nat
  BY <1>2, LeadsFrom DEF Accounts
<1>8. PICK m : m = Request
  OBVIOUS
<1>9. request' = m /\ (NextRound(m) \/ Accept(m) \/ Refuse(m) \/ NotSent(m))
  BY <1>8 DEF SendRequest
<1>10. /\ m.cmd = s.cmd /\ m.new = s.fields.new /\ m.pw = s.fields.pw
       /\ m.id = WireId(s.fields.id) /\ m.due = IF Round > 0 THEN srv.told ELSE -1
  BY <1>2, <1>8 DEF Request
<1>11. Round = h.sent
  <2>1. CASE h.sent = 0
    BY <1>2, <2>1 DEF Heard, Round
  <2>2. CASE h.sent > 0
    <3>1. h.stage = "taken"
      BY <1>6, <2>2 DEF Sendable
    <3>2. ret = "AuthContinue" /\ srv.round = h.sent
      BY <1>2, <3>1 DEF Heard
    <3>3. QED
      BY <3>2 DEF Round
  <2>3. QED
    BY <1>7, <2>1, <2>2
<1>12. fn \in Functions /\ phase \in {"authenticating", "changing"} /\ fn # "none"
  <2>1. fn # "none"
    BY <1>3, NextStep
  <2>2. QED
    BY <2>1 DEF LoginInv, Typed, LoginTypeOK, Phases
<1>13. PICK was, now : was \in Servers /\ was = srv /\ now = srv'
  BY DEF LoginInv, Typed
<1>14. Rounds(fn) \in 1..3
  BY DEF Rounds
\* What the server makes of it.
<1>15. /\ srv' \in Servers
       /\ ret' \in Codes \ {"none"}
       /\ ret' = "AuthContinue" => srv'.round = h.sent + 1
       /\ srv'.session = srv.session \/ (srv'.session /\ fn \notin Changes)
       /\ srv'.password = srv.password \/ (fn \in Changes /\ srv'.password = NewBy(fn))
       /\ ret' = "NoErr" => IF fn \in Changes THEN srv'.password = NewBy(fn) ELSE srv'.session
  <2>1. CASE NextRound(m)
    <3>1. PICK i \in Ids, short \in BOOLEAN :
            srv' = [srv EXCEPT !.round = Round + 1, !.id = i, !.told = IF short THEN 0 ELSE i]
      BY <2>1 DEF NextRound
    <3>2. PICK r \in 0..2, t \in Ids \cup {0} : r = Round + 1 /\ t = IF short THEN 0 ELSE i
      BY <1>7, <1>11, <1>14, <2>1 DEF NextRound
    <3>3. now = [was EXCEPT !.round = r, !.id = i, !.told = t] /\ i \in Ids \cup {0}
      BY <1>13, <3>1, <3>2
    <3>4. now \in Servers
      BY <1>13, <3>2, <3>3 DEF Servers
    <3>5. now.round = r /\ now.session = was.session /\ now.password = was.password
      BY <1>13, <3>3 DEF Servers
    <3>6. ret' = "AuthContinue"
      BY <2>1 DEF NextRound
    <3>7. QED
      BY <1>11, <1>13, <3>2, <3>4, <3>5, <3>6 DEF Codes
  <2>2. CASE Accept(m)
    <3>1. PICK proof \in BOOLEAN :
            srv' = [srv EXCEPT !.round = 0, !.id = 0, !.told = 0, !.proof = proof,
                               !.session = (@ \/ m.cmd # "passwd"),
                               !.password = IF m.cmd = "passwd" THEN m.new ELSE @]
      BY <2>2 DEF Accept
    <3>2. ret' \in {"NoErr", "timeout"} /\ h.sent + 1 = Rounds(fn)
      BY <1>11, <2>2 DEF Accept
    <3>3. IF fn \in Changes THEN m.cmd = "passwd" /\ m.new = NewBy(fn) ELSE m.cmd # "passwd"
      BY <1>6, <1>10, <3>2 DEF Sendable
    <3>4. NewBy(fn) \in {"old", "new"}
      BY DEF NewBy
    <3>5. PICK none \in 0..2 : none = 0 /\ none \in Ids \cup {0}
      OBVIOUS
    <3>6. CASE fn \in Changes
      <4>1. PICK new \in {"old", "new", "other"} : new = NewBy(fn)
        BY <3>4
      <4>2. m.cmd = "passwd" /\ m.new = new
        BY <3>3, <3>6, <4>1
      <4>3. PICK b \in BOOLEAN : b = srv.session /\ (srv.session \/ m.cmd # "passwd") = b
        BY <1>13, <4>2 DEF Servers
      <4>4. now = [was EXCEPT !.round = none, !.id = none, !.told = none, !.proof = proof,
                              !.session = b, !.password = new]
        BY <1>13, <3>1, <3>5, <4>2, <4>3
      <4>5. now \in Servers /\ now.session = b /\ now.password = new
        BY <1>13, <3>5, <4>4 DEF Servers
      <4>6. QED
        BY <1>13, <3>2, <3>6, <4>1, <4>3, <4>5 DEF Codes
    <3>7. CASE fn \notin Changes
      <4>1. m.cmd # "passwd"
        BY <3>3, <3>7
      <4>2. PICK w \in {"old", "new", "other"} : w = was.password
        BY <1>13 DEF Servers
      <4>3. PICK b \in BOOLEAN : b /\ (srv.session \/ m.cmd # "passwd") = b
        BY <1>13, <4>1 DEF Servers
      <4>4. now = [was EXCEPT !.round = none, !.id = none, !.told = none, !.proof = proof,
                              !.session = b, !.password = w]
        BY <1>13, <3>1, <3>5, <4>1, <4>2, <4>3
      <4>5. now \in Servers /\ now.session = b /\ now.password = w
        BY <1>13, <3>5, <4>4 DEF Servers
      <4>6. QED
        BY <1>13, <3>2, <3>7, <4>2, <4>3, <4>5 DEF Codes
    <3>8. QED
      BY <3>6, <3>7
  <2>3. CASE Refuse(m)
    <3>1. PICK none \in 0..2 : none = 0 /\ none \in Ids \cup {0}
      OBVIOUS
    <3>2. now = [was EXCEPT !.round = none, !.id = none, !.told = none] /\ ret' \in Refusals
      BY <1>13, <2>3, <3>1 DEF Refuse
    <3>3. now \in Servers /\ now.session = was.session /\ now.password = was.password
      BY <1>13, <3>1, <3>2 DEF Servers
    <3>4. QED
      BY <1>13, <3>2, <3>3 DEF Codes, Refusals
  <2>4. CASE NotSent(m)
    <3>1. srv' = srv /\ ret' \in {"error", "timeout"}
      BY <2>4 DEF NotSent
    <3>2. QED
      BY <1>13, <3>1 DEF Codes
  <2>5. QED
    BY <1>9, <2>1, <2>2, <2>3, <2>4
<1>16. trouble' = trouble
  <2>1. ~(s.x # "none" /\ mem[s.x] # "live" /\ "null_used" \notin trouble)
    BY <1>2, <1>6, <1>7 DEF Held
  <2>2. ~(s.rx /\ mem["rx"] # "live")
    BY <1>2, <1>6, <1>7 DEF Held
  <2>3. trouble' = trouble \cup
          Wrong("uses_freed", s.x # "none" /\ mem[s.x] # "live" /\ "null_used" \notin trouble)
          \cup Wrong("no_reply_block", s.rx /\ mem["rx"] # "live")
    BY <1>2 DEF SendRequest
  <2>4. QED
    BY <2>1, <2>2, <2>3 DEF Wrong
<1>17. Held(g)'
  BY <1>2, <1>4, <1>6, <1>16 DEF Held
<1>18. Heard(g)'
  BY <1>6, <1>7, <1>15 DEF Heard
<1>19. InOrder' /\ Returned'
  BY <1>1, <1>3, <1>17, <1>18, StepOn
<1>20. Phases'
  BY <1>4, <1>5, <1>12 DEF LoginInv, Phases
<1>21. NoTrouble'
  BY <1>5, <1>16 DEF LoginInv, NoTrouble
<1>22. Achieved'
  BY <1>4, <1>15 DEF Achieved
<1>23. Admitted'
  BY <1>4, <1>5, <1>15 DEF LoginInv, Admitted
<1>24. Changed'
  <2>1. fn \in Changes => NewBy(fn) = IF uam = "DHX2" THEN "old" ELSE "new"
    <3>1. CASE phase = "authenticating"
      BY <3>1, Logins DEF LoginInv, Phases
    <3>2. CASE phase = "changing"
      BY <3>2, ChangesOf DEF LoginInv, Phases
    <3>3. QED
      BY <1>12, <3>1, <3>2
  <2>2. QED
    BY <1>5, <1>15, <2>1 DEF LoginInv, Changed
<1>25. Typed'
  <2>1. pc' \in 0..40
    <3>1. n \in 1..29 /\ pc \in 1..n
      BY <1>1 DEF Doing, Holds
    <3>2. QED
      BY <1>4, <3>1
  <2>2. LoginTypeOK'
    BY <1>4, <1>5, <1>15, <2>1 DEF LoginInv, Typed, LoginTypeOK, Servers
  <2>3. QED
    BY <1>5, <1>15, <2>2 DEF LoginInv, Typed
<1>26. RequestsWellFormed'
  <2>1. request'.due # -1 => \/ request'.id = request'.due
                             \/ fn = "dhx2_passwd" /\ request'.pw = "old"
                                  /\ request'.id = htons(request'.due)
    <3> SUFFICES ASSUME m.due # -1
                 PROVE  \/ m.id = m.due
                        \/ fn = "dhx2_passwd" /\ m.pw = "old" /\ m.id = htons(m.due)
      BY <1>9
    <3>1. h.sent > 0 /\ m.due = srv.told
      BY <1>10, <1>11
    <3>2. /\ h.stage = "taken"
          /\ \/ s.fields.id = "host"
             \/ fn = "dhx2_passwd" /\ s.fields.id = "raw" /\ s.fields.pw = "old"
      BY <1>6, <3>1 DEF Sendable
    <3>3. id = srv.told
      BY <1>2, <3>2 DEF Heard
    <3>4. CASE s.fields.id = "host"
      <4>1. m.id = id
        BY <1>10, <3>4 DEF WireId
      <4>2. QED
        BY <3>1, <3>3, <4>1
    <3>5. CASE fn = "dhx2_passwd" /\ s.fields.id = "raw" /\ s.fields.pw = "old"
      <4>1. m.id = htons(id)
        BY <1>10, <3>5 DEF WireId
      <4>2. QED
        BY <1>10, <3>1, <3>3, <3>5, <4>1
    <3>6. QED
      BY <3>2, <3>4, <3>5
  <2>2. request'.at % 2 = 1 => \/ fn = "dhx_passwd" /\ user % 2 = 1
                               \/ fn = "dhx2_passwd" /\ user % 2 = 0
    <3>1. user \in 1..255
      <4>1. user \in NameLengths
        BY DEF LoginInv, Typed
      <4>2. QED
        BY <4>1, LoginNames
    <3>2. QED
      BY <1>2, <1>6, <1>8, <1>9, <3>1, FieldsAreEven
  <2>3. QED
    BY <1>4, <1>5, <2>1, <2>2 DEF RequestsWellFormed
<1>27. QED
  BY <1>19, <1>20, <1>21, <1>22, <1>23, <1>24, <1>25, <1>26 DEF LoginInv

-----------------------------------------------------------------------------
(* The connection, while no function runs, and as one starts and ends *)

\* What the choices give: a version the client knows, a method it knows.
LEMMA ParsedKnown == \A names : ParseVersions(names) \subseteq KnownVersions
BY DEF ParseVersions

LEMMA GreatestKnown ==
  ASSUME NEW n \in Nat, NEW S, S \subseteq 0..n, S # {}
  PROVE  Max(S) \in S /\ \A y \in S : y <= Max(S)
<1>1. PICK T : T = {n - x : x \in S}
  OBVIOUS
<1>2. T \subseteq Nat /\ T # {}
  <2>1. \A x \in S : n - x \in Nat
    OBVIOUS
  <2>2. QED
    BY <1>1, <2>1
<1> DEFINE R == OpToRel(<, Nat)
<1>3. PICK z \in T : \A y \in T : ~ (<<y, z>> \in R)
  <2>1. IsWellFoundedOn(R, Nat)
    BY NatLessThanWellFounded
  <2> HIDE DEF R
  <2>2. QED
    BY <1>2, <2>1, WFMin
<1>5. \A y \in T : ~(y < z)
  BY <1>2, <1>3 DEF OpToRel
<1>6. \A y \in T : z <= y
  BY <1>2, <1>5
<1> HIDE DEF R
<1>7. PICK x \in S : z = n - x
  BY <1>1
<1>8. \A y \in S : y <= x
  <2> TAKE y \in S
  <2>1. n - y \in T
    BY <1>1
  <2>2. n - x <= n - y
    BY <1>6, <1>7, <2>1
  <2>3. QED
    BY <2>2
<1>9. \E m \in S : \A y \in S : m >= y
  BY <1>7, <1>8
<1>10. Max(S) \in S /\ \A y \in S : Max(S) >= y
  BY <1>9 DEF Max
<1>11. QED
  BY <1>10

\* The version: the one asked for, or the highest.
LEMMA Picked ==
  ASSUME NEW S, S \subseteq KnownVersions, NEW asked
  PROVE  /\ S = {} => PickVersion(S, asked) = 0
         /\ S # {} => PickVersion(S, asked) \in S /\ PickVersion(S, asked) # 0
         /\ asked \in S => PickVersion(S, asked) = asked
         /\ S # {} /\ asked \notin S \cup 33..255 => \A v \in S : v <= PickVersion(S, asked)
<1>1. S \subseteq 0..32 /\ 0 \notin S
  BY DEF KnownVersions
<1>2. CASE S = {}
  BY <1>2 DEF PickVersion
<1>3. CASE S # {}
  <2>1. PICK top : top = Max(S)
    OBVIOUS
  <2>2. top \in S /\ \A y \in S : y <= top
    BY <1>1, <1>3, <2>1, GreatestKnown
  <2>3. PICK wanted : wanted = IF asked > MaxSupported THEN MaxSupported ELSE asked
    OBVIOUS
  <2>4. PickVersion(S, asked) = IF wanted \in S THEN wanted ELSE top
    BY <1>3, <2>1, <2>3 DEF PickVersion
  <2>5. asked \in S => wanted = asked
    BY <1>1, <2>3 DEF MaxSupported
  <2>6. wanted \in S /\ asked \notin S => \A v \in S : v <= wanted
    <3>1. wanted \in S /\ asked \notin S => wanted = 32
      BY <2>3 DEF MaxSupported
    <3>2. \A v \in S : v <= 32
      BY <1>1
    <3>3. QED
      BY <3>1, <3>2
  <2>7. QED
    BY <1>1, <1>3, <2>2, <2>4, <2>5, <2>6
<1>4. QED
  BY <1>2, <1>3

\* The bits of the methods.
LEMMA Bits ==
  ASSUME NEW u, UamBit(u) # 0
  PROVE  u \in ToSet(UamStrings) /\ UamBit(u) \in 1..8 /\ UamStrings[UamBit(u)] = u
<1>1. u \in ToSet(UamStrings)
  BY DEF UamBit
<1>2. DOMAIN UamStrings = 1..8
  BY DEF UamStrings
<1>3. \E i \in DOMAIN UamStrings : UamStrings[i] = u
  BY <1>1 DEF ToSet
<1>4. PICK b : b = UamBit(u)
  OBVIOUS
<1>5. b = CHOOSE i \in DOMAIN UamStrings : UamStrings[i] = u
  BY <1>1, <1>4 DEF UamBit
<1>6. b \in DOMAIN UamStrings /\ UamStrings[b] = u
  BY <1>3, <1>5
<1>7. QED
  BY <1>1, <1>2, <1>4, <1>6

\* The strongest method.
LEMMA PickedUam ==
  ASSUME NEW offered, NEW allowed, \A u \in offered : UamBit(u) # 0, NEW u,
    u = PickUam(offered, allowed)
  PROVE  /\ offered \cap allowed = {} => u = "none"
         /\ offered \cap allowed # {} => /\ u \in offered \cap allowed /\ u # "none"
                                         /\ \A v \in offered \cap allowed : UamBit(v) <= UamBit(u)
<1>1. CASE offered \cap allowed = {}
  BY <1>1 DEF PickUam
<1>2. CASE offered \cap allowed # {}
  <2>1. PICK S : S = {UamBit(v) : v \in offered \cap allowed}
    OBVIOUS
  <2>2. S \subseteq 0..8 /\ S # {}
    <3>1. \A v \in offered \cap allowed : UamBit(v) \in 1..8
      BY Bits
    <3>2. QED
      BY <1>2, <2>1, <3>1
  <2>3. PICK top : top = Max(S)
    OBVIOUS
  <2>4. top \in S /\ \A y \in S : y <= top
    BY <2>2, <2>3, GreatestKnown
  <2>5. PICK w \in offered \cap allowed : top = UamBit(w)
    BY <2>1, <2>4
  <2>6. u = UamStrings[top]
    BY <1>2, <2>1, <2>3 DEF PickUam
  <2>7. u = w
    BY <2>5, <2>6, Bits
  <2>8. \A v \in offered \cap allowed : UamBit(v) <= UamBit(w)
    BY <2>1, <2>4, <2>5
  <2>9. u # "none"
    <3>1. u \in ToSet(UamStrings)
      BY <2>5, <2>7, Bits
    <3>2. "none" \notin ToSet(UamStrings)
      BY DEF ToSet, UamStrings
    <3>3. QED
      BY <3>1, <3>2
  <2>10. QED
    BY <1>2, <2>7, <2>8, <2>9
<1>3. QED
  BY <1>1, <1>2

LEMMA ParsedUams == \A names : \A u \in ParseUams(names) : UamBit(u) # 0
BY DEF ParseUams

\* No function runs before or after.
LEMMA QuietKeeps ==
  ASSUME LoginInv, fn = "none", Running, user' = user
  PROVE  /\ InOrder' /\ Returned' /\ Achieved' /\ RequestsWellFormed'
         /\ fn' = "none" /\ pc' = 0 /\ ret' = "none" /\ request' = NoRequest /\ trouble' = trouble
<1>1. UNCHANGED <<fn, pc, mem, ciphers, id, ret, request, trouble>>
  BY DEF Running, running
<1>2. pc = 0 /\ ret = "none" /\ request = NoRequest
  BY DEF LoginInv, Phases
<1>3. Returned
  BY DEF LoginInv
<1>4. InOrder' /\ Returned' /\ Achieved'
  BY <1>1, <1>2, <1>3 DEF InOrder, Returned, Achieved
<1>5. RequestsWellFormed'
  BY <1>1 DEF LoginInv, RequestsWellFormed
<1>6. QED
  BY <1>1, <1>2, <1>4, <1>5

\* A function starts with nothing, in order.
LEMMA EnterKeeps ==
  ASSUME NEW f \in Functions \ {"none"}, Enter(f)
  PROVE  /\ InOrder' /\ Returned' /\ Achieved' /\ RequestsWellFormed'
         /\ mem' \in [Pointers -> {"null", "live", "freed"}]
         /\ ciphers' \in [Ciphers -> {"junk", "open", "closed"}]
         /\ fn' = f /\ pc' = 1 /\ id' = 0 /\ ret' = "none"
<1>1. /\ fn' = f /\ pc' = 1 /\ ret' = "none" /\ id' = 0 /\ request' = NoRequest
      /\ mem' = [x \in Pointers |-> "null"] /\ ciphers' = [c \in Ciphers |-> "junk"]
  BY DEF Enter
<1>2. PICK n, g : n \in 1..29 /\ g.stage = "left" /\ Goes(f, Fresh, Program(f), n, g)
  BY FunctionsAre, ProgramsGo
<1>3. PICK Q : /\ Q[1] = Fresh /\ Q[n + 1] = g
               /\ \A k \in 1..n : Leads(f, Q[k], Program(f)[k], Q[k + 1])
  BY <1>2 DEF Goes
<1>4. PICK h : h = Fresh
  OBVIOUS
<1>5. h.live = {} /\ h.doubt = {} /\ h.open = {} /\ h.sent = 0 /\ h.stage = "asked"
  BY <1>4 DEF Fresh, Account
<1>6. Held(h)' /\ Heard(h)'
  BY <1>1, <1>5 DEF Held, Heard
<1>7. Q[pc'] = h
  BY <1>1, <1>3, <1>4
<1>8. (Held(Q[pc]) /\ Heard(Q[pc]))'
  BY <1>6, <1>7 DEF Held, Heard
<1>9. (\A k \in 1..n : Leads(fn, Q[k], Program(fn)[k], Q[k + 1]))'
  BY <1>1, <1>3
<1>10. Holds(n, Q)'
  BY <1>1, <1>2, <1>3, <1>8, <1>9 DEF Holds
<1>11. InOrder' /\ Returned' /\ Achieved'
  <2>1. InOrder'
    <3>1. (\E k \in 1..29 : \E R : Holds(k, R))'
      BY <1>2, <1>10
    <3>2. fn' # "none"
      BY <1>1
    <3>3. QED
      BY <3>1, <3>2 DEF InOrder
  <2>2. Returned' /\ Achieved'
    BY <1>1 DEF Returned, Achieved
  <2>3. QED
    BY <2>1, <2>2
<1>12. RequestsWellFormed'
  BY <1>1 DEF RequestsWellFormed, NoRequest
<1>13. QED
  BY <1>1, <1>11, <1>12

LEMMA GoneKeeps ==
  ASSUME Gone
  PROVE  /\ InOrder' /\ Returned' /\ Achieved' /\ RequestsWellFormed'
         /\ mem' \in [Pointers -> {"null", "live", "freed"}]
         /\ ciphers' \in [Ciphers -> {"junk", "open", "closed"}]
         /\ fn' = "none" /\ pc' = 0 /\ id' = 0 /\ ret' = "none"
         /\ request' = NoRequest /\ trouble' = trouble
<1>1. /\ fn' = "none" /\ pc' = 0 /\ ret' = "none" /\ id' = 0 /\ request' = NoRequest
      /\ mem' = [x \in Pointers |-> "null"] /\ ciphers' = [c \in Ciphers |-> "junk"]
      /\ trouble' = trouble
  BY DEF Gone
<1>2. InOrder' /\ Returned' /\ Achieved'
  BY <1>1 DEF InOrder, Returned, Achieved
<1>3. RequestsWellFormed'
  BY <1>1 DEF RequestsWellFormed, NoRequest
<1>4. QED
  BY <1>1, <1>2, <1>3

\* The choice of a version.
LEMMA ChooseVersionKeeps == LoginInv /\ ChooseVersion => LoginInv'
<1> SUFFICES ASSUME LoginInv, ChooseVersion PROVE LoginInv'
  OBVIOUS
<1>1. /\ phase = "version" /\ phase' \in {"removed", "uam"} /\ Running
      /\ UNCHANGED <<uam, user, srv, admitted, changed>>
  BY DEF ChooseVersion, kept
<1>2. fn = "none" /\ trouble = {} /\ changed.ret = "none"
  BY <1>1 DEF LoginInv, Phases
<1>3. version' \in KnownVersions \cup {0}
  <2>1. PICK S, asked : S = ParseVersions(offer.versions) /\ version' = PickVersion(S, asked)
    BY DEF ChooseVersion
  <2>2. S \subseteq KnownVersions
    BY <2>1, ParsedKnown
  <2>3. CASE S = {}
    BY <2>1, <2>2, <2>3, Picked
  <2>4. CASE S # {}
    BY <2>1, <2>2, <2>4, Picked
  <2>5. QED
    BY <2>3, <2>4
<1>4. /\ InOrder' /\ Returned' /\ Achieved' /\ RequestsWellFormed'
      /\ fn' = "none" /\ pc' = 0 /\ ret' = "none" /\ request' = NoRequest /\ trouble' = trouble
  BY <1>1, <1>2, QuietKeeps
<1>5. Phases'
  BY <1>1, <1>2, <1>4 DEF Phases
<1>6. NoTrouble'
  BY <1>2, <1>4 DEF NoTrouble
<1>7. Admitted'
  BY <1>1 DEF Admitted
<1>8. Changed'
  BY <1>1, <1>2 DEF Changed
<1>9. Typed'
  <2>1. UNCHANGED <<fn, pc, mem, ciphers, id, ret>>
    BY <1>1 DEF Running, running
  <2>2. LoginTypeOK'
    BY <1>1, <1>3, <2>1 DEF LoginInv, Typed, LoginTypeOK
  <2>3. QED
    BY <1>1, <2>2 DEF LoginInv, Typed
<1>10. QED
  BY <1>4, <1>5, <1>6, <1>7, <1>8, <1>9 DEF LoginInv

\* The choice of a method.
LEMMA ChooseUamKeeps == LoginInv /\ ChooseUam => LoginInv'
<1> SUFFICES ASSUME LoginInv, ChooseUam PROVE LoginInv'
  OBVIOUS
<1>1. /\ phase = "uam" /\ phase' \in {"removed", "login"} /\ Running
      /\ UNCHANGED <<version, user, srv, admitted, changed>>
  BY DEF ChooseUam, kept
<1>2. fn = "none" /\ trouble = {} /\ changed.ret = "none"
  BY <1>1 DEF LoginInv, Phases
<1>3. uam' \in ToSet(UamStrings) \cup {"none"}
  <2>1. PICK S, allowed : S = ParseUams(offer.uams) /\ uam' = PickUam(S, allowed)
    BY DEF ChooseUam
  <2>2. \A u \in S : UamBit(u) # 0
    BY <2>1, ParsedUams
  <2>3. PICK u : u = uam' /\ u = PickUam(S, allowed)
    BY <2>1
  <2>4. u = "none" \/ u \in S
    BY <2>2, <2>3, PickedUam
  <2>5. QED
    BY <2>2, <2>3, <2>4, Bits
<1>4. /\ InOrder' /\ Returned' /\ Achieved' /\ RequestsWellFormed'
      /\ fn' = "none" /\ pc' = 0 /\ ret' = "none" /\ request' = NoRequest /\ trouble' = trouble
  BY <1>1, <1>2, QuietKeeps
<1>5. Phases'
  BY <1>1, <1>2, <1>4 DEF Phases
<1>6. NoTrouble'
  BY <1>2, <1>4 DEF NoTrouble
<1>7. Admitted'
  BY <1>1 DEF Admitted
<1>8. Changed'
  BY <1>1, <1>2 DEF Changed
<1>9. Typed'
  <2>1. UNCHANGED <<fn, pc, mem, ciphers, id, ret>>
    BY <1>1 DEF Running, running
  <2>2. LoginTypeOK'
    BY <1>1, <1>3, <2>1 DEF LoginInv, Typed, LoginTypeOK
  <2>3. QED
    BY <1>1, <2>2 DEF LoginInv, Typed
<1>10. QED
  BY <1>4, <1>5, <1>6, <1>7, <1>8, <1>9 DEF LoginInv

\* A method starts, or there is none for this build.
LEMMA afp_dologinKeeps == LoginInv /\ afp_dologin => LoginInv'
<1> SUFFICES ASSUME LoginInv, afp_dologin PROVE LoginInv'
  OBVIOUS
<1>1. phase = "login" /\ UNCHANGED <<version, uam, user, srv, admitted, changed>>
  BY DEF afp_dologin, chosen, kept
<1>2. fn = "none"
  BY <1>1 DEF LoginInv, Phases
<1>3. CASE uam \in Registered /\ Enter(LoginOf(uam)) /\ phase' = "authenticating"
        /\ UNCHANGED trouble
  <2>1. PICK f \in Functions \ {"none"} : f = LoginOf(uam)
    BY <1>3, Logins
  <2>2. Enter(f)
    BY <1>3, <2>1
  <2>3. /\ InOrder' /\ Returned' /\ Achieved' /\ RequestsWellFormed'
        /\ mem' \in [Pointers -> {"null", "live", "freed"}]
        /\ ciphers' \in [Ciphers -> {"junk", "open", "closed"}]
        /\ fn' = f /\ pc' = 1 /\ id' = 0 /\ ret' = "none"
    BY <2>2, EnterKeeps
  <2>4. Phases'
    BY <1>1, <1>3, <2>1, <2>3 DEF Phases
  <2>5. NoTrouble'
    BY <1>1, <1>3 DEF LoginInv, NoTrouble
  <2>6. Admitted'
    BY <1>3 DEF Admitted
  <2>7. Changed'
    BY <1>1 DEF LoginInv, Changed
  <2>8. Typed'
    <3>1. LoginTypeOK'
      BY <1>1, <1>3, <2>3 DEF LoginInv, Typed, LoginTypeOK, Codes
    <3>2. QED
      BY <1>1, <3>1 DEF LoginInv, Typed
  <2>9. QED
    BY <2>3, <2>4, <2>5, <2>6, <2>7, <2>8 DEF LoginInv
<1>4. CASE phase' = Failed /\ Running
  <2>1. phase' \in {"removed", "unconnected"}
    BY <1>4 DEF Failed
  <2>2. /\ InOrder' /\ Returned' /\ Achieved' /\ RequestsWellFormed'
        /\ fn' = "none" /\ pc' = 0 /\ ret' = "none" /\ request' = NoRequest /\ trouble' = trouble
    BY <1>1, <1>2, <1>4, QuietKeeps
  <2>3. Phases'
    BY <2>1, <2>2 DEF Phases
  <2>4. NoTrouble'
    BY <1>1, <2>2 DEF LoginInv, NoTrouble
  <2>5. Admitted'
    BY <2>1 DEF Admitted
  <2>6. Changed'
    BY <1>1 DEF LoginInv, Changed
  <2>7. Typed'
    <3>1. UNCHANGED <<fn, pc, mem, ciphers, id, ret>>
      BY <1>4 DEF Running, running
    <3>2. LoginTypeOK'
      BY <1>1, <2>1, <3>1 DEF LoginInv, Typed, LoginTypeOK
    <3>3. QED
      BY <1>1, <3>2 DEF LoginInv, Typed
  <2>8. QED
    BY <2>2, <2>3, <2>4, <2>5, <2>6, <2>7 DEF LoginInv
<1>5. QED
  BY <1>3, <1>4 DEF afp_dologin

\* The method's result.
LEMMA afp_server_loginKeeps == LoginInv /\ afp_server_login => LoginInv'
<1> SUFFICES ASSUME LoginInv, afp_server_login PROVE LoginInv'
  OBVIOUS
<1>1. /\ phase = "authenticating" /\ pc = 0 /\ Gone /\ admitted' = ret
      /\ UNCHANGED <<version, uam, user, srv, changed>>
  BY DEF afp_server_login, chosen
<1>2. \/ ~LoginSucceeds(ret) /\ phase' \in {"removed", "unconnected"}
      \/ LoginSucceeds(ret) /\ phase' \in {"token", "parms"}
  BY DEF afp_server_login, Failed
<1>3. /\ InOrder' /\ Returned' /\ Achieved' /\ RequestsWellFormed'
      /\ mem' \in [Pointers -> {"null", "live", "freed"}]
      /\ ciphers' \in [Ciphers -> {"junk", "open", "closed"}]
      /\ fn' = "none" /\ pc' = 0 /\ id' = 0 /\ ret' = "none"
      /\ request' = NoRequest /\ trouble' = trouble
  BY <1>1, GoneKeeps
<1>4. uam \in Registered /\ fn = LoginOf(uam)
  BY <1>1 DEF LoginInv, Phases
<1>5. Phases'
  BY <1>1, <1>2, <1>3, <1>4 DEF Phases
<1>6. NoTrouble'
  BY <1>1, <1>3 DEF LoginInv, NoTrouble
<1>7. Admitted'
  <2>1. fn \notin Changes
    BY <1>4, Logins
  <2>2. ret = "NoErr" => srv.session
    BY <2>1 DEF LoginInv, Achieved
  <2>3. QED
    BY <1>1, <1>2, <2>2 DEF Admitted, LoginSucceeds
<1>8. Changed'
  BY <1>1 DEF LoginInv, Changed
<1>9. Typed'
  <2>1. LoginTypeOK'
    BY <1>1, <1>2, <1>3 DEF LoginInv, Typed, LoginTypeOK, Codes
  <2>2. QED
    BY <1>1, <2>1 DEF LoginInv, Typed
<1>10. QED
  BY <1>3, <1>5, <1>6, <1>7, <1>8, <1>9 DEF LoginInv

\* The token, and the server's parameters.
LEMMA GetKeeps == LoginInv /\ (GetToken \/ GetParms) => LoginInv'
<1> SUFFICES ASSUME LoginInv, GetToken \/ GetParms PROVE LoginInv'
  OBVIOUS
<1>1. /\ phase \in {"token", "parms"} /\ phase' \in {"parms", "done", "removed"} /\ Running
      /\ UNCHANGED <<version, uam, user, srv, admitted, changed>>
  BY DEF GetToken, GetParms, chosen, kept
<1>2. fn = "none" /\ uam \in Registered
  BY <1>1 DEF LoginInv, Phases
<1>3. /\ InOrder' /\ Returned' /\ Achieved' /\ RequestsWellFormed'
      /\ fn' = "none" /\ pc' = 0 /\ ret' = "none" /\ request' = NoRequest /\ trouble' = trouble
  BY <1>1, <1>2, QuietKeeps
<1>4. Phases'
  BY <1>1, <1>2, <1>3 DEF Phases
<1>5. NoTrouble'
  BY <1>1, <1>3 DEF LoginInv, NoTrouble
<1>6. Admitted'
  BY <1>1 DEF LoginInv, Admitted
<1>7. Changed'
  BY <1>1 DEF LoginInv, Changed
<1>8. Typed'
  <2>1. UNCHANGED <<fn, pc, mem, ciphers, id, ret>>
    BY <1>1 DEF Running, running
  <2>2. LoginTypeOK'
    BY <1>1, <2>1 DEF LoginInv, Typed, LoginTypeOK
  <2>3. QED
    BY <1>1, <2>2 DEF LoginInv, Typed
<1>9. QED
  BY <1>3, <1>4, <1>5, <1>6, <1>7, <1>8 DEF LoginInv

\* A connection that is lost takes the session with it.
LEMMA LoseConnectionKeeps == LoginInv /\ LoseConnection => LoginInv'
<1> SUFFICES ASSUME LoginInv, LoseConnection PROVE LoginInv'
  OBVIOUS
<1>1. /\ phase = "done" /\ phase' = "login" /\ Running
      /\ UNCHANGED <<version, uam, user, admitted, changed>>
  BY DEF LoseConnection, chosen
<1>2. fn = "none" /\ uam \in Registered
  BY <1>1 DEF LoginInv, Phases
<1>3. /\ InOrder' /\ Returned' /\ Achieved' /\ RequestsWellFormed'
      /\ fn' = "none" /\ pc' = 0 /\ ret' = "none" /\ request' = NoRequest /\ trouble' = trouble
  BY <1>1, <1>2, QuietKeeps
<1>4. srv' \in Servers /\ srv'.password = srv.password
  <2>1. PICK was, now : was \in Servers /\ was = srv /\ now = srv'
    BY DEF LoginInv, Typed
  <2>2. PICK none \in 0..2 : none = 0
    OBVIOUS
  <2>3. PICK no \in BOOLEAN : no = FALSE
    OBVIOUS
  <2>4. now = [was EXCEPT !.session = no, !.round = none]
    BY <2>1, <2>2, <2>3 DEF LoseConnection
  <2>5. now \in Servers /\ now.password = was.password
    BY <2>1, <2>4 DEF Servers
  <2>6. QED
    BY <2>1, <2>5
<1>5. Phases'
  BY <1>1, <1>2, <1>3 DEF Phases
<1>6. NoTrouble'
  BY <1>1, <1>3 DEF LoginInv, NoTrouble
<1>7. Admitted'
  BY <1>1 DEF Admitted
<1>8. Changed'
  BY <1>1, <1>4 DEF LoginInv, Changed
<1>9. Typed'
  <2>1. UNCHANGED <<fn, pc, mem, ciphers, id, ret>>
    BY <1>1 DEF Running, running
  <2>2. LoginTypeOK'
    BY <1>1, <1>4, <2>1 DEF LoginInv, Typed, LoginTypeOK, Servers
  <2>3. QED
    BY <1>1, <1>4, <2>2 DEF LoginInv, Typed
<1>10. QED
  BY <1>3, <1>5, <1>6, <1>7, <1>8, <1>9 DEF LoginInv

\* A change of the password starts.
LEMMA StartChangeKeeps == LoginInv /\ StartChange => LoginInv'
<1> SUFFICES ASSUME LoginInv, StartChange PROVE LoginInv'
  OBVIOUS
<1>1. phase = "done" /\ UNCHANGED <<version, uam, user, srv, admitted, changed>>
  BY DEF StartChange, chosen
<1>2. fn = "none" /\ uam \in Registered
  BY <1>1 DEF LoginInv, Phases
<1>3. CASE uam # "No_User_Authent" /\ Enter(PasswdOf(uam)) /\ phase' = "changing"
        /\ UNCHANGED trouble
  <2>1. PICK f \in Functions \ {"none"} : f = PasswdOf(uam)
    BY <1>2, <1>3, ChangesOf
  <2>2. Enter(f)
    BY <1>3, <2>1
  <2>3. /\ InOrder' /\ Returned' /\ Achieved' /\ RequestsWellFormed'
        /\ mem' \in [Pointers -> {"null", "live", "freed"}]
        /\ ciphers' \in [Ciphers -> {"junk", "open", "closed"}]
        /\ fn' = f /\ pc' = 1 /\ id' = 0 /\ ret' = "none"
    BY <2>2, EnterKeeps
  <2>4. Phases'
    BY <1>1, <1>2, <1>3, <2>1, <2>3 DEF Phases
  <2>5. NoTrouble'
    BY <1>1, <1>3 DEF LoginInv, NoTrouble
  <2>6. Admitted'
    BY <1>1, <1>3 DEF LoginInv, Admitted
  <2>7. Changed'
    BY <1>1 DEF LoginInv, Changed
  <2>8. Typed'
    <3>1. LoginTypeOK'
      BY <1>1, <1>3, <2>3 DEF LoginInv, Typed, LoginTypeOK, Codes
    <3>2. QED
      BY <1>1, <3>1 DEF LoginInv, Typed
  <2>9. QED
    BY <2>3, <2>4, <2>5, <2>6, <2>7, <2>8 DEF LoginInv
<1>4. CASE phase' = "done" /\ Running
  <2>1. /\ InOrder' /\ Returned' /\ Achieved' /\ RequestsWellFormed'
        /\ fn' = "none" /\ pc' = 0 /\ ret' = "none" /\ request' = NoRequest /\ trouble' = trouble
    BY <1>1, <1>2, <1>4, QuietKeeps
  <2>2. Phases'
    BY <1>1, <1>2, <1>4, <2>1 DEF Phases
  <2>3. NoTrouble'
    BY <1>1, <2>1 DEF LoginInv, NoTrouble
  <2>4. Admitted'
    BY <1>1, <1>4 DEF LoginInv, Admitted
  <2>5. Changed'
    BY <1>1 DEF LoginInv, Changed
  <2>6. Typed'
    <3>1. UNCHANGED <<fn, pc, mem, ciphers, id, ret>>
      BY <1>4 DEF Running, running
    <3>2. LoginTypeOK'
      BY <1>1, <1>4, <3>1 DEF LoginInv, Typed, LoginTypeOK
    <3>3. QED
      BY <1>1, <3>2 DEF LoginInv, Typed
  <2>7. QED
    BY <2>1, <2>2, <2>3, <2>4, <2>5, <2>6 DEF LoginInv
<1>5. QED
  BY <1>3, <1>4 DEF StartChange

\* The change is over.
LEMMA EndChangeKeeps == LoginInv /\ EndChange => LoginInv'
<1> SUFFICES ASSUME LoginInv, EndChange PROVE LoginInv'
  OBVIOUS
<1>1. /\ phase = "changing" /\ pc = 0 /\ phase' = "done" /\ Gone
      /\ changed' = [uam |-> uam, ret |-> ret]
      /\ UNCHANGED <<version, uam, user, srv, admitted>>
  BY DEF EndChange, chosen
<1>2. uam \in Registered \ {"No_User_Authent"} /\ fn = PasswdOf(uam)
  BY <1>1 DEF LoginInv, Phases
<1>3. /\ InOrder' /\ Returned' /\ Achieved' /\ RequestsWellFormed'
      /\ mem' \in [Pointers -> {"null", "live", "freed"}]
      /\ ciphers' \in [Ciphers -> {"junk", "open", "closed"}]
      /\ fn' = "none" /\ pc' = 0 /\ id' = 0 /\ ret' = "none"
      /\ request' = NoRequest /\ trouble' = trouble
  BY <1>1, GoneKeeps
<1>4. Phases'
  BY <1>1, <1>2, <1>3 DEF Phases
<1>5. NoTrouble'
  BY <1>1, <1>3 DEF LoginInv, NoTrouble
<1>6. Admitted'
  BY <1>1 DEF LoginInv, Admitted
<1>7. Changed'
  <2>1. fn \in Changes /\ NewBy(fn) = IF uam = "DHX2" THEN "old" ELSE "new"
    BY <1>2, ChangesOf
  <2>2. ret = "NoErr" => srv.password = IF uam = "DHX2" THEN "old" ELSE "new"
    BY <2>1 DEF LoginInv, Achieved
  <2>3. QED
    BY <1>1, <2>2 DEF Changed
<1>8. Typed'
  <2>1. LoginTypeOK'
    BY <1>1, <1>3 DEF LoginInv, Typed, LoginTypeOK, Codes
  <2>2. QED
    BY <1>1, <2>1 DEF LoginInv, Typed
<1>9. QED
  BY <1>3, <1>4, <1>5, <1>6, <1>7, <1>8 DEF LoginInv

-----------------------------------------------------------------------------
(* The invariant, and the properties *)

LEMMA LoginStarts == LoginInit => LoginInv
<1> SUFFICES ASSUME LoginInit PROVE LoginInv
  OBVIOUS
<1>1. /\ phase = "version" /\ version = 0 /\ uam = "none" /\ user \in NameLengths
      /\ fn = "none" /\ pc = 0 /\ id = 0 /\ ret = "none" /\ request = NoRequest /\ trouble = {}
      /\ mem = [x \in Pointers |-> "null"] /\ ciphers = [c \in Ciphers |-> "junk"]
      /\ admitted = "none" /\ changed = [uam |-> "none", ret |-> "none"]
  BY DEF LoginInit
<1>2. srv \in Servers
  <2>1. PICK p \in {"old", "other"} :
          srv = [password |-> p, session |-> FALSE, round |-> 0, id |-> 0, told |-> 0,
            proof |-> TRUE]
    BY DEF LoginInit
  <2>2. PICK none \in 0..2 : none = 0 /\ none \in Ids \cup {0}
    OBVIOUS
  <2>3. PICK no \in BOOLEAN, yes \in BOOLEAN : no = FALSE /\ yes = TRUE
    OBVIOUS
  <2>4. srv = [password |-> p, session |-> no, round |-> none, id |-> none, told |-> none,
          proof |-> yes]
    BY <2>1, <2>2, <2>3
  <2>5. QED
    BY <2>2, <2>4 DEF Servers
<1>3. InOrder /\ Phases /\ NoTrouble /\ Returned /\ Achieved /\ Admitted /\ Changed
  BY <1>1 DEF InOrder, Phases, NoTrouble, Returned, Achieved, Admitted, Changed
<1>4. RequestsWellFormed
  BY <1>1 DEF RequestsWellFormed, NoRequest
<1>5. Typed
  <2>1. mem \in [Pointers -> {"null", "live", "freed"}]
          /\ ciphers \in [Ciphers -> {"junk", "open", "closed"}]
    BY <1>1
  <2>2. LoginTypeOK
    BY <1>1, <1>2, <2>1 DEF LoginTypeOK, Codes, Servers
  <2>3. QED
    BY <1>1, <1>2, <2>2 DEF Typed
<1>6. QED
  BY <1>3, <1>4, <1>5 DEF LoginInv

LEMMA LoginStutters == LoginInv /\ UNCHANGED loginvars => LoginInv'
<1> SUFFICES ASSUME LoginInv, UNCHANGED loginvars PROVE LoginInv'
  OBVIOUS
<1>1. /\ UNCHANGED <<phase, version, uam, user, srv, admitted, changed>>
      /\ UNCHANGED <<fn, pc, mem, ciphers, id, ret, request, trouble>>
  BY DEF loginvars, chosen, running, kept
<1>2. InOrder'
  <2>1. ASSUME NEW h PROVE (Held(h) <=> Held(h)') /\ (Heard(h) <=> Heard(h)')
    BY <1>1 DEF Held, Heard
  <2>2. ASSUME NEW n, NEW Q PROVE Holds(n, Q) => Holds(n, Q)'
    <3>1. (Held(Q[pc]) /\ Heard(Q[pc])) => (Held(Q[pc]) /\ Heard(Q[pc]))'
      BY <1>1, <2>1 DEF Held, Heard
    <3>2. QED
      BY <1>1, <3>1 DEF Holds
  <2>3. QED
    BY <1>1, <2>2 DEF LoginInv, InOrder
<1>3. Phases' /\ NoTrouble' /\ Returned' /\ Achieved' /\ Admitted' /\ Changed'
  BY <1>1 DEF LoginInv, Phases, NoTrouble, Returned, Achieved, Admitted, Changed
<1>4. RequestsWellFormed'
  BY <1>1 DEF LoginInv, RequestsWellFormed
<1>5. Typed'
  BY <1>1 DEF LoginInv, Typed, LoginTypeOK
<1>6. QED
  BY <1>2, <1>3, <1>4, <1>5 DEF LoginInv

LEMMA LoginKeeps == LoginInv /\ [LoginNext]_loginvars => LoginInv'
<1> SUFFICES ASSUME LoginInv, [LoginNext]_loginvars PROVE LoginInv'
  OBVIOUS
<1>1. CASE ChooseVersion
  BY <1>1, ChooseVersionKeeps
<1>2. CASE ChooseUam
  BY <1>2, ChooseUamKeeps
<1>3. CASE afp_dologin
  BY <1>3, afp_dologinKeeps
<1>4. CASE afp_server_login
  BY <1>4, afp_server_loginKeeps
<1>5. CASE GetToken \/ GetParms
  BY <1>5, GetKeeps
<1>6. CASE LoseConnection
  BY <1>6, LoseConnectionKeeps
<1>7. CASE StartChange
  BY <1>7, StartChangeKeeps
<1>8. CASE EndChange
  BY <1>8, EndChangeKeeps
<1>9. CASE Allocate
  BY <1>9, AllocateKeeps
<1>10. CASE FreeBlock
  BY <1>10, FreeBlockKeeps
<1>11. CASE OpenCipher
  BY <1>11, OpenCipherKeeps
<1>12. CASE UseCipher
  BY <1>12, UseCipherKeeps
<1>13. CASE TakeTheId
  BY <1>13, TakeTheIdKeeps
<1>14. CASE GoOn
  BY <1>14, GoOnKeeps
<1>15. CASE CompareProofs
  BY <1>15, CompareProofsKeeps
<1>16. CASE SendRequest
  BY <1>16, SendRequestKeeps
<1>17. CASE LeaveFunction
  BY <1>17, LeaveFunctionKeeps
<1>18. CASE StepFails
  BY <1>18, StepFailsKeeps
<1>19. CASE Finished \/ UNCHANGED loginvars
  BY <1>19, LoginStutters DEF Finished
<1>20. QED
  BY <1>1, <1>2, <1>3, <1>4, <1>5, <1>6, <1>7, <1>8, <1>9, <1>10, <1>11, <1>12, <1>13, <1>14,
     <1>15, <1>16, <1>17, <1>18, <1>19 DEF LoginNext

LEMMA LoginAlways == LoginSpec => []LoginInv
<1>1. QED
  BY LoginStarts, LoginKeeps, PTL DEF LoginSpec

\* Types: for every list a server may offer and every user.
THEOREM LoginTypes == LoginSpec => []LoginTypeOK
<1>1. LoginInv => LoginTypeOK
  BY DEF LoginInv, Typed
<1>2. QED
  BY <1>1, LoginAlways, PTL

\* Whichever call of a method fails, what it took is given back, once, and nothing is
\* used that it has not got, but the block dhx2_passwd() does not look at.
THEOREM AllIsGivenBack == LoginSpec => []GivesAllBack
<1>1. LoginInv => GivesAllBack
  BY DEF LoginInv, NoTrouble, Returned, GivesAllBack
<1>2. QED
  BY <1>1, LoginAlways, PTL

\* The requests of every method have the id and the padding they should have, with the
\* exceptions named.
THEOREM RequestsAreWellFormed == LoginSpec => []RequestsWellFormed
<1>1. LoginInv => RequestsWellFormed
  BY DEF LoginInv
<1>2. QED
  BY <1>1, LoginAlways, PTL

\* The client is logged in only with a session, or an answer taken for one; and a
\* change of the password it was told of was made.
THEOREM SuccessesAreTrue == LoginSpec => []SuccessIsTrue
<1>1. LoginInv => SuccessIsTrue
  BY DEF LoginInv, Admitted, Changed, AlreadyLoggedIn, SuccessIsTrue
<1>2. QED
  BY <1>1, LoginAlways, PTL

\* While the client negotiates, nothing but the next choice happens.
LEMMA OnlyChooses ==
  ASSUME LoginInv, [LoginNext]_loginvars, phase \in {"version", "uam"}
  PROVE  (phase = "version" /\ ChooseVersion) \/ (phase = "uam" /\ ChooseUam)
    \/ UNCHANGED loginvars
<1>1. ~(pc > 0)
  BY DEF LoginInv, Phases
<1>2. ~(Allocate \/ FreeBlock \/ OpenCipher \/ UseCipher \/ TakeTheId \/ GoOn)
  BY <1>1 DEF Allocate, FreeBlock, OpenCipher, UseCipher, TakeTheId, GoOn
<1>3. ~(CompareProofs \/ SendRequest \/ LeaveFunction \/ StepFails)
  BY <1>1 DEF CompareProofs, SendRequest, LeaveFunction, StepFails
<1>4. ~(afp_dologin \/ afp_server_login \/ GetToken \/ GetParms \/ LoseConnection)
  BY DEF afp_dologin, afp_server_login, GetToken, GetParms, LoseConnection
<1>5. ~(StartChange \/ EndChange)
  BY DEF StartChange, EndChange
<1>6. Finished => UNCHANGED loginvars
  BY DEF Finished
<1>7. ChooseVersion => phase = "version"
  BY DEF ChooseVersion
<1>8. ChooseUam => phase = "uam"
  BY DEF ChooseUam
<1>9. QED
  BY <1>2, <1>3, <1>4, <1>5, <1>6, <1>7, <1>8 DEF LoginNext

\* The version is the one asked for or the highest of both, the method the strongest.
THEOREM WellNegotiated == LoginSpec => NegotiatedWell
<1>1. ASSUME LoginInv, [LoginNext]_loginvars, phase = "version", ~UNCHANGED loginvars
      PROVE  LET both == ParseVersions(offer.versions)
             IN  IF both = {} THEN phase' = "removed"
                 ELSE /\ version' \in both
                      /\ offer.requested \in both => version' = offer.requested
                      /\ offer.requested \notin both \cup 33 .. 255 => \A v \in both : v <= version'
  <2>1. ChooseVersion
    BY <1>1, OnlyChooses
  <2>2. PICK both, asked : both = ParseVersions(offer.versions) /\ asked = offer.requested
    OBVIOUS
  <2>3. PICK v : v = version' /\ v = PickVersion(both, asked)
    BY <2>1, <2>2 DEF ChooseVersion
  <2>4. phase' = IF v = 0 THEN "removed" ELSE "uam"
    BY <2>1, <2>3 DEF ChooseVersion
  <2>5. both \subseteq KnownVersions
    BY <2>2, ParsedKnown
  <2>6. both = {} => v = 0
    BY <2>3, <2>5, Picked
  <2>7. both # {} => v \in both
    BY <2>3, <2>5, Picked
  <2>8. asked \in both => v = asked
    BY <2>3, <2>5, Picked
  <2>9. both # {} /\ asked \notin both \cup 33..255 => \A w \in both : w <= v
    BY <2>3, <2>5, Picked
  <2>10. QED
    BY <2>2, <2>3, <2>4, <2>6, <2>7, <2>8, <2>9
<1>2. ASSUME LoginInv, [LoginNext]_loginvars, phase = "uam", ~UNCHANGED loginvars
      PROVE  LET both == offer.mask \cap ParseUams(offer.uams)
             IN  IF both = {} THEN phase' = "removed"
                 ELSE uam' \in both /\ \A u \in both : UamBit(u) <= UamBit(uam')
  <2>1. ChooseUam
    BY <1>2, OnlyChooses
  <2>2. PICK offered, allowed : offered = ParseUams(offer.uams) /\ allowed = offer.mask
    OBVIOUS
  <2>3. PICK u : u = uam' /\ u = PickUam(offered, allowed)
    BY <2>1, <2>2 DEF ChooseUam
  <2>4. phase' = IF u = "none" THEN "removed" ELSE "login"
    BY <2>1, <2>3 DEF ChooseUam
  <2>5. \A v \in offered : UamBit(v) # 0
    BY <2>2, ParsedUams
  <2>6. PICK both : both = offered \cap allowed /\ both = offer.mask \cap ParseUams(offer.uams)
    BY <2>2
  <2>7. both = {} => u = "none"
    BY <2>3, <2>5, <2>6, PickedUam
  <2>8. both # {} => u \in both /\ \A v \in both : UamBit(v) <= UamBit(u)
    BY <2>3, <2>5, <2>6, PickedUam
  <2>9. QED
    BY <2>3, <2>4, <2>6, <2>7, <2>8
<1>3. LoginInv /\ [LoginNext]_loginvars => 
        [ /\ phase = "version" =>
             LET both == ParseVersions(offer.versions)
             IN  IF both = {} THEN phase' = "removed"
                 ELSE /\ version' \in both
                      /\ offer.requested \in both => version' = offer.requested
                      /\ offer.requested \notin both \cup 33 .. 255 => \A v \in both : v <= version'
          /\ phase = "uam" =>
             LET both == offer.mask \cap ParseUams(offer.uams)
             IN  IF both = {} THEN phase' = "removed"
                 ELSE uam' \in both /\ \A u \in both : UamBit(u) <= UamBit(uam') ]_loginvars
  BY <1>1, <1>2, Zenon
<1>4. QED
  BY <1>3, LoginAlways, PTL DEF LoginSpec, NegotiatedWell

=============================================================================
