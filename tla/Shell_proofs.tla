---------------------------- MODULE Shell_proofs ----------------------------
(***************************************************************************)
(* Theorems about afpcmd, for all volumes and local directories, any       *)
(* number of commands, refusals and changes by others.                     *)
(***************************************************************************)
EXTENDS Shell, SequenceTheorems, FiniteSetTheorems, WellFoundedInduction, TLAPS

-----------------------------------------------------------------------------
(* Paths *)

LEMMA PrefixMeans ==
  ASSUME NEW N, NEW p \in Seq(N), NEW q \in Seq(N)
  PROVE  IsPrefix(p, q) <=> Len(p) <= Len(q) /\ \A i \in 1..Len(p) : p[i] = q[i]
<1>1. SubSeq(p, 1, Len(p)) = p
  BY SubSeqFull
<1>2. ASSUME Len(p) <= Len(q)
      PROVE  /\ SubSeq(q, 1, Len(p)) \in Seq(N) /\ Len(SubSeq(q, 1, Len(p))) = Len(p)
             /\ \A i \in 1..Len(p) : SubSeq(q, 1, Len(p))[i] = q[i]
  <2>1. \A i \in 1..Len(p) : q[i] \in N
    BY <1>2, ElementOfSeq, LenProperties
  <2>2. Len(p) \in Nat
    BY LenProperties
  <2>3. QED
    BY <2>1, <2>2, SubSeqProperties, Z3
<1>3. ASSUME Len(p) <= Len(q), \A i \in 1..Len(p) : p[i] = q[i]
      PROVE  p = SubSeq(q, 1, Len(p))
  BY <1>2, <1>3, SeqEqual
<1>4. QED
  BY <1>1, <1>2, <1>3 DEF IsPrefix

LEMMA FrontFacts ==
  ASSUME NEW N, NEW q \in Seq(N), q # <<>>
  PROVE  /\ Front(q) \in Seq(N) /\ Len(q) \in Nat \ {0} /\ Len(Front(q)) = Len(q) - 1
         /\ \A i \in 1..(Len(q) - 1) : Front(q)[i] = q[i]
         /\ Last(q) \in N /\ Last(q) = q[Len(q)]
<1>1. Len(q) \in Nat \ {0} /\ \A i \in 1..Len(q) : q[i] \in N
  BY EmptySeq, ElementOfSeq
<1>2. \A i \in 1..(Len(q) - 1) : q[i] \in N
  BY <1>1
<1>3. Len(q) - 1 \in Int
  BY <1>1
<1>4. /\ Front(q) \in Seq(N) /\ Len(Front(q)) = IF 1 <= Len(q) - 1 THEN Len(q) - 1 - 1 + 1 ELSE 0
      /\ \A i \in 1..(Len(q) - 1 - 1 + 1) : Front(q)[i] = q[1 + i - 1]
  BY <1>2, <1>3, SubSeqProperties DEF Front
<1>5. Len(Front(q)) = Len(q) - 1
  <2>1. \A m \in Nat \ {0} : (IF 1 <= m - 1 THEN m - 1 - 1 + 1 ELSE 0) = m - 1
    OBVIOUS
  <2>2. QED
    BY <1>1, <1>4, <2>1, Zenon
<1>6. ASSUME NEW i \in 1..(Len(q) - 1) PROVE Front(q)[i] = q[i]
  <2>1. 1 + i - 1 = i /\ i \in 1..(Len(q) - 1 - 1 + 1)
    BY <1>1
  <2>2. QED
    BY <1>4, <2>1
<1>7. Last(q) \in N /\ Last(q) = q[Len(q)]
  BY <1>1 DEF Last
<1>8. QED
  BY <1>1, <1>4, <1>5, <1>6, <1>7

LEMMA AppendFacts ==
  ASSUME NEW N, NEW p \in Seq(N), NEW n \in N
  PROVE  /\ Append(p, n) \in Seq(N) /\ Append(p, n) # <<>> /\ Len(Append(p, n)) = Len(p) + 1
         /\ \A i \in 1..Len(p) : Append(p, n)[i] = p[i]
         /\ Append(p, n)[Len(p) + 1] = n
         /\ Front(Append(p, n)) = p /\ Last(Append(p, n)) = n
<1> DEFINE q == Append(p, n)
<1>1. /\ q \in Seq(N) /\ q # <<>> /\ Len(q) = Len(p) + 1 /\ q[Len(p) + 1] = n
      /\ \A i \in 1..Len(p) : q[i] = p[i]
  BY AppendProperties
<1>2. Len(p) \in Nat
  BY LenProperties
<1> HIDE DEF q
<1>3. /\ Front(q) \in Seq(N) /\ Len(Front(q)) = Len(q) - 1 /\ Last(q) = q[Len(q)]
      /\ \A i \in 1..(Len(q) - 1) : Front(q)[i] = q[i]
  BY <1>1, FrontFacts
<1>4. Front(q) = p
  <2>1. Len(Front(q)) = Len(p) /\ \A i \in 1..Len(Front(q)) : Front(q)[i] = p[i]
    BY <1>1, <1>2, <1>3
  <2>2. QED
    BY <1>3, <2>1, SeqEqual
<1>5. QED
  BY <1>1, <1>2, <1>3, <1>4 DEF q

\* A path is its directory's with its name.
LEMMA FrontLast ==
  ASSUME NEW N, NEW q \in Seq(N), q # <<>>
  PROVE  q = Append(Front(q), Last(q))
<1>1. PICK s \in Seq(N), n \in N : q = Append(s, n)
  BY SequenceEmptyOrAppend
<1>2. QED
  BY <1>1, AppendFacts

LEMMA PrefixFacts ==
  ASSUME NEW N, NEW p \in Seq(N), NEW q \in Seq(N)
  PROVE  /\ IsPrefix(p, p)
         /\ IsPrefix(<<>>, p)
         /\ IsPrefix(p, q) => Len(p) <= Len(q)
         /\ IsPrefix(p, q) /\ Len(p) = Len(q) => p = q
         /\ \A r \in Seq(N) : IsPrefix(p, q) /\ IsPrefix(q, r) => IsPrefix(p, r)
         /\ \A r \in Seq(N) : IsPrefix(p, r) /\ IsPrefix(q, r) /\ Len(p) <= Len(q) =>
              IsPrefix(p, q)
         /\ q # <<>> /\ IsPrefix(p, Front(q)) => IsPrefix(p, q)
         /\ q # <<>> => IsPrefix(Front(q), q)
         /\ IsPrefix(p, q) /\ p # q => q # <<>> /\ IsPrefix(p, Front(q))
         /\ \A n \in N : IsPrefix(p, Append(p, n))
<1>1. Len(p) \in Nat /\ Len(q) \in Nat
  BY LenProperties
<1>2. IsPrefix(p, p)
  BY PrefixMeans
<1>3. <<>> \in Seq(N) /\ Len(<<>>) = 0
  BY EmptySeq
<1>4. IsPrefix(<<>>, p)
  <2>1. Len(<<>>) <= Len(p) /\ \A i \in 1..Len(<<>>) : <<>>[i] = p[i]
    BY <1>1, <1>3
  <2>2. QED
    BY <1>3, <2>1, PrefixMeans
<1>5. IsPrefix(p, q) => Len(p) <= Len(q)
  BY PrefixMeans
<1>6. IsPrefix(p, q) /\ Len(p) = Len(q) => p = q
  BY PrefixMeans, SeqEqual
<1>7. ASSUME NEW r \in Seq(N), IsPrefix(p, q), IsPrefix(q, r) PROVE IsPrefix(p, r)
  <2>1. Len(r) \in Nat
    BY LenProperties
  <2>2. /\ Len(p) <= Len(q) /\ \A i \in 1..Len(p) : p[i] = q[i]
        /\ Len(q) <= Len(r) /\ \A i \in 1..Len(q) : q[i] = r[i]
    BY <1>7, PrefixMeans
  <2>3. Len(p) <= Len(r) /\ \A i \in 1..Len(p) : p[i] = r[i]
    BY <1>1, <2>1, <2>2
  <2>4. QED
    BY <2>3, PrefixMeans
<1>8. ASSUME NEW r \in Seq(N), IsPrefix(p, r), IsPrefix(q, r), Len(p) <= Len(q)
      PROVE  IsPrefix(p, q)
  <2>2. /\ \A i \in 1..Len(p) : p[i] = r[i]
        /\ \A i \in 1..Len(q) : q[i] = r[i]
    BY <1>8, PrefixMeans
  <2>3. \A i \in 1..Len(p) : p[i] = q[i]
    BY <1>1, <1>8, <2>2
  <2>4. QED
    BY <1>8, <2>3, PrefixMeans
<1>9. ASSUME q # <<>> PROVE IsPrefix(Front(q), q)
  <2>1. /\ Front(q) \in Seq(N) /\ Len(Front(q)) <= Len(q)
        /\ \A i \in 1..Len(Front(q)) : Front(q)[i] = q[i]
    BY <1>1, <1>9, FrontFacts
  <2>2. QED
    BY <2>1, PrefixMeans
<1>10. ASSUME IsPrefix(p, q), p # q PROVE q # <<>> /\ IsPrefix(p, Front(q))
  <2>1. Len(p) < Len(q) /\ \A i \in 1..Len(p) : p[i] = q[i]
    BY <1>1, <1>6, <1>10, PrefixMeans
  <2>2. q # <<>>
    BY <1>1, <1>3, <2>1
  <2>3. /\ Front(q) \in Seq(N) /\ Len(Front(q)) = Len(q) - 1
        /\ \A i \in 1..(Len(q) - 1) : Front(q)[i] = q[i]
    BY <2>2, FrontFacts
  <2>4. Len(p) <= Len(Front(q)) /\ \A i \in 1..Len(p) : p[i] = Front(q)[i]
    BY <1>1, <2>1, <2>3
  <2>5. QED
    BY <2>2, <2>3, <2>4, PrefixMeans
<1>11. ASSUME NEW n \in N PROVE IsPrefix(p, Append(p, n))
  <2>1. /\ Append(p, n) \in Seq(N) /\ Len(p) <= Len(Append(p, n))
        /\ \A i \in 1..Len(p) : p[i] = Append(p, n)[i]
    BY <1>1, AppendFacts
  <2>2. QED
    BY <2>1, PrefixMeans
<1>12. ASSUME q # <<>>, IsPrefix(p, Front(q)) PROVE IsPrefix(p, q)
  <2>1. /\ Front(q) \in Seq(N) /\ Len(Front(q)) <= Len(q)
        /\ \A i \in 1..Len(Front(q)) : Front(q)[i] = q[i]
    BY <1>1, <1>12, FrontFacts
  <2>2. /\ Len(p) <= Len(Front(q)) /\ \A i \in 1..Len(p) : p[i] = Front(q)[i]
    BY <1>12, <2>1, PrefixMeans
  <2>3. Len(p) <= Len(q) /\ \A i \in 1..Len(p) : p[i] = q[i]
    BY <1>1, <2>1, <2>2, LenProperties
  <2>4. QED
    BY <2>3, PrefixMeans
<1>13. QED
  BY <1>2, <1>4, <1>5, <1>6, <1>7, <1>8, <1>9, <1>10, <1>11, <1>12, Zenon

LEMMA PrefixTrans ==
  ASSUME NEW N, NEW p \in Seq(N), NEW q \in Seq(N), NEW r \in Seq(N),
         IsPrefix(p, q), IsPrefix(q, r)
  PROVE  IsPrefix(p, r)
BY PrefixFacts, Zenon

LEMMA PrefixEntry ==
  ASSUME NEW N, NEW p \in Seq(N), NEW q \in Seq(N), NEW n \in N, IsPrefix(p, q)
  PROVE  IsPrefix(p, Append(q, n)) /\ Append(q, n) # p
<1>1. Append(q, n) \in Seq(N) /\ IsPrefix(q, Append(q, n)) /\ Len(Append(q, n)) = Len(q) + 1
  BY AppendFacts, PrefixFacts
<1>2. Len(p) <= Len(q) /\ Len(p) \in Nat /\ Len(q) \in Nat
  BY PrefixMeans, LenProperties
<1>3. IsPrefix(p, Append(q, n))
  BY <1>1, PrefixTrans
<1>4. QED
  BY <1>1, <1>2, <1>3

\* What is below a directory has a first name below it.
LEMMA NextName ==
  ASSUME NEW N, NEW p \in Seq(N), NEW q \in Seq(N), IsPrefix(p, q), p # q
  PROVE  /\ Len(p) + 1 \in 1..Len(q) /\ q[Len(p) + 1] \in N
         /\ IsPrefix(Append(p, q[Len(p) + 1]), q)
<1>1. Len(p) \in Nat /\ Len(q) \in Nat
  BY LenProperties
<1>2. Len(p) < Len(q) /\ \A i \in 1..Len(p) : p[i] = q[i]
  BY <1>1, PrefixMeans, PrefixFacts
<1>3. Len(p) + 1 \in 1..Len(q)
  BY <1>1, <1>2
<1>4. q[Len(p) + 1] \in N
  BY <1>3, ElementOfSeq
<1> DEFINE r == Append(p, q[Len(p) + 1])
<1>5. /\ r \in Seq(N) /\ Len(r) = Len(p) + 1 /\ r[Len(p) + 1] = q[Len(p) + 1]
      /\ \A i \in 1..Len(p) : r[i] = p[i]
  BY <1>4, AppendFacts
<1> HIDE DEF r
<1>6. Len(r) <= Len(q) /\ \A i \in 1..Len(r) : r[i] = q[i]
  BY <1>1, <1>2, <1>5
<1>7. IsPrefix(r, q)
  BY <1>5, <1>6, PrefixMeans
<1>8. QED
  BY <1>3, <1>4, <1>7 DEF r

-----------------------------------------------------------------------------
(* Trees *)

LEMMA LeastOf ==
  ASSUME NEW S, S \subseteq Nat, S # {}
  PROVE  \E x \in S : \A y \in S : x <= y
<1> DEFINE R == OpToRel(<, Nat)
<1>1. PICK x \in S : \A y \in S : ~ (<<y, x>> \in R)
  <2>1. IsWellFoundedOn(R, Nat)
    BY NatLessThanWellFounded
  <2> HIDE DEF R
  <2> QED
    BY <2>1, WFMin
<1>2. \A y \in S : ~(y < x)
  BY <1>1 DEF OpToRel
<1> QED
  BY <1>2

\* What a tree has at a path is a directory or a file.
LEMMA NodeFacts ==
  ASSUME NEW N, NEW t, IsTree(t, N), NEW p \in DOMAIN t
  PROVE  /\ p \in Seq(N)
         /\ t[p].kind \in {"dir", "file"} /\ t[p].data \in Seq(Nat)
         /\ t[p].kind = "dir" <=> t[p] = Dir
         /\ t[p].kind = "file" => t[p] = File(t[p].data)
         /\ ~(Has(t, p, "dir") /\ Has(t, p, "file"))
         /\ p # <<>> => Front(p) \in DOMAIN t /\ Has(t, Front(p), "dir")
         /\ Has(t, <<>>, "dir") /\ <<>> \in DOMAIN t
<1>1. <<>> \in Seq(Nat)
  BY EmptySeq
<1>2. QED
  BY <1>1 DEF IsTree, Dir, File, Has

LEMMA NewFile ==
  ASSUME NEW d \in Seq(Nat)
  PROVE  File(d).data = d /\ File(d).kind = "file" /\ File(d) = File(File(d).data)
BY DEF File

\* Every path above one that exists is that of a directory: of what is below
\* a path that is none, the shortest would be in it.
LEMMA AncestorsAreDirs ==
  ASSUME NEW N, NEW t, IsTree(t, N), NEW q \in DOMAIN t, NEW p \in Seq(N), IsPrefix(p, q), p # q
  PROVE  p \in DOMAIN t /\ Has(t, p, "dir")
<1> DEFINE B == {r \in DOMAIN t : IsPrefix(p, r) /\ p # r}
           S == {Len(r) : r \in B}
<1>1. SUFFICES ASSUME ~Has(t, p, "dir") PROVE FALSE
  BY DEF Has
<1>2. B \subseteq Seq(N) /\ q \in B
  BY DEF IsTree
<1>3. S \subseteq Nat /\ S # {}
  BY <1>2, LenProperties
<1>4. PICK x \in S : \A y \in S : x <= y
  <2> HIDE DEF S
  <2> QED
    BY <1>3, LeastOf
<1>5. PICK r \in B : x = Len(r)
  OBVIOUS
<1>6. r \in Seq(N) /\ r \in DOMAIN t /\ r # <<>> /\ IsPrefix(p, Front(r))
  BY <1>2, <1>5, PrefixFacts
<1>7. Front(r) \in DOMAIN t /\ Has(t, Front(r), "dir")
  BY <1>6, NodeFacts
<1>8. Front(r) \in B
  BY <1>1, <1>6, <1>7
<1>9. Len(Front(r)) < Len(r) /\ Len(r) \in Nat
  BY <1>6, FrontFacts
<1>10. QED
  BY <1>3, <1>4, <1>5, <1>8, <1>9

\* Making or overwriting a file or directory keeps the tree.
LEMMA WithFacts ==
  ASSUME NEW N, NEW t, IsTree(t, N), NEW p \in Seq(N), ~Has(t, p, "dir"),
         NEW n, n = Dir \/ (n.data \in Seq(Nat) /\ n = File(n.data))
  PROVE  /\ IsTree(With(t, p, n), N)
         /\ \A q : Has(t, q, "dir") => Has(With(t, p, n), q, "dir")
         /\ DOMAIN t \subseteq DOMAIN With(t, p, n) /\ DOMAIN With(t, p, n) \subseteq DOMAIN t \cup {p}
         /\ \A q \in DOMAIN t \ {p} : With(t, p, n)[q] = t[q]
         /\ p # <<>> /\ Has(t, Front(p), "dir") => /\ p \in DOMAIN With(t, p, n)
                                                  /\ With(t, p, n)[p] = n
<1>1. CASE ~(p # <<>> /\ Has(t, Front(p), "dir"))
  <2>1. With(t, p, n) = t
    BY <1>1 DEF With
  <2>2. QED
    BY <1>1, <2>1
<1>2. CASE p # <<>> /\ Has(t, Front(p), "dir")
  <2>1. PICK u : u = With(t, p, n)
    OBVIOUS
  <2>2. /\ DOMAIN u = DOMAIN t \cup {p} /\ u[p] = n
        /\ \A q \in DOMAIN t \ {p} : u[q] = t[q]
    <3>1. With(t, p, n) = [q \in DOMAIN t \cup {p} |-> IF q = p THEN n ELSE t[q]]
      BY <1>2 DEF With
    <3>2. QED
      BY <2>1, <3>1
  <2>3. \A q : Has(t, q, "dir") => Has(u, q, "dir")
    BY <2>2 DEF Has
  <2>4. IsTree(u, N)
    <3>1. DOMAIN u \subseteq Seq(N)
      BY <2>2 DEF IsTree
    <3>2. ASSUME NEW q \in DOMAIN u
          PROVE  u[q] = Dir \/ (u[q].data \in Seq(Nat) /\ u[q] = File(u[q].data))
      BY <2>2 DEF IsTree
    <3>3. ASSUME NEW q \in DOMAIN u, q # <<>> PROVE Has(u, Front(q), "dir")
      <4>1. Has(t, Front(q), "dir")
        BY <1>2, <2>2, <3>3, NodeFacts
      <4>2. QED
        BY <2>3, <4>1
    <3>4. Has(u, <<>>, "dir")
      BY <2>3 DEF IsTree
    <3>5. QED
      BY <3>1, <3>2, <3>3, <3>4 DEF IsTree
  <2>5. QED
    BY <2>1, <2>2, <2>3, <2>4
<1>3. QED
  BY <1>1, <1>2, Zenon

\* Removing what is below a path, and it, keeps the tree, and everything else.
LEMMA WithoutFacts ==
  ASSUME NEW N, NEW t, IsTree(t, N), NEW p \in Seq(N), p # <<>>
  PROVE  /\ IsTree(Without(t, p), N)
         /\ DOMAIN Without(t, p) = {q \in DOMAIN t : ~IsPrefix(p, q)}
         /\ \A q \in DOMAIN Without(t, p) : Without(t, p)[q] = t[q]
         /\ \A q, k : Has(t, q, k) /\ ~IsPrefix(p, q) => Has(Without(t, p), q, k)
<1>1. PICK u : u = Without(t, p)
  OBVIOUS
<1>2. /\ DOMAIN u = {q \in DOMAIN t : ~IsPrefix(p, q)}
      /\ \A q \in DOMAIN u : u[q] = t[q]
  BY <1>1 DEF Without, Under
<1>3. \A q, k : Has(t, q, k) /\ ~IsPrefix(p, q) => Has(u, q, k)
  BY <1>2 DEF Has
<1>4. Has(u, <<>>, "dir")
  <2>1. <<>> \in Seq(N) /\ Len(<<>>) = 0 /\ Len(p) \in Nat \ {0}
    BY EmptySeq
  <2>2. ~IsPrefix(p, <<>>)
    BY <2>1, PrefixFacts
  <2>3. QED
    BY <1>3, <2>2 DEF IsTree
<1>5. ASSUME NEW q \in DOMAIN u, q # <<>> PROVE Has(u, Front(q), "dir")
  <2>1. q \in DOMAIN t /\ ~IsPrefix(p, q) /\ q \in Seq(N)
    BY <1>2 DEF IsTree
  <2>2. Has(t, Front(q), "dir") /\ ~IsPrefix(p, Front(q))
    BY <1>5, <2>1, NodeFacts, PrefixFacts
  <2>3. QED
    BY <1>3, <2>2
<1>6. IsTree(u, N)
  BY <1>2, <1>4, <1>5 DEF IsTree
<1>7. QED
  BY <1>1, <1>2, <1>3, <1>6

-----------------------------------------------------------------------------
(* What is left of a path below another one *)

LEMMA RestFacts ==
  ASSUME NEW N, NEW p \in Seq(N), NEW y \in Seq(N), IsPrefix(p, y)
  PROVE  /\ Rest(p, y) \in Seq(N) /\ Len(Rest(p, y)) = Len(y) - Len(p)
         /\ \A i \in 1..(Len(y) - Len(p)) : Rest(p, y)[i] = y[Len(p) + i]
         /\ p \o Rest(p, y) = y
<1>1. Len(p) \in Nat /\ Len(y) \in Nat /\ Len(p) <= Len(y)
      /\ \A i \in 1..Len(p) : p[i] = y[i]
  BY LenProperties, PrefixMeans
<1>2. \A i \in (Len(p) + 1)..Len(y) : y[i] \in N
  <2>1. \A i \in 1..Len(y) : y[i] \in N
    BY ElementOfSeq
  <2>2. QED
    BY <1>1, <2>1
<1> DEFINE r == Rest(p, y)
<1>3. /\ r \in Seq(N)
      /\ Len(r) = IF Len(p) + 1 <= Len(y) THEN Len(y) - (Len(p) + 1) + 1 ELSE 0
      /\ \A i \in 1..(Len(y) - (Len(p) + 1) + 1) : r[i] = y[Len(p) + 1 + i - 1]
  <2>1. Len(p) + 1 \in Int /\ Len(y) \in Int
    BY <1>1
  <2>2. QED
    BY <1>2, <2>1, SubSeqProperties DEF Rest
<1> HIDE DEF r
<1>4. Len(r) = Len(y) - Len(p)
  <2>1. \A m, n \in Nat : m <= n =>
          (IF m + 1 <= n THEN n - (m + 1) + 1 ELSE 0) = n - m
    OBVIOUS
  <2>2. QED
    BY <1>1, <1>3, <2>1, Zenon
<1>5. ASSUME NEW i \in 1..(Len(y) - Len(p)) PROVE r[i] = y[Len(p) + i]
  <2>1. i \in 1..(Len(y) - (Len(p) + 1) + 1) /\ Len(p) + 1 + i - 1 = Len(p) + i
    BY <1>1
  <2>2. QED
    BY <1>3, <2>1
<1>6. p \o r = y
  <2>1. /\ p \o r \in Seq(N) /\ Len(p \o r) = Len(p) + Len(r)
        /\ \A i \in 1..(Len(p) + Len(r)) :
             (p \o r)[i] = IF i <= Len(p) THEN p[i] ELSE r[i - Len(p)]
    BY <1>3, ConcatProperties
  <2>2. Len(p \o r) = Len(y)
    BY <1>1, <1>4, <2>1
  <2>3. ASSUME NEW i \in 1..Len(y) PROVE (p \o r)[i] = y[i]
    <3>1. CASE i <= Len(p)
      BY <1>1, <1>4, <2>1, <3>1
    <3>2. CASE ~(i <= Len(p))
      <4>1. i - Len(p) \in 1..(Len(y) - Len(p)) /\ Len(p) + (i - Len(p)) = i
        BY <1>1, <3>2
      <4>2. r[i - Len(p)] = y[i]
        BY <1>5, <4>1
      <4>3. QED
        BY <1>1, <1>4, <2>1, <3>2, <4>2
    <3>3. QED
      BY <3>1, <3>2
  <2>4. QED
    BY <2>1, <2>2, <2>3, SeqEqual
<1>7. QED
  BY <1>3, <1>4, <1>5, <1>6 DEF r

\* What a path p was below, and what it is put below
LEMMA MovedPath ==
  ASSUME NEW N, NEW p \in Seq(N), NEW y \in Seq(N), IsPrefix(p, y), NEW q \in Seq(N)
  PROVE  /\ q \o Rest(p, y) \in Seq(N)
         /\ Len(q \o Rest(p, y)) = Len(q) + Len(y) - Len(p)
         /\ IsPrefix(q, q \o Rest(p, y))
         /\ Rest(q, q \o Rest(p, y)) = Rest(p, y)
         /\ p \o Rest(q, q \o Rest(p, y)) = y
         /\ y = p => q \o Rest(p, y) = q
<1>0. Len(p) \in Nat /\ Len(q) \in Nat /\ Len(y) \in Nat
  BY LenProperties
<1>1. PICK r : r = Rest(p, y)
  OBVIOUS
<1>2. r \in Seq(N) /\ Len(r) = Len(y) - Len(p) /\ p \o r = y /\ Len(r) \in Nat
  BY <1>1, RestFacts, LenProperties
<1>3. /\ q \o r \in Seq(N) /\ Len(q \o r) = Len(q) + Len(r)
      /\ \A i \in 1..(Len(q) + Len(r)) :
           (q \o r)[i] = IF i <= Len(q) THEN q[i] ELSE r[i - Len(q)]
  BY <1>2, ConcatProperties
<1>4. IsPrefix(q, q \o r)
  <2>1. Len(q) <= Len(q \o r) /\ \A i \in 1..Len(q) : q[i] = (q \o r)[i]
    BY <1>0, <1>2, <1>3
  <2>2. QED
    BY <1>3, <2>1, PrefixMeans
<1>5. Rest(q, q \o r) = r
  <2>1. Rest(q, q \o r) \in Seq(N) /\ q \o Rest(q, q \o r) = q \o r
    BY <1>3, <1>4, RestFacts
  <2>2. QED
    BY <1>2, <2>1, ConcatSimplifications
<1>6. ASSUME y = p PROVE q \o r = q
  <2>1. Len(r) = 0
    BY <1>0, <1>2, <1>6
  <2>2. r = <<>>
    BY <1>2, <2>1, EmptySeq
  <2>3. QED
    BY <2>2, ConcatEmptySeq
<1>7. Len(q \o r) = Len(q) + Len(y) - Len(p)
  BY <1>0, <1>2, <1>3
<1>8. QED
  BY <1>1, <1>2, <1>3, <1>4, <1>5, <1>6, <1>7

LEMMA MovedEntry ==
  ASSUME NEW N, NEW p \in Seq(N), NEW y \in Seq(N), IsPrefix(p, y), NEW q \in Seq(N), NEW n \in N
  PROVE  q \o Rest(p, Append(y, n)) = Append(q \o Rest(p, y), n)
<1> DEFINE z == Append(y, n)
<1>0. Len(p) \in Nat /\ Len(q) \in Nat /\ Len(y) \in Nat /\ Len(p) <= Len(y)
  BY LenProperties, PrefixMeans
<1>1. z \in Seq(N) /\ Len(z) = Len(y) + 1 /\ z[Len(y) + 1] = n /\ \A i \in 1..Len(y) : z[i] = y[i]
  BY AppendFacts
<1>2. IsPrefix(p, z)
  BY PrefixEntry
<1> HIDE DEF z
<1>3. PICK r : r = Rest(p, y)
  OBVIOUS
<1>4. PICK s : s = Rest(p, z)
  OBVIOUS
<1>5. /\ r \in Seq(N) /\ Len(r) = Len(y) - Len(p)
      /\ \A i \in 1..(Len(y) - Len(p)) : r[i] = y[Len(p) + i]
  BY <1>3, RestFacts
<1>6. /\ s \in Seq(N) /\ Len(s) = Len(z) - Len(p)
      /\ \A i \in 1..(Len(z) - Len(p)) : s[i] = z[Len(p) + i]
  BY <1>1, <1>2, <1>4, RestFacts
<1>7. /\ Append(r, n) \in Seq(N) /\ Len(Append(r, n)) = Len(r) + 1
      /\ Append(r, n)[Len(r) + 1] = n /\ \A i \in 1..Len(r) : Append(r, n)[i] = r[i]
  BY <1>5, AppendFacts
<1>8. s = Append(r, n)
  <2>1. Len(s) = Len(Append(r, n))
    BY <1>0, <1>1, <1>5, <1>6, <1>7
  <2>2. ASSUME NEW i \in 1..Len(s) PROVE s[i] = Append(r, n)[i]
    <3>1. s[i] = z[Len(p) + i]
      BY <1>6, <2>2
    <3>2. CASE i <= Len(r)
      <4>1. i \in 1..Len(r) /\ i \in 1..(Len(y) - Len(p)) /\ Len(p) + i \in 1..Len(y)
        BY <1>0, <1>5, <3>2
      <4>2. z[Len(p) + i] = y[Len(p) + i] /\ r[i] = y[Len(p) + i] /\ Append(r, n)[i] = r[i]
        BY <1>1, <1>5, <1>7, <4>1
      <4>3. QED
        BY <3>1, <4>2
    <3>3. CASE ~(i <= Len(r))
      <4>1. i = Len(r) + 1 /\ Len(p) + i = Len(y) + 1
        BY <1>0, <1>1, <1>5, <1>6, <2>2, <3>3
      <4>2. QED
        BY <1>1, <1>7, <3>1, <4>1
    <3>4. QED
      BY <3>2, <3>3
  <2>3. QED
    BY <1>6, <1>7, <2>1, <2>2, SeqEqual
<1>9. q \o Append(r, n) = Append(q \o r, n)
  <2>1. <<n>> \in Seq(N)
    OBVIOUS
  <2>2. Append(r, n) = r \o <<n>> /\ q \o r \in Seq(N)
    BY <1>5, AppendIsConcat, ConcatProperties
  <2>3. Append(q \o r, n) = (q \o r) \o <<n>>
    BY <2>2, AppendIsConcat
  <2>4. QED
    BY <1>5, <2>1, <2>2, <2>3, ConcatAssociative
<1>10. QED
  BY <1>3, <1>4, <1>8, <1>9 DEF z

LEMMA MovedFront ==
  ASSUME NEW N, NEW p \in Seq(N), NEW y \in Seq(N), IsPrefix(p, y), y # p, NEW q \in Seq(N)
  PROVE  /\ y # <<>> /\ IsPrefix(p, Front(y)) /\ Front(y) \in Seq(N)
         /\ q \o Rest(p, y) # <<>>
         /\ Front(q \o Rest(p, y)) = q \o Rest(p, Front(y))
         /\ Last(q \o Rest(p, y)) = Last(y)
<1>1. y # <<>> /\ IsPrefix(p, Front(y))
  BY PrefixFacts
<1>2. PICK f \in Seq(N), n \in N : f = Front(y) /\ n = Last(y) /\ y = Append(f, n)
  BY <1>1, FrontFacts, FrontLast
<1> IsPrefix(p, f)
  BY <1>1, <1>2
<1>3. q \o Rest(p, f) \in Seq(N)
  BY MovedPath
<1>4. q \o Rest(p, Append(f, n)) = Append(q \o Rest(p, f), n)
  BY MovedEntry
<1>5. PICK r \in Seq(N) : r = q \o Rest(p, f)
  BY <1>3
<1>6. q \o Rest(p, y) = Append(r, n)
  BY <1>2, <1>4, <1>5
<1>7. Append(r, n) # <<>> /\ Front(Append(r, n)) = r /\ Last(Append(r, n)) = n
  BY AppendFacts
<1>8. QED
  BY <1>1, <1>2, <1>5, <1>6, <1>7

\* A move of a file or directory to where nothing is keeps the tree, and all
\* that is not moved.
LEMMA MovedFacts ==
  ASSUME NEW N, NEW t, IsTree(t, N), NEW p \in DOMAIN t, NEW q \in Seq(N), q # <<>>,
         q \notin DOMAIN t, Has(t, Front(q), "dir"), ~IsPrefix(p, q)
  PROVE  /\ IsTree(Moved(t, p, q), N)
         /\ \A x, k : Has(t, x, k) /\ ~IsPrefix(p, x) => Has(Moved(t, p, q), x, k)
<1>1. PICK u : u = Moved(t, p, q)
  OBVIOUS
<1> DEFINE Target(y) == q \o Rest(p, y)
<1>2. p \in Seq(N) /\ p # <<>>
  BY PrefixFacts, NodeFacts
<1>3. ASSUME NEW y \in DOMAIN t, IsPrefix(p, y)
      PROVE  /\ y \in Seq(N) /\ Target(y) \in Seq(N) /\ IsPrefix(q, Target(y))
             /\ p \o Rest(q, Target(y)) = y
             /\ y = p => Target(y) = q
             /\ y # p => Target(y) # <<>> /\ Front(Target(y)) = Target(Front(y))
                         /\ Has(t, Front(y), "dir") /\ IsPrefix(p, Front(y))
  <2>1. y \in Seq(N)
    BY DEF IsTree
  <2>2. /\ Target(y) \in Seq(N) /\ IsPrefix(q, Target(y))
        /\ p \o Rest(q, Target(y)) = y
        /\ y = p => Target(y) = q
    <3>1. Target(y) \in Seq(N)
      BY <1>2, <1>3, <2>1, MovedPath
    <3>2. IsPrefix(q, Target(y))
      BY <1>2, <1>3, <2>1, MovedPath
    <3>3. p \o Rest(q, Target(y)) = y
      BY <1>2, <1>3, <2>1, MovedPath
    <3>4. y = p => Target(y) = q
      BY <1>2, <1>3, <2>1, MovedPath
    <3>5. QED
      BY <3>1, <3>2, <3>3, <3>4
  <2>3. ASSUME y # p
        PROVE  /\ Target(y) # <<>> /\ Front(Target(y)) = Target(Front(y))
               /\ Has(t, Front(y), "dir") /\ IsPrefix(p, Front(y))
    <3>1. y # <<>> /\ IsPrefix(p, Front(y))
      BY <1>2, <1>3, <2>1, <2>3, PrefixFacts
    <3>2. Target(y) # <<>> /\ Front(Target(y)) = Target(Front(y))
      BY <1>2, <1>3, <2>1, <2>3, MovedFront
    <3>3. QED
      BY <3>1, <3>2, NodeFacts
  <2>4. QED
    BY <2>1, <2>2, <2>3
<1>4. ASSUME NEW x \in DOMAIN t PROVE ~IsPrefix(q, x)
  <2>1. x \in Seq(N)
    BY DEF IsTree
  <2>2. QED
    BY <2>1, AncestorsAreDirs
<1>5. \A x : x \in DOMAIN u <=> \/ x \in DOMAIN t /\ ~IsPrefix(p, x)
                                \/ \E y \in DOMAIN t : IsPrefix(p, y) /\ x = Target(y)
  BY <1>1 DEF Moved, Without, Under
<1>6. \A x \in DOMAIN u : u[x] = IF IsPrefix(q, x) THEN t[p \o Rest(q, x)] ELSE t[x]
  BY <1>1 DEF Moved
<1> HIDE DEF Target
<1>7. ASSUME NEW x \in DOMAIN t, ~IsPrefix(p, x) PROVE x \in DOMAIN u /\ u[x] = t[x]
  BY <1>4, <1>5, <1>6, <1>7
<1>8. ASSUME NEW y \in DOMAIN t, IsPrefix(p, y)
      PROVE  Target(y) \in DOMAIN u /\ u[Target(y)] = t[y]
  <2>1. Target(y) \in DOMAIN u
    BY <1>5, <1>8
  <2>2. QED
    BY <1>3, <1>6, <1>8, <2>1
<1>9. \A x, k : Has(t, x, k) /\ ~IsPrefix(p, x) => Has(u, x, k)
  BY <1>7 DEF Has
<1>10. IsTree(u, N)
  <2>1. DOMAIN u \subseteq Seq(N)
    BY <1>3, <1>5 DEF IsTree
  <2>2. ASSUME NEW x \in DOMAIN u
        PROVE  u[x] = Dir \/ (u[x].data \in Seq(Nat) /\ u[x] = File(u[x].data))
    <3>1. PICK y \in DOMAIN t : u[x] = t[y]
      BY <1>5, <1>7, <1>8
    <3>2. QED
      BY <3>1 DEF IsTree
  <2>3. ASSUME NEW x \in DOMAIN u, x # <<>> PROVE Has(u, Front(x), "dir")
    <3>1. CASE x \in DOMAIN t /\ ~IsPrefix(p, x)
      <4>1. Has(t, Front(x), "dir") /\ x \in Seq(N) /\ Front(x) \in Seq(N)
        BY <2>3, <3>1, NodeFacts, FrontFacts
      <4>2. ~IsPrefix(p, Front(x))
        BY <1>2, <2>3, <3>1, <4>1, PrefixFacts
      <4>3. QED
        BY <1>9, <4>1, <4>2
    <3>2. ASSUME NEW y \in DOMAIN t, IsPrefix(p, y), x = Target(y) PROVE Has(u, Front(x), "dir")
      <4>1. CASE y = p
        <5>1. x = q
          BY <1>3, <3>2, <4>1
        <5>2. Front(q) \in Seq(N) /\ IsPrefix(Front(q), q)
          BY FrontFacts, PrefixFacts
        <5>3. ~IsPrefix(p, Front(q))
          BY <1>2, <5>2, PrefixTrans
        <5>4. QED
          BY <1>9, <5>1, <5>3
      <4>2. CASE y # p
        <5>1. Front(x) = Target(Front(y)) /\ Has(t, Front(y), "dir") /\ IsPrefix(p, Front(y))
          BY <1>3, <3>2, <4>2
        <5>2. Front(y) \in DOMAIN t /\ t[Front(y)].kind = "dir"
          BY <5>1 DEF Has
        <5>3. QED
          BY <1>8, <5>1, <5>2 DEF Has
      <4>3. QED
        BY <4>1, <4>2
    <3>3. QED
      BY <1>5, <3>1, <3>2
  <2>4. Has(u, <<>>, "dir")
    <3>1. ~IsPrefix(p, <<>>)
      <4>1. <<>> \in Seq(N) /\ Len(<<>>) = 0 /\ Len(p) \in Nat \ {0}
        BY <1>2, EmptySeq
      <4>2. QED
        BY <1>2, <4>1, PrefixFacts
    <3>2. QED
      BY <1>9, <3>1 DEF IsTree
  <2>5. QED
    BY <2>1, <2>2, <2>3, <2>4 DEF IsTree
<1>11. QED
  BY <1>1, <1>9, <1>10

-----------------------------------------------------------------------------
(* The types: the inductive invariant *)

\* Where a file is being fetched, where a directory is, and the steps of put and mv
Copying == {"get", "attr", "open", "read"}
Fetching == {"list", "each", "close"} \cup Copying
Putting == {"put_open", "put_chmod", "put_write", "put_close"}
Moving == {"mv_from", "mv_to", "mv_move"}

Frame == [dir : Seq(Names), todo : Seq(Names \X {"dir", "file"}), index : Nat]

\* Nobody removes the shell's directory on the volume.
TreesOK ==
  /\ IsTree(remote, Names) /\ Has(remote, curdir, "dir")
  /\ IsTree(local, LocalNames) /\ Has(local, lcwd, "dir")

\* What get_dir() has listed was a directory, and stays one.
FramesOK ==
  /\ frames \in Seq(Frame)
  /\ \A i \in DOMAIN frames : frames[i].todo # <<>> => Has(remote, frames[i].dir, "dir")
  /\ pc \in {"list", "each"} => frames # <<>>
  /\ frames # <<>> => pc \in Fetching \cup {"ended"}

\* The files a command copies between are what they were when it looked.
JobOK ==
  /\ job \in Job
  /\ pc \in Copying \cup {"close"} => job.dst # <<>> /\ Front(job.dst) = lcwd
  /\ pc \in {"attr", "open", "read"} => Has(local, job.dst, "file")
  /\ pc \in Putting => job.base \in DOMAIN local
  /\ pc \in {"put_open", "put_chmod"} => job.off = 0
  /\ pc = "put_write" => Has(local, job.base, "file") /\ job.off < Len(local[job.base].data)
  /\ pc \in {"simple", "cd"} \cup Moving \cup Putting => job.arg # <<>> /\ Front(job.arg) = curdir
  /\ pc \in Moving => job.to # <<>> /\ Front(job.to) = curdir
  /\ pc = "start" => /\ job.name \in Names /\ job.arg = <<job.name>>
                     /\ job.op \in {"getr", "startup"}

CountsOK ==
  /\ conn \in Conn
  /\ pc \in Requests \cup {"startup", "ready", "each", "leaving", "ended"}
  /\ misuse \subseteq Misuses /\ causes \subseteq Misuses
  /\ calls \in 0..MaxCalls /\ refusals \in 0..MaxRefusals /\ others \in 0..MaxOthers

Types == TreesOK /\ FramesOK /\ JobOK /\ CountsOK

LEMMA NamesAreLocal == Names \subseteq LocalNames
BY DEF LocalNames

LEMMA LocalPath ==
  ASSUME NEW p \in Seq(Names)
  PROVE  p \in Seq(LocalNames)
BY NamesAreLocal, SeqMonotonic

LEMMA NoJobFacts ==
  /\ NoJob \in Job
  /\ NoJob.op = "none" /\ NoJob.excuses = {} /\ NoJob.lost = FALSE /\ NoJob.off = 0
BY ShellConstants, EmptySeq DEF NoJob, Job, AllOps

LEMMA InitTypes == Init => Types
<1> SUFFICES ASSUME Init PROVE Types
  OBVIOUS
<1>1. TreesOK
  BY ShellConstants DEF Init, TreesOK, IsTree
<1>2. FramesOK
  BY EmptySeq DEF Init, FramesOK
<1>3. JobOK
  BY NoJobFacts DEF Init, JobOK, Putting, Moving, Copying
<1>4. CountsOK
  BY ShellConstants DEF Init, CountsOK, Conn
<1>5. QED
  BY <1>1, <1>2, <1>3, <1>4 DEF Types

LEMMA TypesImply == Types => TypeOK
<1> SUFFICES ASSUME Types PROVE TypeOK
  OBVIOUS
<1>1. curdir \in Seq(Names)
  BY DEF Types, TreesOK, Has, IsTree
<1>2. QED
  BY <1>1 DEF Types, TreesOK, FramesOK, JobOK, CountsOK, TypeOK, Frame

-----------------------------------------------------------------------------
(* Requests *)

\* A request changes what is known of misuse and refusals; it is made of a
\* volume that there is.
LEMMA AskFacts ==
  ASSUME CountsOK, NEW ok \in BOOLEAN, NEW bad, AskAnd(ok, bad), bad \subseteq Misuses
  PROVE  /\ misuse' \subseteq Misuses /\ refusals' \in 0..MaxRefusals
         /\ others' = others /\ calls' = calls
         /\ Volume \in {"fine", "unopened"} /\ (Volume = "unopened" => ~ok)
         /\ misuse' = misuse \cup ({Volume} \ {"fine"}) \cup bad
<1>1. Volume \in {"fine", "unopened"}
  BY DEF AskAnd
<1>2. misuse' \subseteq Misuses
  BY <1>1 DEF AskAnd, CountsOK, Misuses
<1>3. refusals' \in 0..MaxRefusals
  BY ShellConstants DEF AskAnd, CountsOK
<1>4. QED
  BY <1>1, <1>2, <1>3 DEF AskAnd

LEMMA AskCounts ==
  ASSUME CountsOK, NEW ok \in BOOLEAN, Ask(ok), conn' = conn, causes' = causes,
         pc' \in Requests \cup {"ready", "each", "leaving"}
  PROVE  CountsOK'
<1>1. AskAnd(ok, {}) /\ {} \subseteq Misuses
  BY DEF Ask
<1>2. misuse' \subseteq Misuses /\ refusals' \in 0..MaxRefusals /\ others' = others /\ calls' = calls
  BY <1>1, AskFacts
<1>3. QED
  BY <1>2 DEF CountsOK

LEMMA ExcusedFacts ==
  ASSUME job \in Job, NEW ok \in BOOLEAN, NEW why \in Excuses
  PROVE  /\ Excused(ok, why) \in Job
         /\ Excused(ok, why) = [job EXCEPT !.excuses = Excused(ok, why).excuses]
         /\ job.excuses \subseteq Excused(ok, why).excuses
         /\ ~ok => why \in Excused(ok, why).excuses
         /\ ok => Excused(ok, why) = job
<1>1. PICK e : e = job.excuses \cup (IF ok THEN {} ELSE {why})
  OBVIOUS
<1>2. e \in SUBSET Excuses
  BY <1>1 DEF Job
<1>3. Excused(ok, why) = [job EXCEPT !.excuses = e]
  BY <1>1 DEF Excused
<1>4. [job EXCEPT !.excuses = e] \in Job /\ [job EXCEPT !.excuses = e].excuses = e
  BY <1>2 DEF Job
<1>5. ok => [job EXCEPT !.excuses = e] = job
  BY <1>1 DEF Job
<1>6. QED
  BY <1>1, <1>3, <1>4, <1>5

-----------------------------------------------------------------------------
(* The types: starting, connecting, ending *)

LEMMA NoFrames ==
  ASSUME frames' = <<>>, pc' \notin {"list", "each"}
  PROVE  FramesOK'
BY EmptySeq DEF FramesOK

LEMMA FramesIdle ==
  ASSUME FramesOK, pc \notin Fetching \cup {"ended"}
  PROVE  frames = <<>>
BY DEF FramesOK

LEMMA TreesKept ==
  ASSUME TreesOK, UNCHANGED <<remote, local, lcwd, curdir>>
  PROVE  TreesOK'
BY DEF TreesOK

LEMMA FramesKept ==
  ASSUME FramesOK, frames' = frames, remote' = remote, pc' = pc \/ pc' = "ended"
  PROVE  FramesOK'
BY DEF FramesOK

LEMMA ConnFacts ==
  ASSUME CountsOK
  PROVE  /\ \A how : connect_volume(conn, how) \in Conn
         /\ \A named \in BOOLEAN : \A how :
              LET c == [conn EXCEPT !.server = TRUE, !.session = "open", !.named = named]
              IN c \in Conn /\ connect_volume(c, how) \in Conn
         /\ afp_unmount_volume \in Conn
         /\ UnmountMisuse \subseteq Misuses /\ UnmountMisuse \subseteq {"freed", "fork_list"}
         /\ \A how : CauseOf(how) \subseteq Misuses
         /\ Volume \in {"fine", "null", "freed", "unopened"}
<1>1. conn \in Conn
  BY DEF CountsOK
<1>2. \A c \in Conn : \A how : connect_volume(c, how) \in Conn
  BY DEF connect_volume, Conn
<1>3. \A named \in BOOLEAN :
        [conn EXCEPT !.server = TRUE, !.session = "open", !.named = named] \in Conn
  BY <1>1 DEF Conn
<1>4. afp_unmount_volume \in Conn
  BY <1>1 DEF afp_unmount_volume, Conn
<1>5. UnmountMisuse \subseteq Misuses /\ UnmountMisuse \subseteq {"freed", "fork_list"}
  BY DEF UnmountMisuse, Misuses
<1>6. \A how : CauseOf(how) \subseteq Misuses
  BY DEF CauseOf, Misuses
<1>7. Volume \in {"fine", "null", "freed", "unopened"}
  BY DEF Volume
<1>8. QED
  BY <1>1, <1>2, <1>3, <1>4, <1>5, <1>6, <1>7

LEMMA ConnectTypes ==
  ASSUME Types, com_connect
  PROVE  Types'
<1>1. pc = "ready" /\ pc' = pc /\ frames' = frames /\ calls < MaxCalls /\ calls' = calls + 1
      /\ job' = NoJob /\ misuse' = misuse /\ refusals' = refusals /\ others' = others
      /\ UNCHANGED <<remote, local, lcwd, curdir, frames>>
  BY DEF com_connect, Typed, place, bounds
<1>2. TreesOK'
  BY <1>1, TreesKept DEF Types
<1>3. FramesOK'
  BY <1>1, FramesKept DEF Types
<1>4. JobOK'
  BY <1>1, NoJobFacts DEF JobOK, Putting, Moving, Copying
<1>5. conn' \in Conn /\ causes' \subseteq Misuses
  BY ConnFacts DEF com_connect, Types, CountsOK
<1>6. CountsOK'
  BY <1>1, <1>5, ShellConstants DEF Types, CountsOK
<1>7. QED
  BY <1>2, <1>3, <1>4, <1>6 DEF Types

LEMMA DisconnectTypes ==
  ASSUME Types, com_disconnect
  PROVE  Types'
<1>1. pc = "ready" /\ pc' \in {"ready", "ended"} /\ frames' = frames
      /\ calls < MaxCalls /\ calls' = calls + 1
      /\ curdir' = <<>> /\ job' = NoJob /\ misuse' = misuse \cup UnmountMisuse
      /\ UNCHANGED <<remote, local, lcwd, frames, causes, refusals, others>>
  BY DEF com_disconnect, Typed, bounds
<1>2. TreesOK'
  BY <1>1 DEF Types, TreesOK, IsTree
<1>3. FramesOK'
  BY <1>1, FramesIdle, NoFrames DEF Types, Fetching, Copying
<1>4. JobOK'
  BY <1>1, NoJobFacts DEF JobOK, Putting, Moving, Copying
<1>5. conn' \in Conn
  BY ConnFacts, ZenonT(40) DEF com_disconnect, Types, Conn
<1>6. misuse' \subseteq Misuses
  BY <1>1, ConnFacts DEF Types, CountsOK
<1>7. CountsOK'
  BY <1>1, <1>5, <1>6, ShellConstants DEF Types, CountsOK
<1>8. QED
  BY <1>2, <1>3, <1>4, <1>7 DEF Types

LEMMA EndTypes ==
  ASSUME Types, Quit \/ ServerCloses \/ Crash
  PROVE  Types'
<1>1. pc' = pc \/ pc' = "ended"
  BY DEF Quit, ServerCloses, Crash
<1>2. UNCHANGED <<remote, local, lcwd, curdir, frames, job, calls, refusals, others>>
  BY DEF Quit, ServerCloses, Crash, place, bounds
<1>3. TreesOK' /\ FramesOK'
  BY <1>1, <1>2, TreesKept, FramesKept DEF Types
<1>4. JobOK'
  BY <1>1, <1>2 DEF Types, JobOK, Putting, Moving, Copying
<1>5. conn' \in Conn
  <2>1. CASE Quit
    BY <2>1, ConnFacts DEF Quit, Types
  <2>2. CASE ServerCloses
    BY <2>2 DEF ServerCloses, Types, CountsOK, Conn
  <2>3. CASE Crash
    BY <2>3 DEF Crash, Types, CountsOK
  <2>4. QED
    BY <2>1, <2>2, <2>3
<1>6. misuse' \subseteq Misuses /\ causes' \subseteq Misuses
  <2>1. misuse' = misuse \cup UnmountMisuse \/ misuse' = misuse \cup {Volume}
    BY DEF Quit, ServerCloses, Crash
  <2>2. Crash => Volume \in {"null", "freed"}
    BY DEF Crash
  <2>3. misuse' \subseteq Misuses
    BY <2>1, <2>2, ConnFacts DEF Quit, ServerCloses, Crash, Types, CountsOK, Misuses
  <2>4. causes' \subseteq Misuses
    BY DEF Quit, ServerCloses, Crash, Types, CountsOK, Misuses
  <2>5. QED
    BY <2>3, <2>4
<1>7. CountsOK'
  BY <1>1, <1>2, <1>5, <1>6 DEF Types, CountsOK
<1>8. QED
  BY <1>3, <1>4, <1>7 DEF Types

LEMMA StartAloneTypes ==
  ASSUME Types, StartAlone
  PROVE  Types'
<1>1. pc = "startup" /\ pc' = "ready"
      /\ UNCHANGED <<remote, local, lcwd, curdir, frames, job, conn, misuse, causes, calls,
                     refusals, others>>
  BY DEF StartAlone, place, bounds
<1>2. TreesOK' /\ FramesOK'
  BY <1>1, TreesKept, FramesIdle, NoFrames DEF Types, Fetching, Copying
<1>3. JobOK' /\ CountsOK'
  BY <1>1 DEF Types, JobOK, CountsOK, Putting, Moving, Copying
<1>4. QED
  BY <1>2, <1>3 DEF Types

LEMMA StartupTypes ==
  ASSUME Types, cmdline_server_startup
  PROVE  Types'
<1> DEFINE c == [conn EXCEPT !.server = TRUE, !.session = "open"]
<1>1. /\ pc = "startup" /\ pc' \in {"ready", "leaving", "start"}
      /\ UNCHANGED <<remote, local, lcwd, curdir, frames, misuse, calls, refusals, others>>
  BY DEF cmdline_server_startup, place, bounds
<1>2. TreesOK' /\ FramesOK'
  BY <1>1, TreesKept, FramesIdle, NoFrames DEF Types, Fetching, Copying
<1>3. c \in Conn /\ [c EXCEPT !.named = TRUE] \in Conn
  BY DEF Types, CountsOK, Conn
<1>4. \A how : connect_volume([c EXCEPT !.named = TRUE], how) \in Conn
  BY <1>3 DEF connect_volume, Conn
<1>5. conn' \in Conn /\ causes' \subseteq Misuses
  <2> HIDE DEF c
  <2>1. \/ conn' = c \/ \E how : conn' = connect_volume([c EXCEPT !.named = TRUE], how)
    BY DEF cmdline_server_startup, c
  <2>2. causes' = causes \/ \E how : causes' = CauseOf(how)
    BY DEF cmdline_server_startup
  <2>3. QED
    BY <1>3, <1>4, <2>1, <2>2, ConnFacts DEF Types, CountsOK
<1>6. CountsOK'
  BY <1>1, <1>5 DEF Types, CountsOK, Requests
<1>7. CASE pc' # "start"
  <2>1. job' = job \/ job' = NoJob
    BY <1>1, <1>7 DEF cmdline_server_startup
  <2>2. JobOK'
    BY <1>1, <1>7, <2>1, NoJobFacts DEF Types, JobOK, Putting, Moving, Copying
  <2>3. QED
    BY <1>2, <1>6, <2>2 DEF Types
<1>8. CASE pc' = "start"
  <2>1. PICK n \in Names, o \in {"getr", "startup"} :
          job' = [NoJob EXCEPT !.op = o, !.name = n, !.arg = <<n>>, !.base = Append(lcwd, n)]
    BY <1>1, <1>8 DEF cmdline_server_startup
  <2>2. lcwd \in Seq(LocalNames) /\ n \in LocalNames /\ <<n>> \in Seq(Names)
    BY NamesAreLocal DEF Types, TreesOK, Has, IsTree
  <2>3. PICK b \in Seq(LocalNames) : b = Append(lcwd, n)
    BY <2>2, AppendFacts
  <2>4. job' \in Job /\ job'.name = n /\ job'.arg = <<n>> /\ job'.op = o
    BY <2>1, <2>2, <2>3, NoJobFacts DEF Job, AllOps
  <2>5. JobOK'
    BY <1>8, <2>4 DEF JobOK, Putting, Moving, Copying
  <2>6. QED
    BY <1>2, <1>6, <2>5 DEF Types
<1>9. QED
  BY <1>7, <1>8

-----------------------------------------------------------------------------
(* The types: the commands that begin *)

\* What is typed counts; the shell waits for it with no call of get_dir() open.
LEMMA TypedFacts ==
  ASSUME Types, NEW op, Typed(op)
  PROVE  /\ pc = "ready" /\ frames = <<>> /\ op \in AllOps
         /\ calls' \in 0..MaxCalls
BY ShellConstants, FramesIdle DEF Typed, Types, CountsOK, Fetching, Copying

\* The paths that a name stands for
LEMMA PathFacts ==
  ASSUME Types, NEW n \in Names
  PROVE  /\ ServerPath(n) \in Seq(Names) /\ ServerPath(n) # <<>> /\ Front(ServerPath(n)) = curdir
         /\ Last(ServerPath(n)) = n
         /\ Append(lcwd, n) \in Seq(LocalNames) /\ Append(lcwd, n) # <<>>
         /\ Front(Append(lcwd, n)) = lcwd /\ Last(Append(lcwd, n)) = n
         /\ curdir \in Seq(Names) /\ lcwd \in Seq(LocalNames) /\ n \in LocalNames
<1>1. curdir \in Seq(Names) /\ lcwd \in Seq(LocalNames) /\ n \in LocalNames
  BY NamesAreLocal DEF Types, TreesOK, Has, IsTree
<1>2. /\ ServerPath(n) \in Seq(Names) /\ ServerPath(n) # <<>>
      /\ Front(ServerPath(n)) = curdir /\ Last(ServerPath(n)) = n
  BY <1>1, AppendFacts DEF ServerPath
<1>3. /\ Append(lcwd, n) \in Seq(LocalNames) /\ Append(lcwd, n) # <<>>
      /\ Front(Append(lcwd, n)) = lcwd /\ Last(Append(lcwd, n)) = n
  BY <1>1, AppendFacts
<1>4. QED
  BY <1>1, <1>2, <1>3

\* A command that has looked at nothing yet
LEMMA CommandTypes ==
  ASSUME Types, pc = "ready", frames = <<>>, frames' = <<>>, calls' \in 0..MaxCalls,
         UNCHANGED <<remote, local, lcwd, curdir, conn, causes, refusals, others>>,
         misuse' \subseteq Misuses,
         pc' \in {"simple", "mv_from", "put_open", "get", "ended"},
         JobOK'
  PROVE  Types'
<1>1. TreesOK' /\ FramesOK'
  BY TreesKept, NoFrames DEF Types
<1>2. CountsOK'
  BY DEF Types, CountsOK, Requests
<1>3. QED
  BY <1>1, <1>2 DEF Types

LEMMA SimpleStartTypes ==
  ASSUME Types, NEW op, NEW n \in Names, SimpleStart(op, n)
  PROVE  Types'
<1>1. /\ Typed(op) /\ pc' = "simple"
      /\ job' = [NoJob EXCEPT !.op = op, !.arg = ServerPath(n), !.start = lcwd]
      /\ UNCHANGED <<remote, local, lcwd, curdir, conn, frames, misuse, causes, refusals, others>>
  BY DEF SimpleStart, place, bounds
<1>2. pc = "ready" /\ frames = <<>> /\ calls' \in 0..MaxCalls /\ op \in AllOps
  BY <1>1, TypedFacts
<1>3. PICK p \in Seq(Names) : p = ServerPath(n) /\ p # <<>> /\ Front(p) = curdir
  BY PathFacts
<1>4. job' \in Job /\ job'.arg = p
  BY <1>1, <1>2, <1>3, NoJobFacts, PathFacts DEF Job
<1>5. JobOK'
  BY <1>1, <1>3, <1>4 DEF JobOK, Putting, Moving, Copying
<1>6. QED
  BY <1>1, <1>2, <1>5, CommandTypes DEF Types, CountsOK

LEMMA RenameTypes ==
  ASSUME Types, NEW n \in Names, NEW m \in Names, com_rename(n, m)
  PROVE  Types'
<1>1. /\ Typed("mv") /\ pc' = "mv_from"
      /\ job' = [NoJob EXCEPT !.op = "mv", !.start = lcwd, !.arg = ServerPath(n),
                              !.to = ServerPath(m)]
      /\ UNCHANGED <<remote, local, lcwd, curdir, conn, frames, misuse, causes, refusals, others>>
  BY DEF com_rename, place, bounds
<1>2. pc = "ready" /\ frames = <<>> /\ calls' \in 0..MaxCalls /\ "mv" \in AllOps
  BY <1>1, TypedFacts
<1>3. PICK p \in Seq(Names) : p = ServerPath(n) /\ p # <<>> /\ Front(p) = curdir
  BY PathFacts
<1>4. PICK q \in Seq(Names) : q = ServerPath(m) /\ q # <<>> /\ Front(q) = curdir
  BY PathFacts
<1>5. job' \in Job /\ job'.arg = p /\ job'.to = q
  BY <1>1, <1>2, <1>3, <1>4, NoJobFacts, PathFacts DEF Job
<1>6. JobOK'
  BY <1>1, <1>3, <1>4, <1>5 DEF JobOK, Putting, Moving, Copying
<1>7. QED
  BY <1>1, <1>2, <1>6, CommandTypes DEF Types, CountsOK

LEMMA PutTypes ==
  ASSUME Types, NEW n \in Names, com_put(n)
  PROVE  Types'
<1>1. /\ Typed("put") /\ pc' = "put_open" /\ Append(lcwd, n) \in DOMAIN local
      /\ job' = [NoJob EXCEPT !.op = "put", !.start = lcwd, !.base = Append(lcwd, n),
                              !.arg = ServerPath(n)]
      /\ UNCHANGED <<remote, local, lcwd, curdir, conn, frames, misuse, causes, refusals, others>>
  BY DEF com_put, place, bounds
<1>2. pc = "ready" /\ frames = <<>> /\ calls' \in 0..MaxCalls /\ "put" \in AllOps
  BY <1>1, TypedFacts
<1>3. PICK p \in Seq(Names) : p = ServerPath(n) /\ p # <<>> /\ Front(p) = curdir
  BY PathFacts
<1>4. PICK b \in Seq(LocalNames) : b = Append(lcwd, n)
  BY PathFacts
<1>5. job' \in Job /\ job'.arg = p /\ job'.base = b /\ job'.off = 0
  BY <1>1, <1>2, <1>3, <1>4, NoJobFacts, PathFacts DEF Job
<1>6. JobOK'
  BY <1>1, <1>3, <1>4, <1>5 DEF JobOK, Putting, Moving, Copying
<1>7. QED
  BY <1>1, <1>2, <1>6, CommandTypes DEF Types, CountsOK

LEMMA GetFileFacts ==
  ASSUME Types, NEW j \in Job, NEW n \in Names, NEW p \in Seq(Names)
  PROVE  /\ GetFile(j, n, p) \in Job
         /\ GetFile(j, n, p) = [j EXCEPT !.src = p, !.dst = Append(lcwd, n), !.off = 0]
<1>1. PICK b \in Seq(LocalNames) : b = Append(lcwd, n)
  BY PathFacts
<1>2. QED
  BY <1>1 DEF GetFile, Job

LEMMA GetTypes ==
  ASSUME Types, NEW n \in Names, com_get(n)
  PROVE  Types'
<1> DEFINE j == [NoJob EXCEPT !.op = "get", !.start = lcwd, !.arg = ServerPath(n),
                              !.base = Append(lcwd, n)]
<1>1. /\ Typed("get") /\ pc' = "get"
      /\ job' = GetFile(j, n, ServerPath(n))
      /\ UNCHANGED <<remote, local, lcwd, curdir, conn, frames, misuse, causes, refusals, others>>
  BY DEF com_get, place, bounds
<1>2. pc = "ready" /\ frames = <<>> /\ calls' \in 0..MaxCalls /\ "get" \in AllOps
  BY <1>1, TypedFacts
<1>3. PICK p \in Seq(Names) : p = ServerPath(n)
  BY PathFacts
<1>4. PICK b \in Seq(LocalNames) : b = Append(lcwd, n)
  BY PathFacts
<1>5. j \in Job
  BY <1>2, <1>3, <1>4, NoJobFacts, PathFacts DEF Job
<1> HIDE DEF j
<1>6. job' \in Job /\ job'.dst = b
  <2>1. job' \in Job /\ job' = [j EXCEPT !.src = p, !.dst = b, !.off = 0]
    BY <1>1, <1>3, <1>4, <1>5, GetFileFacts
  <2>2. QED
    BY <1>5, <2>1 DEF Job
<1>7. b # <<>> /\ Front(b) = lcwd
  BY <1>4, PathFacts
<1>8. JobOK'
  BY <1>1, <1>6, <1>7 DEF JobOK, Putting, Moving, Copying
<1>9. QED
  BY <1>1, <1>2, <1>8, CommandTypes DEF Types, CountsOK

LEMMA ViewTypes ==
  ASSUME Types, NEW n, com_view(n)
  PROVE  Types'
<1>1. /\ Typed("view") /\ pc' = "ended"
      /\ job' = [NoJob EXCEPT !.op = "view", !.start = lcwd]
      /\ misuse' = misuse \cup {"null_stat"}
      /\ UNCHANGED <<remote, local, lcwd, curdir, conn, frames, causes, refusals, others>>
  BY DEF com_view, place, bounds
<1>2. pc = "ready" /\ frames = <<>> /\ calls' \in 0..MaxCalls /\ "view" \in AllOps
  BY <1>1, TypedFacts
<1>3. lcwd \in Seq(LocalNames)
  BY DEF Types, TreesOK, Has, IsTree
<1>4. job' \in Job
  BY <1>1, <1>2, <1>3, NoJobFacts DEF Job
<1>5. JobOK'
  BY <1>1, <1>4 DEF JobOK, Putting, Moving, Copying
<1>6. misuse' \subseteq Misuses
  BY <1>1 DEF Types, CountsOK, Misuses
<1>7. QED
  BY <1>1, <1>2, <1>5, <1>6, CommandTypes

LEMMA CdTypes ==
  ASSUME Types, CdStart
  PROVE  Types'
<1>1. /\ Typed("cd")
      /\ UNCHANGED <<remote, local, lcwd, frames, misuse, refusals, others>>
  BY DEF CdStart, bounds
<1>2. pc = "ready" /\ frames = <<>> /\ calls' \in 0..MaxCalls /\ "cd" \in AllOps
  BY <1>1, TypedFacts
<1>3. PICK n \in Names \cup {Null}, how \in Hows :
        LET c == IF conn.named THEN conn
                 ELSE [connect_volume(conn, how) EXCEPT !.named = how = "opened"]
            goes == c.named /\ (conn.named \/ n # Null)
        IN /\ conn' = c
           /\ causes' = causes \cup (IF conn.named THEN {} ELSE CauseOf(how))
           /\ pc' = IF goes /\ n # Null THEN "cd" ELSE "ready"
           /\ curdir' = IF goes /\ n = Null THEN Up(curdir) ELSE curdir
           /\ job' = [NoJob EXCEPT !.op = "cd", !.start = lcwd,
                        !.arg = IF n = Null THEN <<>> ELSE ServerPath(n)]
  BY DEF CdStart
<1>4. /\ pc' \in {"cd", "ready"} /\ (pc' = "cd" => n \in Names /\ curdir' = curdir)
      /\ curdir' \in {curdir, Up(curdir)}
      /\ conn' = conn \/ conn' = [connect_volume(conn, how) EXCEPT !.named = how = "opened"]
      /\ causes' = causes \/ causes' = causes \cup CauseOf(how)
  BY <1>3
<1>5. conn' \in Conn
  <2>1. conn \in Conn /\ connect_volume(conn, how) \in Conn
    BY ConnFacts DEF Types, CountsOK
  <2>2. [connect_volume(conn, how) EXCEPT !.named = how = "opened"] \in Conn
    BY <2>1 DEF Conn
  <2>3. QED
    BY <1>4, <2>1, <2>2
<1>6. causes' \subseteq Misuses
  BY <1>4, ConnFacts DEF Types, CountsOK
<1>7. CountsOK'
  BY <1>1, <1>2, <1>4, <1>5, <1>6 DEF Types, CountsOK, Requests
<1>8. TreesOK'
  <2>1. Has(remote, Up(curdir), "dir")
    <3>1. curdir \in DOMAIN remote
      BY DEF Types, TreesOK, Has
    <3>2. QED
      BY <3>1, NodeFacts DEF Up, Types, TreesOK
  <2>2. QED
    BY <1>1, <1>4, <2>1 DEF Types, TreesOK
<1>9. FramesOK'
  BY <1>1, <1>2, <1>4, NoFrames
<1>10. PICK p \in Seq(Names) : p = IF n = Null THEN <<>> ELSE ServerPath(n)
  BY EmptySeq, PathFacts
<1>11. job' \in Job /\ job'.arg = p
  <2>1. job' = [NoJob EXCEPT !.op = "cd", !.start = lcwd, !.arg = p]
    BY <1>3, <1>10
  <2>2. lcwd \in Seq(LocalNames)
    BY DEF Types, TreesOK, Has, IsTree
  <2>3. QED
    BY <1>2, <2>1, <2>2, NoJobFacts DEF Job
<1>12. pc' = "cd" => p # <<>> /\ Front(p) = curdir'
  <2>1. pc' = "cd" => n \in Names /\ curdir' = curdir /\ p = ServerPath(n)
    BY <1>4, <1>10, ShellConstants
  <2>2. QED
    BY <2>1, PathFacts
<1>13. JobOK'
  BY <1>4, <1>11, <1>12 DEF JobOK, Putting, Moving, Copying
<1>14. QED
  BY <1>7, <1>8, <1>9, <1>13 DEF Types

-----------------------------------------------------------------------------
(* The types: requests that change the volume *)

\* A path that no command can be about is not above the shell's directory.
LEMMA BesideCurdir ==
  ASSUME Types, NEW p \in Seq(Names), p # <<>>, Front(p) = curdir
  PROVE  ~IsPrefix(p, curdir)
<1>1. Len(curdir) = Len(p) - 1 /\ Len(p) \in Nat /\ curdir \in Seq(Names)
  BY FrontFacts
<1>2. QED
  BY <1>1, PrefixFacts

LEMMA EffectTypes ==
  ASSUME Types, NEW op, NEW p \in Seq(Names), p # <<>>, Front(p) = curdir
  PROVE  IsTree(Effect(op, remote, p), Names) /\ Has(Effect(op, remote, p), curdir, "dir")
<1>1. IsTree(remote, Names) /\ Has(remote, curdir, "dir")
  BY DEF Types, TreesOK
<1>2. <<>> \in Seq(Nat) /\ File(<<>>).data = <<>>
  BY EmptySeq DEF File
<1>3. CASE p \notin DOMAIN remote
  <2>1. /\ IsTree(With(remote, p, Dir), Names) /\ Has(With(remote, p, Dir), curdir, "dir")
        /\ IsTree(With(remote, p, File(<<>>)), Names)
        /\ Has(With(remote, p, File(<<>>)), curdir, "dir")
    <3>1. ~Has(remote, p, "dir")
      BY <1>3 DEF Has
    <3>2. IsTree(With(remote, p, Dir), Names) /\ Has(With(remote, p, Dir), curdir, "dir")
      BY <1>1, <3>1, WithFacts
    <3>3. PICK f : f = File(<<>>) /\ f.data \in Seq(Nat) /\ f = File(f.data)
      BY <1>2
    <3>4. IsTree(With(remote, p, f), Names) /\ Has(With(remote, p, f), curdir, "dir")
      BY <1>1, <3>1, <3>3, WithFacts
    <3>5. QED
      BY <3>2, <3>3, <3>4
  <2>2. Effect(op, remote, p) \in {With(remote, p, Dir), With(remote, p, File(<<>>)), remote}
    BY <1>3 DEF Effect, Has
  <2>3. QED
    BY <1>1, <2>1, <2>2
<1>4. CASE p \in DOMAIN remote
  <2>1. IsTree(Without(remote, p), Names) /\ Has(Without(remote, p), curdir, "dir")
    BY <1>1, WithoutFacts, BesideCurdir
  <2>2. Effect(op, remote, p) \in {Without(remote, p), remote}
    BY <1>4 DEF Effect
  <2>3. QED
    BY <1>1, <2>1, <2>2
<1>5. QED
  BY <1>3, <1>4

LEMMA SimpleTypes ==
  ASSUME Types, NEW ok \in BOOLEAN, Simple(ok)
  PROVE  Types'
<1>1. /\ pc = "simple" /\ Ask(ok) /\ pc' = "ready"
      /\ remote' = IF ok THEN Effect(job.op, remote, job.arg) ELSE remote
      /\ UNCHANGED <<local, lcwd, curdir, conn, frames, job, causes>>
  BY DEF Simple, place
<1>2. frames = <<>> /\ job.arg \in Seq(Names) /\ job.arg # <<>> /\ Front(job.arg) = curdir
  BY <1>1, FramesIdle DEF Types, JobOK, Job, Fetching, Copying
<1>3. IsTree(remote', Names) /\ Has(remote', curdir, "dir")
  BY <1>1, <1>2, EffectTypes DEF Types, TreesOK
<1>4. TreesOK' /\ FramesOK'
  BY <1>1, <1>2, <1>3, NoFrames DEF Types, TreesOK
<1>5. JobOK' /\ CountsOK'
  BY <1>1, AskCounts DEF Types, JobOK, Putting, Moving, Copying
<1>6. QED
  BY <1>4, <1>5 DEF Types

LEMMA CdLookupTypes ==
  ASSUME Types, NEW ok \in BOOLEAN, CdLookup(ok)
  PROVE  Types'
<1>1. /\ pc = "cd" /\ Ask(ok) /\ pc' = "ready"
      /\ curdir' = IF ok /\ Has(remote, job.arg, "dir") THEN job.arg ELSE curdir
      /\ UNCHANGED <<remote, local, lcwd, conn, frames, job, causes>>
  BY DEF CdLookup
<1>2. frames = <<>>
  BY <1>1, FramesIdle DEF Types, Fetching, Copying
<1>3. TreesOK' /\ FramesOK'
  BY <1>1, <1>2, NoFrames DEF Types, TreesOK
<1>4. JobOK' /\ CountsOK'
  BY <1>1, AskCounts DEF Types, JobOK, Putting, Moving, Copying
<1>5. QED
  BY <1>3, <1>4 DEF Types

LEMMA RenameLooksTypes ==
  ASSUME Types, NEW ok \in BOOLEAN, RenameFrom(ok) \/ RenameTo(ok)
  PROVE  Types'
<1>1. /\ pc \in Moving /\ Ask(ok) /\ pc' \in {"mv_to", "mv_move", "ready"}
      /\ job' = Excused(ok, "refused")
      /\ UNCHANGED <<remote, local, lcwd, curdir, conn, frames, causes>>
  BY DEF RenameFrom, RenameTo, Moving, place
<1>2. frames = <<>>
  BY <1>1, FramesIdle DEF Types, Fetching, Copying, Moving
<1>3. TreesOK' /\ FramesOK'
  BY <1>1, <1>2, NoFrames DEF Types, TreesOK
<1>4. job' \in Job /\ job' = [job EXCEPT !.excuses = Excused(ok, "refused").excuses]
  BY <1>1, ExcusedFacts DEF Types, JobOK, Excuses
<1>5. job'.arg = job.arg /\ job'.to = job.to
  BY <1>4 DEF Job
<1>6. JobOK' /\ CountsOK'
  BY <1>1, <1>4, <1>5, AskCounts DEF Types, JobOK, Putting, Moving, Copying, Requests
<1>7. QED
  BY <1>3, <1>6 DEF Types

LEMMA RenameMoveTypes ==
  ASSUME Types, NEW ok \in BOOLEAN, RenameMove(ok)
  PROVE  Types'
<1>1. PICK to : to = IF Has(remote, job.to, "dir") THEN Append(job.to, Last(job.arg)) ELSE job.to
  OBVIOUS
<1> DEFINE replaces == Has(remote, to, "file") /\ to = job.to /\ to # job.arg
           moves == /\ ok /\ job.arg \in DOMAIN remote /\ ~IsPrefix(job.arg, to)
                    /\ to \notin DOMAIN remote \/ replaces
<1>2. /\ pc = "mv_move" /\ Ask(ok) /\ pc' = "ready"
      /\ remote' = IF moves THEN Moved(Without(remote, to), job.arg, to) ELSE remote
      /\ job' = [Excused(ok, "refused") EXCEPT !.lost = moves /\ replaces]
      /\ UNCHANGED <<local, lcwd, curdir, conn, frames, causes>>
  BY <1>1 DEF RenameMove, place
<1>3. /\ frames = <<>> /\ job \in Job /\ job.arg \in Seq(Names) /\ job.to \in Seq(Names)
      /\ job.arg # <<>> /\ Front(job.arg) = curdir /\ job.to # <<>> /\ Front(job.to) = curdir
  BY <1>2, FramesIdle DEF Types, JobOK, Job, Fetching, Copying, Moving
<1>4. IsTree(remote, Names) /\ Has(remote, curdir, "dir") /\ curdir \in Seq(Names)
  BY DEF Types, TreesOK, Has, IsTree
<1>5. to \in Seq(Names) /\ to # <<>> /\ Has(remote, Front(to), "dir")
  <2>1. CASE Has(remote, job.to, "dir")
    <3>1. Last(job.arg) \in Names
      BY <1>3, FrontFacts
    <3>2. QED
      BY <1>1, <1>3, <2>1, <3>1, AppendFacts
  <2>2. CASE ~Has(remote, job.to, "dir")
    BY <1>1, <1>3, <1>4, <2>2
  <2>3. QED
    BY <2>1, <2>2
<1>6. IsTree(remote', Names) /\ Has(remote', curdir, "dir")
  <2>1. CASE ~moves
    BY <1>2, <1>4, <2>1
  <2>2. CASE moves
    <3>1. PICK w : w = Without(remote, to)
      OBVIOUS
    <3>2. /\ IsTree(w, Names)
          /\ DOMAIN w = {q \in DOMAIN remote : ~IsPrefix(to, q)}
          /\ \A q, k : Has(remote, q, k) /\ ~IsPrefix(to, q) => Has(w, q, k)
      <4>1. IsTree(w, Names)
        BY <1>4, <1>5, <3>1, WithoutFacts
      <4>2. DOMAIN w = {q \in DOMAIN remote : ~IsPrefix(to, q)}
        BY <3>1 DEF Without, Under
      <4>3. \A q, k : Has(remote, q, k) /\ ~IsPrefix(to, q) => Has(w, q, k)
        BY <1>4, <1>5, <3>1, WithoutFacts
      <4>4. QED
        BY <4>1, <4>2, <4>3
    <3>3. ~IsPrefix(to, curdir) /\ ~IsPrefix(job.arg, curdir)
      <4>1. ~IsPrefix(job.to, curdir) /\ ~IsPrefix(job.arg, curdir)
        BY <1>3, BesideCurdir
      <4>2. to = job.to \/ IsPrefix(job.to, to)
        <5>1. Last(job.arg) \in Names
          BY <1>3, FrontFacts
        <5>2. QED
          BY <1>1, <1>3, <5>1, PrefixFacts
      <4>3. QED
        BY <1>3, <1>4, <1>5, <4>1, <4>2, PrefixTrans
    <3>4. ~IsPrefix(to, job.arg) /\ ~IsPrefix(job.arg, to)
      <4>1. ASSUME IsPrefix(to, job.arg) PROVE FALSE
        <5>1. to # job.arg
          BY <1>3, <2>2, PrefixFacts
        <5>2. Has(remote, to, "dir")
          BY <1>3, <1>4, <1>5, <2>2, <4>1, <5>1, AncestorsAreDirs
        <5>3. QED
          BY <1>4, <2>2, <5>2, NodeFacts DEF Has
      <4>2. QED
        BY <2>2, <4>1
    <3>5. job.arg \in DOMAIN w /\ to \notin DOMAIN w
      BY <1>5, <2>2, <3>2, <3>4, PrefixFacts
    <3>6. Has(w, Front(to), "dir")
      <4>1. ~IsPrefix(to, Front(to))
        <5>1. Front(to) \in Seq(Names) /\ Len(Front(to)) = Len(to) - 1 /\ Len(to) \in Nat
          BY <1>5, FrontFacts
        <5>2. QED
          BY <1>5, <5>1, PrefixFacts
      <4>2. QED
        BY <1>5, <3>2, <4>1
    <3>7. /\ IsTree(Moved(w, job.arg, to), Names)
          /\ \A x, k : Has(w, x, k) /\ ~IsPrefix(job.arg, x) => Has(Moved(w, job.arg, to), x, k)
      BY <1>5, <3>2, <3>4, <3>5, <3>6, MovedFacts, Zenon
    <3>8. Has(w, curdir, "dir")
      BY <1>4, <3>2, <3>3
    <3>9. QED
      BY <1>2, <2>2, <3>1, <3>3, <3>7, <3>8
  <2>3. QED
    BY <2>1, <2>2
<1>7. TreesOK' /\ FramesOK'
  BY <1>2, <1>3, <1>6, NoFrames DEF Types, TreesOK
<1>8. job' \in Job
  <2>1. Excused(ok, "refused") \in Job
    BY <1>3, ExcusedFacts DEF Excuses
  <2>2. PICK b \in BOOLEAN : job' = [Excused(ok, "refused") EXCEPT !.lost = b]
    BY <1>2
  <2>3. QED
    BY <2>1, <2>2 DEF Job
<1>9. JobOK' /\ CountsOK'
  BY <1>2, <1>8, AskCounts DEF Types, JobOK, Putting, Moving, Copying
<1>10. QED
  BY <1>7, <1>9 DEF Types

\* A change by another client is beside what the shell's directory is in, and
\* removes no directory.
LEMMA OtherTypes ==
  ASSUME Types, NEW n \in Names, Other(Append(curdir, n))
  PROVE  Types'
<1>1. PICK p \in Seq(Names) : p = Append(curdir, n) /\ p # <<>> /\ Front(p) = curdir
  BY PathFacts DEF ServerPath
<1>2. /\ pc \in Requests \cup {"each"} /\ others < MaxOthers /\ others' = others + 1
      /\ remote' = CASE p \notin DOMAIN remote -> With(remote, p, File(<<0>>))
                     [] Has(remote, p, "file") -> Without(remote, p)
                     [] OTHER -> remote
      /\ job' = [job EXCEPT !.excuses = @ \cup {"other"}]
      /\ UNCHANGED <<local, lcwd, curdir, conn, pc, frames, misuse, causes, calls, refusals>>
  BY <1>1 DEF Other, place
<1>3. IsTree(remote, Names)
  BY DEF Types, TreesOK
<1>4. IsTree(remote', Names) /\ \A q : Has(remote, q, "dir") => Has(remote', q, "dir")
  <2>1. CASE p \notin DOMAIN remote
    <3>1. <<0>> \in Seq(Nat) /\ File(<<0>>).data = <<0>>
      BY DEF File
    <3>2. ~Has(remote, p, "dir")
      BY <2>1 DEF Has
    <3>3. remote' = With(remote, p, File(<<0>>))
      BY <1>2, <2>1 DEF Has
    <3>4. QED
      BY <1>3, <3>1, <3>2, <3>3, WithFacts, ZenonT(40)
  <2>2. CASE Has(remote, p, "file")
    <3>1. remote' = Without(remote, p)
      BY <1>2, <2>2 DEF Has
    <3>2. ASSUME NEW q, Has(remote, q, "dir") PROVE ~IsPrefix(p, q)
      <4>1. q \in DOMAIN remote /\ p # q
        BY <2>2, <3>2 DEF Has
      <4>2. ~Has(remote, p, "dir")
        BY <2>2 DEF Has
      <4>3. QED
        BY <1>3, <4>1, <4>2, AncestorsAreDirs
    <3>3. QED
      BY <1>1, <1>3, <3>1, <3>2, WithoutFacts
  <2>3. CASE p \in DOMAIN remote /\ ~Has(remote, p, "file")
    BY <1>2, <1>3, <2>3
  <2>4. QED
    BY <2>1, <2>2, <2>3
<1>5. TreesOK' /\ FramesOK'
  BY <1>2, <1>4 DEF Types, TreesOK, FramesOK
<1>6. job \in Job /\ job' \in Job /\ job' = [job EXCEPT !.excuses = job'.excuses]
  <2>1. job \in Job
    BY DEF Types, JobOK
  <2>2. PICK e \in SUBSET Excuses : e = job.excuses \cup {"other"}
    BY <2>1 DEF Job, Excuses
  <2>3. job' = [job EXCEPT !.excuses = e]
    BY <1>2, <2>2
  <2>4. QED
    BY <2>1, <2>3 DEF Job
<1>7. JobOK'
  <2>1. /\ job'.dst = job.dst /\ job'.base = job.base /\ job'.off = job.off /\ job'.arg = job.arg
        /\ job'.to = job.to /\ job'.name = job.name /\ job'.op = job.op
    BY <1>6 DEF Job
  <2>2. QED
    BY <1>2, <1>6, <2>1 DEF Types, JobOK
<1>8. CountsOK'
  BY <1>2, ShellConstants DEF Types, CountsOK
<1>9. QED
  BY <1>5, <1>7, <1>8 DEF Types

-----------------------------------------------------------------------------
(* The types: put *)

\* What a step of a command of one file keeps
LEMMA FileStep ==
  ASSUME Types, pc \in Putting, NEW ok \in BOOLEAN, frames' = frames,
         pc' \in {"put_chmod", "put_write", "put_close", "ready"}
  PROVE  FramesOK' /\ frames = <<>>
<1>1. frames = <<>>
  BY FramesIdle DEF Types, Fetching, Copying, Putting
<1>2. QED
  BY <1>1, NoFrames

LEMMA PutOpenTypes ==
  ASSUME Types, NEW ok \in BOOLEAN, PutOpen(ok)
  PROVE  Types'
<1> DEFINE p == job.arg
           opened == ok /\ ~Has(remote, p, "dir")
<1>1. /\ pc = "put_open" /\ AskAnd(ok, IF opened THEN {} ELSE {"wild_fp"})
      /\ remote' = IF opened /\ p \notin DOMAIN remote THEN With(remote, p, File(<<>>)) ELSE remote
      /\ job' = [Excused(opened, "refused") EXCEPT
                   !.old = IF opened /\ p \in DOMAIN remote THEN remote[p].data ELSE <<>>]
      /\ pc' = IF opened THEN "put_chmod" ELSE "ready"
      /\ causes' = IF opened THEN causes ELSE causes \cup {"wild_fp"}
      /\ UNCHANGED <<local, lcwd, curdir, conn, frames>>
  BY DEF PutOpen, place
<1>2. job \in Job /\ p \in Seq(Names) /\ job.base \in DOMAIN local /\ p # <<>> /\ Front(p) = curdir
  BY <1>1 DEF Types, JobOK, Job, Putting
<1>3. IsTree(remote, Names) /\ Has(remote, curdir, "dir")
  BY DEF Types, TreesOK
<1>4. IsTree(remote', Names) /\ Has(remote', curdir, "dir")
  <2>1. PICK f : f = File(<<>>) /\ f.data \in Seq(Nat) /\ f = File(f.data)
    BY EmptySeq, NewFile
  <2>2. ASSUME p \notin DOMAIN remote
        PROVE  IsTree(With(remote, p, f), Names) /\ Has(With(remote, p, f), curdir, "dir")
    <3>1. ~Has(remote, p, "dir")
      BY <2>2 DEF Has
    <3>2. QED
      BY <1>2, <1>3, <2>1, <3>1, WithFacts
  <2>3. QED
    BY <1>1, <1>3, <2>1, <2>2
<1>5. TreesOK' /\ FramesOK'
  BY <1>1, <1>4, FileStep DEF Types, TreesOK, Putting
<1>6. job' \in Job /\ job'.base = job.base /\ job'.arg = job.arg /\ job'.off = 0
  <2>0. job.off = 0
    BY <1>1 DEF Types, JobOK
  <2>1. PICK o \in Seq(Nat) : o = IF opened /\ p \in DOMAIN remote THEN remote[p].data ELSE <<>>
    BY <1>3, EmptySeq, NodeFacts
  <2>2. PICK e \in SUBSET Excuses : Excused(opened, "refused") = [job EXCEPT !.excuses = e]
    <3>1. job.excuses \cup (IF opened THEN {} ELSE {"refused"}) \in SUBSET Excuses
      BY <1>2 DEF Job, Excuses
    <3>2. QED
      BY <3>1 DEF Excused
  <2>3. job' = [[job EXCEPT !.excuses = e] EXCEPT !.old = o]
    BY <1>1, <2>1, <2>2
  <2>4. QED
    BY <1>2, <2>0, <2>3 DEF Job
<1>7. JobOK'
  BY <1>1, <1>2, <1>6 DEF JobOK, Putting, Moving, Copying
<1>8. CountsOK'
  <2>1. PICK bad : bad = (IF opened THEN {} ELSE {"wild_fp"}) /\ bad \subseteq Misuses
    BY DEF Misuses
  <2>2. /\ misuse' \subseteq Misuses /\ refusals' \in 0..MaxRefusals
        /\ others' = others /\ calls' = calls
    BY <1>1, <2>1, AskFacts DEF Types
  <2>3. causes' \subseteq Misuses /\ pc' \in Requests \cup {"ready"}
    BY <1>1 DEF Types, CountsOK, Misuses, Requests
  <2>4. QED
    BY <1>1, <2>2, <2>3 DEF Types, CountsOK
<1>9. QED
  BY <1>5, <1>7, <1>8 DEF Types

LEMMA PutChmodTypes ==
  ASSUME Types, NEW ok \in BOOLEAN, PutChmod(ok)
  PROVE  Types'
<1>1. /\ pc = "put_chmod" /\ Ask(ok)
      /\ pc' = IF Has(local, job.base, "dir") \/ local[job.base].data = <<>> THEN "put_close"
                                                                             ELSE "put_write"
      /\ UNCHANGED <<remote, local, lcwd, curdir, conn, frames, job, causes>>
  BY DEF PutChmod, place
<1>2. TreesOK' /\ FramesOK'
  BY <1>1, TreesKept, FileStep DEF Types, Putting
<1>3. CountsOK'
  BY <1>1, AskCounts DEF Types, Requests
<1>4. job \in Job /\ job.base \in DOMAIN local
  BY <1>1 DEF Types, JobOK, Putting
<1>5. pc' = "put_write" => Has(local, job.base, "file") /\ 0 < Len(local[job.base].data)
  <2>1. local[job.base].kind \in {"dir", "file"} /\ local[job.base].data \in Seq(Nat)
    BY <1>4, NodeFacts DEF Types, TreesOK
  <2>2. QED
    BY <1>1, <1>4, <2>1, EmptySeq DEF Has
<1>6. JobOK'
  BY <1>1, <1>4, <1>5 DEF Types, JobOK, Putting, Moving, Copying
<1>7. QED
  BY <1>2, <1>3, <1>6 DEF Types

\* A file written at the block after one of its own, or within
LEMMA WrittenFacts ==
  ASSUME NEW d \in Seq(Nat), NEW k \in Nat \ {0}, NEW v \in Nat
  PROVE  /\ Written(d, k, v) \in Seq(Nat)
         /\ Len(Written(d, k, v)) = IF k > Len(d) THEN k ELSE Len(d)
         /\ Written(d, k, v)[k] = v
         /\ \A i \in 1..Len(d) : i # k => Written(d, k, v)[i] = d[i]
<1>1. Len(d) \in Nat /\ \A i \in 1..Len(d) : d[i] \in Nat
  BY LenProperties, ElementOfSeq
<1>2. PICK m \in Nat : m = IF k > Len(d) THEN k ELSE Len(d)
  BY <1>1
<1>3. PICK w : w = [i \in 1..m |-> IF i = k THEN v ELSE IF i > Len(d) THEN 0 ELSE d[i]]
  OBVIOUS
<1>4. Written(d, k, v) = w
  BY <1>2, <1>3 DEF Written
<1>5. w \in [1..m -> Nat]
  BY <1>1, <1>3
<1>6. w \in Seq(Nat) /\ Len(w) = m
  BY <1>2, <1>5, LenProperties
<1>7. w[k] = v /\ \A i \in 1..Len(d) : i # k => w[i] = d[i]
  BY <1>1, <1>2, <1>3
<1>8. QED
  BY <1>2, <1>4, <1>6, <1>7

\* A file whose blocks are changed stays one, and the tree with it.
LEMMA ChangedFile ==
  ASSUME NEW N, NEW t, IsTree(t, N), NEW p, Has(t, p, "file"), NEW d \in Seq(Nat)
  PROVE  /\ IsTree([t EXCEPT ![p].data = d], N)
         /\ \A q, k : Has(t, q, k) => Has([t EXCEPT ![p].data = d], q, k)
         /\ [t EXCEPT ![p].data = d][p] = File(d)
         /\ \A q \in DOMAIN t \ {p} : [t EXCEPT ![p].data = d][q] = t[q]
         /\ DOMAIN [t EXCEPT ![p].data = d] = DOMAIN t
<1>1. PICK u : u = [t EXCEPT ![p].data = d]
  OBVIOUS
<1>2. p \in DOMAIN t /\ t[p].kind = "file" /\ t[p] = File(t[p].data)
  BY NodeFacts DEF Has
<1>3. DOMAIN u = DOMAIN t /\ (\A q \in DOMAIN t \ {p} : u[q] = t[q])
      /\ u[p] = [t[p] EXCEPT !.data = d]
  BY <1>1, <1>2
<1>4. u[p] = File(d)
  <2>1. PICK e : t[p] = [kind |-> "file", data |-> e]
    BY <1>2 DEF File
  <2>2. QED
    BY <1>3, <2>1 DEF File
<1>5. File(d).kind = "file" /\ File(d).data = d
  BY DEF File
<1>6. \A q, k : Has(t, q, k) => Has(u, q, k)
  BY <1>2, <1>3, <1>4, <1>5 DEF Has
<1>7. IsTree(u, N)
  <2>1. \A q \in DOMAIN u : u[q] = Dir \/ (u[q].data \in Seq(Nat) /\ u[q] = File(u[q].data))
    BY <1>3, <1>4, <1>5 DEF IsTree
  <2>2. QED
    BY <1>3, <1>6, <2>1 DEF IsTree
<1>8. QED
  BY <1>1, <1>3, <1>4, <1>6, <1>7

LEMMA PutWriteTypes ==
  ASSUME Types, NEW ok \in BOOLEAN, PutWrite(ok)
  PROVE  Types'
<1> DEFINE p == job.arg
           k == job.off + 1
           data == local[job.base].data
<1>1. /\ pc = "put_write" /\ Ask(ok)
      /\ remote' = IF ok /\ Has(remote, p, "file")
                   THEN [remote EXCEPT ![p].data = Written(@, k, data[k])] ELSE remote
      /\ job' = [Excused(ok, "refused") EXCEPT !.off = k]
      /\ pc' = IF k = Len(data) THEN "put_close" ELSE "put_write"
      /\ UNCHANGED <<local, lcwd, curdir, conn, frames, causes>>
  BY DEF PutWrite, place
<1>2. /\ job \in Job /\ p \in Seq(Names) /\ job.base \in DOMAIN local /\ p # <<>>
      /\ Front(p) = curdir /\ Has(local, job.base, "file") /\ job.off \in Nat
      /\ job.off < Len(data)
  BY <1>1 DEF Types, JobOK, Job, Putting
<1>3. IsTree(remote, Names) /\ Has(remote, curdir, "dir") /\ IsTree(local, LocalNames)
  BY DEF Types, TreesOK
<1>4. data \in Seq(Nat) /\ Len(data) \in Nat
  BY <1>2, <1>3, NodeFacts, LenProperties
<1>5. k \in Nat \ {0} /\ k \in 1..Len(data) /\ data[k] \in Nat
  <2>1. k \in Nat \ {0} /\ k \in 1..Len(data)
    BY <1>2, <1>4
  <2>2. QED
    BY <1>4, <2>1, ElementOfSeq
<1> HIDE DEF k, data
<1>6. IsTree(remote', Names) /\ Has(remote', curdir, "dir")
  <2>1. CASE ok /\ Has(remote, p, "file")
    <3>1. remote[p].data \in Seq(Nat)
      BY <1>3, <2>1, NodeFacts DEF Has
    <3>2. PICK w \in Seq(Nat) : w = Written(remote[p].data, k, data[k])
      BY <1>5, <3>1, WrittenFacts
    <3>3. remote' = [remote EXCEPT ![p].data = w]
      BY <1>1, <2>1, <3>2
    <3>4. QED
      BY <1>3, <2>1, <3>3, ChangedFile
  <2>2. CASE ~(ok /\ Has(remote, p, "file"))
    BY <1>1, <1>3, <2>2
  <2>3. QED
    BY <2>1, <2>2
<1>7. TreesOK' /\ FramesOK'
  BY <1>1, <1>6, FileStep DEF Types, TreesOK, Putting
<1>8. job' \in Job /\ job'.base = job.base /\ job'.arg = job.arg /\ job'.off = k
  <2>1. PICK e \in SUBSET Excuses : Excused(ok, "refused") = [job EXCEPT !.excuses = e]
    <3>1. job.excuses \cup (IF ok THEN {} ELSE {"refused"}) \in SUBSET Excuses
      BY <1>2 DEF Job, Excuses
    <3>2. QED
      BY <3>1 DEF Excused
  <2>2. job' = [[job EXCEPT !.excuses = e] EXCEPT !.off = k]
    BY <1>1, <2>1
  <2>3. QED
    BY <1>2, <1>5, <2>2 DEF Job
<1>9. pc' = "put_write" => k < Len(data)
  BY <1>1, <1>4, <1>5
<1>10. JobOK'
  BY <1>1, <1>2, <1>8, <1>9 DEF JobOK, Putting, Moving, Copying, data
<1>11. CountsOK'
  BY <1>1, AskCounts DEF Types, Requests
<1>12. QED
  BY <1>7, <1>10, <1>11 DEF Types

LEMMA PutCloseTypes ==
  ASSUME Types, NEW ok \in BOOLEAN, PutClose(ok)
  PROVE  Types'
<1>1. /\ pc = "put_close" /\ Ask(ok) /\ pc' = "ready"
      /\ UNCHANGED <<remote, local, lcwd, curdir, conn, frames, job, causes>>
  BY DEF PutClose, place
<1>2. TreesOK' /\ FramesOK'
  BY <1>1, TreesKept, FileStep DEF Types, Putting
<1>3. JobOK' /\ CountsOK'
  BY <1>1, AskCounts DEF Types, JobOK, Putting, Moving, Copying
<1>4. QED
  BY <1>2, <1>3 DEF Types

-----------------------------------------------------------------------------
(* The types: get *)

LEMMA AfterFileFacts ==
  /\ AfterFile \in {"each", "leaving", "ready"}
  /\ AfterFile = "each" <=> frames # <<>>
BY DEF AfterFile

\* What the steps of copying a file to the local disk keep
LEMMA CopyStep ==
  ASSUME Types, pc \in Copying \cup {"close"}, UNCHANGED <<remote, lcwd, curdir, frames>>,
         IsTree(local', LocalNames), Has(local', lcwd, "dir"),
         pc' \in Copying \cup {"close"} \/ pc' = AfterFile
  PROVE  TreesOK' /\ FramesOK'
<1>1. FramesOK'
  BY AfterFileFacts DEF Types, FramesOK, Fetching, Copying
<1>2. QED
  BY <1>1 DEF Types, TreesOK

LEMMA GetCreateTypes ==
  ASSUME Types, NEW ok \in BOOLEAN, GetCreate(ok)
  PROVE  Types'
<1> DEFINE found == ok /\ job.src \in DOMAIN remote
           blocked == found /\ Has(local, job.dst, "dir")
<1>1. /\ pc = "get" /\ Ask(ok)
      /\ local' = IF found /\ ~blocked THEN With(local, job.dst, File(<<>>)) ELSE local
      /\ job' = [Excused(ok, "refused") EXCEPT
                   !.excuses = @ \cup (IF blocked THEN {"in_the_way"} ELSE {})]
      /\ pc' = IF found /\ ~blocked THEN "attr" ELSE AfterFile
      /\ UNCHANGED <<remote, lcwd, curdir, conn, frames, causes>>
  BY DEF GetCreate, place
<1>2. job \in Job /\ job.dst \in Seq(LocalNames) /\ job.dst # <<>> /\ Front(job.dst) = lcwd
  BY <1>1 DEF Types, JobOK, Job, Copying
<1>3. IsTree(local, LocalNames) /\ Has(local, lcwd, "dir")
  BY DEF Types, TreesOK
<1>4. job' \in Job /\ job'.dst = job.dst
  <2>1. PICK e \in SUBSET Excuses : Excused(ok, "refused") = [job EXCEPT !.excuses = e]
    <3>1. job.excuses \cup (IF ok THEN {} ELSE {"refused"}) \in SUBSET Excuses
      BY <1>2 DEF Job, Excuses
    <3>2. QED
      BY <3>1 DEF Excused
  <2>2. PICK f \in SUBSET Excuses : f = e \cup (IF blocked THEN {"in_the_way"} ELSE {})
    BY DEF Excuses
  <2>3. job' = [job EXCEPT !.excuses = f]
    BY <1>1, <1>2, <2>1, <2>2 DEF Job
  <2>4. QED
    BY <1>2, <2>3 DEF Job
<1>5. /\ IsTree(local', LocalNames) /\ Has(local', lcwd, "dir")
      /\ pc' = "attr" => Has(local', job.dst, "file")
  <2>1. CASE found /\ ~blocked
    <3>1. PICK f : f = File(<<>>) /\ f.data \in Seq(Nat) /\ f = File(f.data) /\ f.kind = "file"
      BY EmptySeq, NewFile
    <3>2. local' = With(local, job.dst, f) /\ ~Has(local, job.dst, "dir")
      BY <1>1, <2>1, <3>1
    <3>3. QED
      BY <1>2, <1>3, <3>1, <3>2, WithFacts DEF Has
  <2>2. CASE ~(found /\ ~blocked)
    BY <1>1, <1>3, <2>2, AfterFileFacts
  <2>3. QED
    BY <2>1, <2>2
<1>6. TreesOK' /\ FramesOK'
  BY <1>1, <1>5, CopyStep DEF Copying
<1>7. JobOK'
  BY <1>1, <1>2, <1>4, <1>5, AfterFileFacts DEF JobOK, Putting, Moving, Copying
<1>8. CountsOK'
  BY <1>1, AskCounts, AfterFileFacts DEF Types, Requests
<1>9. QED
  BY <1>6, <1>7, <1>8 DEF Types

LEMMA RetrieveLooksTypes ==
  ASSUME Types, NEW ok \in BOOLEAN, RetrieveAttr(ok) \/ RetrieveOpen(ok)
  PROVE  Types'
<1>1. /\ pc \in {"attr", "open"} /\ Ask(ok) /\ pc' \in {"open", "read", AfterFile}
      /\ job' = Excused(ok, "refused")
      /\ UNCHANGED <<remote, local, lcwd, curdir, conn, frames, causes>>
  BY DEF RetrieveAttr, RetrieveOpen, place
<1>2. TreesOK' /\ FramesOK'
  <2>1. IsTree(local', LocalNames) /\ Has(local', lcwd, "dir")
    BY <1>1 DEF Types, TreesOK
  <2>2. QED
    BY <1>1, <2>1, CopyStep DEF Copying
<1>3. job' \in Job /\ job' = [job EXCEPT !.excuses = Excused(ok, "refused").excuses]
  BY <1>1, ExcusedFacts DEF Types, JobOK, Excuses
<1>4. job'.dst = job.dst
  BY <1>3 DEF Types, JobOK, Job
<1>5. JobOK'
  BY <1>1, <1>3, <1>4, AfterFileFacts DEF Types, JobOK, Putting, Moving, Copying
<1>6. CountsOK'
  BY <1>1, AskCounts, AfterFileFacts DEF Types, Requests
<1>7. QED
  BY <1>2, <1>5, <1>6 DEF Types

LEMMA RetrieveReadTypes ==
  ASSUME Types, NEW ok \in BOOLEAN, RetrieveRead(ok)
  PROVE  Types'
<1>1. PICK data : data = IF Has(remote, job.src, "file") THEN remote[job.src].data ELSE <<>>
  OBVIOUS
<1> DEFINE k == job.off + 1
           more == ok /\ k <= Len(data)
<1>2. /\ pc = "read" /\ Ask(ok)
      /\ local' = IF more THEN [local EXCEPT ![job.dst].data = Append(@, data[k])] ELSE local
      /\ job' = IF more THEN [job EXCEPT !.off = k] ELSE Excused(ok, "refused")
      /\ pc' \in {"read", "close"}
      /\ UNCHANGED <<remote, lcwd, curdir, conn, frames, causes>>
  BY <1>1 DEF RetrieveRead, place
<1>3. job \in Job /\ job.off \in Nat /\ Has(local, job.dst, "file")
  BY <1>2 DEF Types, JobOK, Job
<1>4. IsTree(local, LocalNames) /\ Has(local, lcwd, "dir") /\ IsTree(remote, Names)
  BY DEF Types, TreesOK
<1>5. data \in Seq(Nat)
  BY <1>1, <1>4, EmptySeq, NodeFacts DEF Has
<1>6. IsTree(local', LocalNames) /\ Has(local', lcwd, "dir") /\ Has(local', job.dst, "file")
  <2>1. CASE more
    <3>1. data[k] \in Nat
      <4>1. k \in 1..Len(data)
        BY <1>3, <1>5, <2>1, LenProperties
      <4>2. QED
        BY <1>5, <4>1, ElementOfSeq
    <3>2. local[job.dst].data \in Seq(Nat)
      BY <1>3, <1>4, NodeFacts DEF Has
    <3>3. PICK d \in Seq(Nat) : d = Append(local[job.dst].data, data[k])
      BY <3>1, <3>2, AppendProperties
    <3>4. local' = [local EXCEPT ![job.dst].data = d]
      BY <1>2, <2>1, <3>3
    <3>5. QED
      BY <1>3, <1>4, <3>4, ChangedFile
  <2>2. CASE ~more
    BY <1>2, <1>3, <1>4, <2>2
  <2>3. QED
    BY <2>1, <2>2
<1>7. TreesOK' /\ FramesOK'
  BY <1>2, <1>6, CopyStep DEF Copying
<1>8. job' \in Job /\ job'.dst = job.dst
  <2>1. Excused(ok, "refused") \in Job /\ Excused(ok, "refused").dst = job.dst
    <3>1. /\ Excused(ok, "refused") \in Job
          /\ Excused(ok, "refused") = [job EXCEPT !.excuses = Excused(ok, "refused").excuses]
      BY <1>3, ExcusedFacts DEF Excuses
    <3>2. QED
      BY <1>3, <3>1 DEF Job
  <2>2. [job EXCEPT !.off = k] \in Job /\ [job EXCEPT !.off = k].dst = job.dst
    <3>1. PICK m \in Nat : m = k
      BY <1>3
    <3>2. [job EXCEPT !.off = m] \in Job /\ [job EXCEPT !.off = m].dst = job.dst
      BY <1>3 DEF Job
    <3>3. QED
      BY <3>1, <3>2
  <2>3. QED
    BY <1>2, <2>1, <2>2
<1>9. job.dst # <<>> /\ Front(job.dst) = lcwd
  BY <1>2 DEF Types, JobOK, Copying
<1>10. JobOK'
  BY <1>2, <1>6, <1>8, <1>9 DEF JobOK, Putting, Moving, Copying
<1>11. CountsOK'
  BY <1>2, AskCounts DEF Types, Requests
<1>12. QED
  BY <1>7, <1>10, <1>11 DEF Types

LEMMA RetrieveCloseTypes ==
  ASSUME Types, NEW ok \in BOOLEAN, RetrieveClose(ok)
  PROVE  Types'
<1>1. /\ pc = "close" /\ Ask(ok) /\ pc' = AfterFile
      /\ conn' = [conn EXCEPT !.dangling = @ \/ (~ok /\ Volume = "fine")]
      /\ causes' = IF ok THEN causes ELSE causes \cup {"fork_list"}
      /\ UNCHANGED <<remote, local, lcwd, curdir, frames, job>>
  BY DEF RetrieveClose, place
<1>2. TreesOK' /\ FramesOK'
  <2>1. IsTree(local', LocalNames) /\ Has(local', lcwd, "dir")
    BY <1>1 DEF Types, TreesOK
  <2>2. QED
    BY <1>1, <2>1, CopyStep DEF Copying
<1>3. JobOK'
  BY <1>1, AfterFileFacts DEF Types, JobOK, Putting, Moving, Copying
<1>4. conn' \in Conn /\ causes' \subseteq Misuses
  <2>1. PICK b \in BOOLEAN : b = (conn.dangling \/ (~ok /\ Volume = "fine"))
    BY DEF Types, CountsOK, Conn
  <2>2. conn' = [conn EXCEPT !.dangling = b]
    BY <1>1, <2>1
  <2>3. QED
    BY <1>1, <2>2 DEF Types, CountsOK, Conn, Misuses
<1>5. CountsOK'
  <2>1. AskAnd(ok, {}) /\ {} \subseteq Misuses
    BY <1>1 DEF Ask
  <2>2. /\ misuse' \subseteq Misuses /\ refusals' \in 0..MaxRefusals
        /\ others' = others /\ calls' = calls
    BY <2>1, AskFacts DEF Types
  <2>3. QED
    BY <1>1, <1>4, <2>2, AfterFileFacts DEF Types, CountsOK
<1>6. QED
  BY <1>2, <1>3, <1>5 DEF Types

-----------------------------------------------------------------------------
(* The types: get_dir() *)

\* What get_dir() does first
LEMMA EnterFacts ==
  ASSUME Types, NEW fs \in Seq(Frame), NEW j \in Job, NEW p \in Seq(Names), NEW n \in Names,
         EnterDir(fs, j, p, n)
  PROVE  /\ pc' = "list"
         /\ IsTree(local', LocalNames) /\ Has(local', lcwd', "dir")
         /\ frames' \in Seq(Frame) /\ frames' # <<>> /\ Len(frames') = Len(fs) + 1
         /\ \A i \in 1..Len(fs) : frames'[i] = fs[i]
         /\ frames'[Len(fs) + 1] = [dir |-> p, todo |-> <<>>, index |-> 0]
         /\ Last(frames') = [dir |-> p, todo |-> <<>>, index |-> 0]
         /\ job' \in Job
         /\ job' = [j EXCEPT !.excuses = job'.excuses]
         /\ IF Has(local, Append(lcwd, n), "file")
            THEN job'.excuses = j.excuses \cup {"in_the_way"} /\ lcwd' = lcwd
            ELSE job' = j /\ lcwd' = Append(lcwd, n)
<1>1. PICK here \in Seq(LocalNames) : here = Append(lcwd, n) /\ here # <<>> /\ Front(here) = lcwd
  BY PathFacts
<1>2. /\ local' = IF here \in DOMAIN local THEN local ELSE With(local, here, Dir)
      /\ lcwd' = IF Has(local, here, "file") THEN lcwd ELSE here
      /\ job' = IF Has(local, here, "file")
                THEN [j EXCEPT !.excuses = @ \cup {"in_the_way"}] ELSE j
      /\ frames' = Append(fs, [dir |-> p, todo |-> <<>>, index |-> 0])
      /\ pc' = "list"
  BY <1>1 DEF EnterDir
<1>3. IsTree(local, LocalNames) /\ Has(local, lcwd, "dir")
  BY DEF Types, TreesOK
<1>4. IsTree(local', LocalNames) /\ Has(local', lcwd', "dir")
  <2>1. CASE here \in DOMAIN local
    <3>1. Has(local, here, "file") \/ Has(local, here, "dir")
      BY <1>3, <2>1, NodeFacts DEF Has
    <3>2. QED
      BY <1>2, <1>3, <2>1, <3>1
  <2>2. CASE here \notin DOMAIN local
    <3>1. ~Has(local, here, "dir") /\ ~Has(local, here, "file")
      BY <2>2 DEF Has
    <3>2. local' = With(local, here, Dir) /\ lcwd' = here
      BY <1>2, <2>2, <3>1
    <3>3. IsTree(With(local, here, Dir), LocalNames) /\ here \in DOMAIN With(local, here, Dir)
          /\ With(local, here, Dir)[here] = Dir
      <4>1. IsTree(With(local, here, Dir), LocalNames)
        BY <1>1, <1>3, <3>1, WithFacts
      <4>2. here \in DOMAIN With(local, here, Dir) /\ With(local, here, Dir)[here] = Dir
        BY <1>1, <1>3 DEF With
      <4>3. QED
        BY <4>1, <4>2
    <3>4. QED
      BY <3>2, <3>3 DEF Has, Dir
  <2>3. QED
    BY <2>1, <2>2
<1>5. PICK new \in Frame : new = [dir |-> p, todo |-> <<>>, index |-> 0]
  BY EmptySeq DEF Frame
<1>6. /\ frames' \in Seq(Frame) /\ frames' # <<>> /\ Len(frames') = Len(fs) + 1
      /\ \A i \in 1..Len(fs) : frames'[i] = fs[i]
      /\ frames'[Len(fs) + 1] = new /\ Last(frames') = new
  <2>1. /\ Append(fs, new) \in Seq(Frame) /\ Append(fs, new) # <<>>
        /\ Len(Append(fs, new)) = Len(fs) + 1
        /\ \A i \in 1..Len(fs) : Append(fs, new)[i] = fs[i]
        /\ Append(fs, new)[Len(fs) + 1] = new /\ Last(Append(fs, new)) = new
    BY AppendFacts
  <2>2. frames' = Append(fs, new)
    BY <1>2, <1>5
  <2>3. QED
    BY <2>1, <2>2, Zenon
<1>7. /\ job' \in Job /\ job' = [j EXCEPT !.excuses = job'.excuses]
      /\ IF Has(local, here, "file") THEN job'.excuses = j.excuses \cup {"in_the_way"} ELSE job' = j
  <2>1. PICK e \in SUBSET Excuses : e = j.excuses \cup {"in_the_way"}
    BY DEF Job, Excuses
  <2>2. [j EXCEPT !.excuses = e] \in Job /\ [j EXCEPT !.excuses = e].excuses = e
    BY DEF Job
  <2>3. [j EXCEPT !.excuses = j.excuses] = j
    BY DEF Job
  <2>4. job' = IF Has(local, here, "file") THEN [j EXCEPT !.excuses = e] ELSE j
    BY <1>2, <2>1
  <2>5. QED
    BY <2>1, <2>2, <2>3, <2>4
<1>8. QED
  BY <1>1, <1>2, <1>4, <1>5, <1>6, <1>7

LEMMA GetDirTypes ==
  ASSUME Types, NEW n \in Names, com_get_r(n)
  PROVE  Types'
<1> DEFINE j == [NoJob EXCEPT !.op = "getr", !.start = lcwd, !.arg = ServerPath(n),
                              !.base = Append(lcwd, n)]
<1>1. /\ Typed("getr") /\ EnterDir(<<>>, j, ServerPath(n), n)
      /\ UNCHANGED <<remote, curdir, conn, misuse, causes, refusals, others>>
  BY DEF com_get_r, bounds
<1>2. pc = "ready" /\ frames = <<>> /\ calls' \in 0..MaxCalls /\ "getr" \in AllOps
  BY <1>1, TypedFacts
<1>3. PICK p \in Seq(Names) : p = ServerPath(n)
  BY PathFacts
<1>4. PICK b \in Seq(LocalNames) : b = Append(lcwd, n)
  BY PathFacts
<1>5. j \in Job
  BY <1>2, <1>3, <1>4, NoJobFacts, PathFacts DEF Job
<1> HIDE DEF j
<1>6. /\ pc' = "list"
      /\ IsTree(local', LocalNames) /\ Has(local', lcwd', "dir")
      /\ frames' \in Seq(Frame) /\ frames' # <<>> /\ Len(frames') = 1
      /\ frames'[1].todo = <<>>
      /\ job' \in Job
  <2>1. <<>> \in Seq(Frame) /\ Len(<<>>) = 0
    BY EmptySeq
  <2>2. /\ pc' = "list" /\ IsTree(local', LocalNames) /\ Has(local', lcwd', "dir")
        /\ frames' \in Seq(Frame) /\ frames' # <<>> /\ Len(frames') = Len(<<>>) + 1
        /\ frames'[Len(<<>>) + 1] = [dir |-> p, todo |-> <<>>, index |-> 0]
        /\ job' \in Job
    BY <1>1, <1>3, <1>5, <2>1, EnterFacts
  <2>3. QED
    BY <2>1, <2>2
<1>7. TreesOK'
  BY <1>1, <1>6 DEF Types, TreesOK
<1>8. FramesOK'
  <2>1. DOMAIN frames' = {1}
    BY <1>6, LenProperties
  <2>2. QED
    BY <1>6, <2>1 DEF FramesOK, Fetching, Copying
<1>9. JobOK'
  BY <1>6 DEF JobOK, Putting, Moving, Copying
<1>10. CountsOK'
  BY <1>1, <1>2, <1>6 DEF Types, CountsOK, Requests
<1>11. QED
  BY <1>7, <1>8, <1>9, <1>10 DEF Types

LEMMA LeaveFacts ==
  ASSUME Types, frames # <<>>, LeaveDir
  PROVE  /\ Has(local, lcwd', "dir")
         /\ frames' \in Seq(Frame) /\ Len(frames') = Len(frames) - 1 /\ Len(frames) \in Nat \ {0}
         /\ \A i \in 1..(Len(frames) - 1) : frames'[i] = frames[i]
         /\ (pc' = "each" /\ frames' # <<>>) \/ (pc' = "ready" /\ frames' = <<>>)
<1>1. /\ lcwd' = Up(lcwd) /\ frames' = Front(frames)
      /\ pc' = IF Len(frames) = 1 THEN "ready" ELSE "each"
  BY DEF LeaveDir
<1>2. frames \in Seq(Frame)
  BY DEF Types, FramesOK
<1>3. /\ frames' \in Seq(Frame) /\ Len(frames') = Len(frames) - 1 /\ Len(frames) \in Nat \ {0}
      /\ \A i \in 1..(Len(frames) - 1) : frames'[i] = frames[i]
  BY <1>1, <1>2, FrontFacts
<1>4. Has(local, lcwd', "dir")
  <2>1. lcwd \in DOMAIN local /\ IsTree(local, LocalNames)
    BY DEF Types, TreesOK, Has
  <2>2. QED
    BY <1>1, <2>1, NodeFacts DEF Up, Types, TreesOK
<1>5. Len(frames') = 0 <=> frames' = <<>>
  BY <1>3, EmptySeq
<1>6. (pc' = "each" /\ frames' # <<>>) \/ (pc' = "ready" /\ frames' = <<>>)
  BY <1>1, <1>3, <1>5
<1>7. QED
  BY <1>3, <1>4, <1>6

\* The answer to a listing: as many slots of Order as fit, by their number
GetDirSize(there, index) ==
  CASE index >= Cardinality(there) -> 0
    [] index + Batch <= Cardinality(there) -> Batch
    [] OTHER -> Cardinality(there) - index

LEMMA SizeFacts ==
  ASSUME NEW t, NEW d, NEW index \in Nat
  PROVE  /\ IsFiniteSet(Listed(t, d)) /\ Cardinality(Listed(t, d)) \in Nat
         /\ Listed(t, d) \subseteq DOMAIN Order
         /\ GetDirSize(Listed(t, d), index) \in Nat
         /\ GetDirSize(Listed(t, d), index) = 0 <=> index >= Cardinality(Listed(t, d))
<1>1. DOMAIN Order = 1..Len(Order) /\ Len(Order) \in Nat
  BY ShellConstants, LenProperties
<1>2. IsFiniteSet(DOMAIN Order) /\ Listed(t, d) \subseteq DOMAIN Order
  BY <1>1, FS_Interval DEF Listed
<1>3. IsFiniteSet(Listed(t, d)) /\ Cardinality(Listed(t, d)) \in Nat
  BY <1>2, FS_Subset, FS_CardinalityType
<1>4. PICK c \in Nat : c = Cardinality(Listed(t, d))
  BY <1>3
<1>5. /\ GetDirSize(Listed(t, d), index) \in Nat
      /\ GetDirSize(Listed(t, d), index) = 0 <=> index >= c
  BY <1>4, ShellConstants DEF GetDirSize
<1>6. QED
  BY <1>2, <1>3, <1>4, <1>5

\* An answer with entries
MoreListed(ok) ==
  /\ ok /\ Has(remote, Last(frames).dir, "dir") /\ UNCHANGED <<pc, lcwd>>
  /\ \E size \in Nat \ {0} :
     \E batch \in [1..size -> Listed(remote, Last(frames).dir)] :
     \E more \in Seq(Names \X {"dir", "file"}) :
       /\ size = GetDirSize(Listed(remote, Last(frames).dir), Last(frames).index)
       /\ \A i \in 1..size :
            Ordinal(Listed(remote, Last(frames).dir), batch[i]) = Last(frames).index + i
       /\ Len(more) = size
       /\ \A i \in 1..size :
            more[i] = <<Order[batch[i]],
                        remote[Append(Last(frames).dir, Order[batch[i]])].kind>>
       /\ frames' = [frames EXCEPT ![Len(frames)] =
            [Last(frames) EXCEPT !.index = @ + size, !.todo = @ \o more]]

\* What a listing does, without the numbers
LEMMA ListFacts ==
  ASSUME Types, NEW ok \in BOOLEAN, GetDirList(ok)
  PROVE  /\ pc = "list" /\ Ask(ok) /\ job' = Excused(ok, "refused") /\ frames # <<>>
         /\ UNCHANGED <<remote, local, curdir, conn, causes>>
         /\ \/ LeaveDir /\ (~ok \/ Has(remote, Last(frames).dir, "file"))
            \/ /\ pc' = "each" /\ UNCHANGED <<frames, lcwd>>
               /\ \/ ~ok \/ Last(frames).dir \notin DOMAIN remote
                  \/ GetDirSize(Listed(remote, Last(frames).dir), Last(frames).index) = 0
            \/ MoreListed(ok)
<1> DEFINE fr == Last(frames)
           there == Listed(remote, fr.dir)
           size == GetDirSize(there, fr.index)
<1>1. /\ pc = "list" /\ Ask(ok) /\ job' = Excused(ok, "refused")
      /\ UNCHANGED <<remote, local, curdir, conn, causes>>
      /\ \/ /\ ok /\ Has(remote, fr.dir, "dir") /\ size > 0
            /\ \E batch \in [1..size -> there] :
                 /\ \A i \in 1..size : Ordinal(there, batch[i]) = fr.index + i
                 /\ frames' = [frames EXCEPT ![Len(frames)] =
                      [fr EXCEPT !.index = @ + size,
                                 !.todo = @ \o [i \in 1..size |->
                        <<Order[batch[i]], remote[Append(fr.dir, Order[batch[i]])].kind>>]]]
            /\ UNCHANGED <<pc, lcwd>>
         \/ /\ ~ok \/ fr.dir \notin DOMAIN remote \/ (Has(remote, fr.dir, "dir") /\ size = 0)
            /\ pc' = "each" /\ UNCHANGED <<frames, lcwd>>
         \/ /\ ~ok \/ Has(remote, fr.dir, "file")
            /\ LeaveDir
  BY Zenon DEF GetDirList, GetDirSize
<1>2. fr = Last(frames) /\ there = Listed(remote, fr.dir) /\ size = GetDirSize(there, fr.index)
  OBVIOUS
<1> HIDE DEF fr, there, size
<1>3. frames # <<>> /\ frames \in Seq(Frame)
  BY <1>1 DEF Types, FramesOK
<1>4. fr \in Frame /\ fr.index \in Nat
  <2>1. fr \in Frame
    BY <1>2, <1>3, FrontFacts
  <2>2. QED
    BY <2>1 DEF Frame
<1>5. size \in Nat /\ there \subseteq DOMAIN Order
  BY <1>2, <1>4, SizeFacts
<1>6. ASSUME NEW batch \in [1..size -> there]
      PROVE  [i \in 1..size |-> <<Order[batch[i]], remote[Append(fr.dir, Order[batch[i]])].kind>>]
               \in Seq(Names \X {"dir", "file"})
  <2>1. ASSUME NEW i \in 1..size
        PROVE  Order[batch[i]] \in Names
               /\ remote[Append(fr.dir, Order[batch[i]])].kind \in {"dir", "file"}
    <3>1. batch[i] \in there
      BY <1>6, <2>1
    <3>2. batch[i] \in DOMAIN Order /\ Append(fr.dir, Order[batch[i]]) \in DOMAIN remote
      BY <1>2, <3>1 DEF Listed
    <3>3. Order[batch[i]] \in Names
      BY <3>2, ShellConstants, LenProperties, ElementOfSeq
    <3>4. IsTree(remote, Names)
      BY DEF Types, TreesOK
    <3>5. QED
      BY <3>2, <3>3, <3>4, NodeFacts
  <2>2. PICK m : m = [i \in 1..size |->
                        <<Order[batch[i]], remote[Append(fr.dir, Order[batch[i]])].kind>>]
    OBVIOUS
  <2>3. m \in [1..size -> Names \X {"dir", "file"}]
    BY <2>1, <2>2
  <2>4. QED
    BY <1>5, <2>2, <2>3
<1>7. CASE /\ ok /\ Has(remote, fr.dir, "dir") /\ size > 0
           /\ \E batch \in [1..size -> there] :
                /\ \A i \in 1..size : Ordinal(there, batch[i]) = fr.index + i
                /\ frames' = [frames EXCEPT ![Len(frames)] =
                     [fr EXCEPT !.index = @ + size,
                                !.todo = @ \o [i \in 1..size |->
                       <<Order[batch[i]], remote[Append(fr.dir, Order[batch[i]])].kind>>]]]
           /\ UNCHANGED <<pc, lcwd>>
  <2>1. PICK batch \in [1..size -> there] :
          /\ \A i \in 1..size : Ordinal(there, batch[i]) = fr.index + i
          /\ frames' = [frames EXCEPT ![Len(frames)] =
               [fr EXCEPT !.index = @ + size,
                          !.todo = @ \o [i \in 1..size |->
                 <<Order[batch[i]], remote[Append(fr.dir, Order[batch[i]])].kind>>]]]
    BY <1>7
  <2>2. PICK more \in Seq(Names \X {"dir", "file"}) :
          more = [i \in 1..size |->
                    <<Order[batch[i]], remote[Append(fr.dir, Order[batch[i]])].kind>>]
    BY <1>6
  <2>3. Len(more) = size /\ \A i \in 1..size :
          more[i] = <<Order[batch[i]], remote[Append(fr.dir, Order[batch[i]])].kind>>
    BY <1>5, <2>2, LenProperties
  <2>4. frames' = [frames EXCEPT ![Len(frames)] =
                     [fr EXCEPT !.index = @ + size, !.todo = @ \o more]]
    BY <2>1, <2>2
  <2>5. size \in Nat \ {0}
    BY <1>5, <1>7
  <2>6. MoreListed(ok)
    BY <1>7, <2>1, <2>3, <2>4, <2>5, Zenon DEF MoreListed, fr, there, size
  <2>7. QED
    BY <1>1, <1>3, <2>6
<1>8. CASE /\ ~ok \/ fr.dir \notin DOMAIN remote \/ (Has(remote, fr.dir, "dir") /\ size = 0)
           /\ pc' = "each" /\ UNCHANGED <<frames, lcwd>>
  BY <1>2, <1>1, <1>3, <1>8
<1>9. CASE (~ok \/ Has(remote, fr.dir, "file")) /\ LeaveDir
  BY <1>2, <1>1, <1>3, <1>9
<1>10. QED
  BY <1>1, <1>7, <1>8, <1>9, Zenon

\* The last call of get_dir() with a longer or shorter list
LEMMA TopFrame ==
  ASSUME Types, frames # <<>>, NEW f \in Frame
  PROVE  /\ [frames EXCEPT ![Len(frames)] = f] \in Seq(Frame)
         /\ [frames EXCEPT ![Len(frames)] = f] # <<>>
         /\ Len([frames EXCEPT ![Len(frames)] = f]) = Len(frames)
         /\ DOMAIN [frames EXCEPT ![Len(frames)] = f] = DOMAIN frames
         /\ DOMAIN frames = 1..Len(frames)
         /\ Len(frames) \in DOMAIN frames /\ Len(frames) \in Nat \ {0}
         /\ Last(frames) \in Frame /\ Last(frames) = frames[Len(frames)]
         /\ [frames EXCEPT ![Len(frames)] = f][Len(frames)] = f
         /\ \A i \in DOMAIN frames \ {Len(frames)} :
              [frames EXCEPT ![Len(frames)] = f][i] = frames[i]
<1>1. frames \in Seq(Frame)
  BY DEF Types, FramesOK
<1>2. DOMAIN frames = 1..Len(frames) /\ Len(frames) \in Nat \ {0}
  BY <1>1, LenProperties, EmptySeq
<1>3. Len(frames) \in 1..Len(frames)
  BY <1>2
<1>4. PICK u : u = [frames EXCEPT ![Len(frames)] = f]
  OBVIOUS
<1>5. u \in Seq(Frame) /\ Len(u) = Len(frames)
  BY <1>1, <1>3, <1>4, ExceptSeq
<1>6. DOMAIN u = DOMAIN frames /\ u[Len(frames)] = f
      /\ \A i \in DOMAIN frames \ {Len(frames)} : u[i] = frames[i]
  BY <1>2, <1>3, <1>4
<1>7. u # <<>>
  BY <1>2, <1>5, EmptySeq
<1>8. Last(frames) \in Frame /\ Last(frames) = frames[Len(frames)]
  BY <1>1, <1>3, ElementOfSeq DEF Last
<1>9. QED
  BY <1>2, <1>3, <1>4, <1>5, <1>6, <1>7, <1>8

LEMMA LeaveTypes ==
  ASSUME Types, pc \in {"list", "each"}, LeaveDir, UNCHANGED <<remote, local, curdir>>
  PROVE  TreesOK' /\ FramesOK' /\ pc' \in {"each", "ready"}
<1>1. frames # <<>>
  BY DEF Types, FramesOK
<1>2. /\ Has(local, lcwd', "dir")
      /\ frames' \in Seq(Frame) /\ Len(frames') = Len(frames) - 1 /\ Len(frames) \in Nat \ {0}
      /\ \A i \in 1..(Len(frames) - 1) : frames'[i] = frames[i]
      /\ (pc' = "each" /\ frames' # <<>>) \/ (pc' = "ready" /\ frames' = <<>>)
  BY <1>1, LeaveFacts
<1>3. \A i \in DOMAIN frames' : i \in DOMAIN frames /\ frames'[i] = frames[i]
  <2>1. DOMAIN frames' = 1..(Len(frames) - 1) /\ DOMAIN frames = 1..Len(frames)
    BY <1>2, LenProperties DEF Types, FramesOK
  <2>2. QED
    BY <1>2, <2>1
<1>4. FramesOK'
  BY <1>2, <1>3 DEF Types, FramesOK, Fetching
<1>5. QED
  BY <1>2, <1>4 DEF Types, TreesOK

LEMMA MoreFacts ==
  ASSUME Types, frames # <<>>, NEW ok, MoreListed(ok)
  PROVE  /\ frames' \in Seq(Frame) /\ frames' # <<>> /\ DOMAIN frames' = DOMAIN frames
         /\ Len(frames') = Len(frames)
         /\ \A i \in DOMAIN frames : frames'[i].dir = frames[i].dir
         /\ \A i \in DOMAIN frames \ {Len(frames)} : frames'[i] = frames[i]
<1>1. PICK size \in Nat, more \in Seq(Names \X {"dir", "file"}) :
        frames' = [frames EXCEPT ![Len(frames)] =
                     [Last(frames) EXCEPT !.index = @ + size, !.todo = @ \o more]]
  BY Zenon DEF MoreListed
<1>2. Last(frames) \in Frame /\ Len(frames) \in DOMAIN frames /\ Last(frames) = frames[Len(frames)]
  <2>1. frames \in Seq(Frame)
    BY DEF Types, FramesOK
  <2>2. QED
    BY <2>1, FrontFacts, LenProperties
<1>3. PICK x \in Nat, todo \in Seq(Names \X {"dir", "file"}) :
        x = Last(frames).index + size /\ todo = Last(frames).todo \o more
  <2>1. Last(frames).index \in Nat /\ Last(frames).todo \in Seq(Names \X {"dir", "file"})
    BY <1>2 DEF Frame
  <2>2. Last(frames).index + size \in Nat
    BY <2>1
  <2>3. Last(frames).todo \o more \in Seq(Names \X {"dir", "file"})
    BY <2>1, ConcatProperties
  <2>4. QED
    BY <2>2, <2>3
<1>4. PICK f : f = [Last(frames) EXCEPT !.index = x, !.todo = todo]
  OBVIOUS
<1>5. f \in Frame /\ f.dir = Last(frames).dir
  BY <1>2, <1>3, <1>4 DEF Frame
<1>6. frames' = [frames EXCEPT ![Len(frames)] = f]
  BY <1>1, <1>3, <1>4
<1>7. QED
  BY <1>2, <1>5, <1>6, TopFrame

LEMMA GetDirListTypes ==
  ASSUME Types, NEW ok \in BOOLEAN, GetDirList(ok)
  PROVE  Types'
<1>1. /\ pc = "list" /\ Ask(ok) /\ job' = Excused(ok, "refused") /\ frames # <<>>
      /\ UNCHANGED <<remote, local, curdir, conn, causes>>
      /\ \/ LeaveDir
         \/ pc' = "each" /\ UNCHANGED <<frames, lcwd>>
         \/ MoreListed(ok)
  BY ListFacts
<1>2. TreesOK' /\ FramesOK' /\ pc' \in {"each", "ready", "list"}
  <2>1. CASE LeaveDir
    BY <1>1, <2>1, LeaveTypes
  <2>2. CASE pc' = "each" /\ UNCHANGED <<frames, lcwd>>
    BY <1>1, <2>2 DEF Types, TreesOK, FramesOK, Fetching
  <2>3. CASE MoreListed(ok)
    <3>1. /\ frames' \in Seq(Frame) /\ frames' # <<>> /\ DOMAIN frames' = DOMAIN frames
          /\ \A i \in DOMAIN frames : frames'[i].dir = frames[i].dir
          /\ \A i \in DOMAIN frames \ {Len(frames)} : frames'[i] = frames[i]
      BY <1>1, <2>3, MoreFacts
    <3>2. UNCHANGED <<pc, lcwd>> /\ Has(remote, frames[Len(frames)].dir, "dir")
      BY <2>3 DEF MoreListed, Last
    <3>3. \A i \in DOMAIN frames' : frames'[i].todo # <<>> => Has(remote', frames'[i].dir, "dir")
      BY <1>1, <3>1, <3>2 DEF Types, FramesOK
    <3>4. FramesOK'
      BY <1>1, <3>1, <3>2, <3>3 DEF FramesOK, Fetching
    <3>5. QED
      BY <1>1, <3>2, <3>4 DEF Types, TreesOK
  <2>4. QED
    BY <1>1, <2>1, <2>2, <2>3
<1>3. job' \in Job
  BY <1>1, ExcusedFacts DEF Types, JobOK, Excuses
<1>4. JobOK'
  BY <1>2, <1>3 DEF JobOK, Putting, Moving, Copying
<1>5. CountsOK'
  BY <1>1, <1>2, AskCounts DEF Types, Requests
<1>6. QED
  BY <1>2, <1>4, <1>5 DEF Types

\* The next entry of the list of the last call of get_dir()
LEMMA EntryFacts ==
  ASSUME Types, frames # <<>>, Last(frames).todo # <<>>,
         NEW rest, rest = [frames EXCEPT ![Len(frames)].todo = Tail(@)]
  PROVE  /\ rest \in Seq(Frame) /\ rest # <<>> /\ DOMAIN rest = DOMAIN frames
         /\ Len(rest) = Len(frames)
         /\ DOMAIN frames = 1..Len(frames) /\ Len(frames) \in Nat \ {0}
         /\ \A i \in DOMAIN frames : rest[i].dir = frames[i].dir
         /\ \A i \in DOMAIN frames \ {Len(frames)} : rest[i] = frames[i]
         /\ rest[Len(frames)].todo = Tail(Last(frames).todo)
         /\ Last(frames).todo \in Seq(Names \X {"dir", "file"})
         /\ Head(Last(frames).todo)[1] \in Names
         /\ Last(frames).dir \in Seq(Names) /\ Last(frames) = frames[Len(frames)]
         /\ Has(remote, Last(frames).dir, "dir")
<1>1. frames \in Seq(Frame)
  BY DEF Types, FramesOK
<1>2. /\ Last(frames) \in Frame /\ Len(frames) \in DOMAIN frames
      /\ Last(frames) = frames[Len(frames)]
  BY <1>1, FrontFacts, LenProperties
<1>3. Last(frames).todo \in Seq(Names \X {"dir", "file"}) /\ Last(frames).dir \in Seq(Names)
  BY <1>2 DEF Frame
<1>4. /\ Head(Last(frames).todo) \in Names \X {"dir", "file"}
      /\ Tail(Last(frames).todo) \in Seq(Names \X {"dir", "file"})
  BY <1>3, HeadTailProperties
<1>5. PICK f : f = [Last(frames) EXCEPT !.todo = Tail(Last(frames).todo)]
  OBVIOUS
<1>6. f \in Frame /\ f.dir = Last(frames).dir /\ f.todo = Tail(Last(frames).todo)
  BY <1>2, <1>4, <1>5 DEF Frame
<1>7. rest = [frames EXCEPT ![Len(frames)] = f]
  BY <1>2, <1>5
<1>8. Has(remote, Last(frames).dir, "dir")
  BY <1>2 DEF Types, FramesOK
<1>9. QED
  BY <1>2, <1>3, <1>4, <1>6, <1>7, <1>8, TopFrame, ZenonT(40)

LEMMA GetDirEntryTypes ==
  ASSUME Types, GetDirEntry
  PROVE  Types'
<1>1. PICK fr : fr = Last(frames)
  OBVIOUS
<1>2. PICK rest : rest = [frames EXCEPT ![Len(frames)].todo = Tail(@)]
  OBVIOUS
<1>3. PICK n : n = Head(fr.todo)[1]
  OBVIOUS
<1>4. /\ pc = "each" /\ UNCHANGED <<remote, conn, misuse, causes, calls, refusals, others>>
      /\ \/ fr.todo = <<>> /\ LeaveDir /\ UNCHANGED <<local, curdir, job>>
         \/ fr.todo # <<>> /\ EnterDir(rest, job, Append(fr.dir, n), n) /\ UNCHANGED curdir
         \/ /\ fr.todo # <<>> /\ frames' = rest /\ curdir' = fr.dir /\ pc' = "get"
            /\ job' = GetFile(job, Unquoted[n], Append(fr.dir, Unquoted[n]))
            /\ UNCHANGED <<local, lcwd>>
  BY <1>1, <1>2, <1>3 DEF GetDirEntry, bounds
<1>5. frames # <<>> /\ frames \in Seq(Frame) /\ job \in Job
  BY <1>4 DEF Types, FramesOK, JobOK
<1>6. CASE fr.todo = <<>> /\ LeaveDir /\ UNCHANGED <<local, curdir, job>>
  <2>1. TreesOK' /\ FramesOK' /\ pc' \in {"each", "ready"}
    BY <1>4, <1>6, LeaveTypes
  <2>2. JobOK'
    BY <1>5, <1>6, <2>1 DEF JobOK, Putting, Moving, Copying
  <2>3. CountsOK'
    BY <1>4, <2>1 DEF Types, CountsOK
  <2>4. QED
    BY <2>1, <2>2, <2>3 DEF Types
<1>7. CASE fr.todo # <<>>
  <2>1. /\ rest \in Seq(Frame) /\ rest # <<>> /\ DOMAIN rest = DOMAIN frames
        /\ Len(rest) = Len(frames) /\ DOMAIN frames = 1..Len(frames) /\ Len(frames) \in Nat \ {0}
        /\ \A i \in DOMAIN frames : rest[i].dir = frames[i].dir
        /\ \A i \in DOMAIN frames \ {Len(frames)} : rest[i] = frames[i]
        /\ n \in Names /\ fr.dir \in Seq(Names) /\ fr = frames[Len(frames)]
        /\ Has(remote, fr.dir, "dir")
    BY <1>1, <1>2, <1>3, <1>5, <1>7, EntryFacts
  <2>2. \A i \in DOMAIN rest : rest[i].todo # <<>> => Has(remote, rest[i].dir, "dir")
    BY <2>1 DEF Types, FramesOK
  <2>3. CASE EnterDir(rest, job, Append(fr.dir, n), n) /\ UNCHANGED curdir
    <3>1. PICK p \in Seq(Names) : p = Append(fr.dir, n)
      BY <2>1, AppendProperties
    <3>2. /\ pc' = "list"
          /\ IsTree(local', LocalNames) /\ Has(local', lcwd', "dir")
          /\ frames' \in Seq(Frame) /\ frames' # <<>> /\ Len(frames') = Len(rest) + 1
          /\ \A i \in 1..Len(rest) : frames'[i] = rest[i]
          /\ frames'[Len(rest) + 1] = [dir |-> p, todo |-> <<>>, index |-> 0]
          /\ job' \in Job
      <4>1. EnterDir(rest, job, p, n) /\ rest \in Seq(Frame) /\ n \in Names /\ job \in Job
        BY <1>5, <2>1, <2>3, <3>1
      <4>2. QED
        BY <4>1, EnterFacts
    <3>3. \A i \in DOMAIN frames' : frames'[i].todo # <<>> => i \in DOMAIN rest /\ frames'[i] = rest[i]
      <4>1. DOMAIN frames' = 1..(Len(rest) + 1) /\ DOMAIN rest = 1..Len(rest) /\ Len(rest) \in Nat
        BY <2>1, <3>2, LenProperties
      <4>2. QED
        BY <3>2, <4>1
    <3>4. TreesOK' /\ FramesOK'
      BY <1>4, <2>2, <2>3, <3>2, <3>3 DEF Types, TreesOK, FramesOK, Fetching
    <3>5. JobOK' /\ CountsOK'
      BY <1>4, <3>2 DEF Types, JobOK, CountsOK, Putting, Moving, Copying, Requests
    <3>6. QED
      BY <3>4, <3>5 DEF Types
  <2>4. CASE /\ frames' = rest /\ curdir' = fr.dir /\ pc' = "get"
             /\ job' = GetFile(job, Unquoted[n], Append(fr.dir, Unquoted[n]))
             /\ UNCHANGED <<local, lcwd>>
    <3>1. PICK m \in Names : m = Unquoted[n]
      BY <2>1, ShellConstants
    <3>2. PICK p \in Seq(Names) : p = Append(fr.dir, m)
      BY <2>1, AppendProperties
    <3>3. PICK b \in Seq(LocalNames) : b = Append(lcwd, m) /\ b # <<>> /\ Front(b) = lcwd
      BY PathFacts
    <3>4. job' \in Job /\ job' = [job EXCEPT !.src = p, !.dst = b, !.off = 0]
      BY <1>5, <2>4, <3>1, <3>2, <3>3, GetFileFacts
    <3>5. job'.dst = b
      BY <1>5, <3>4 DEF Job
    <3>6. JobOK'
      BY <2>4, <3>3, <3>4, <3>5 DEF JobOK, Putting, Moving, Copying
    <3>7. TreesOK' /\ FramesOK' /\ CountsOK'
      BY <1>4, <2>1, <2>2, <2>4 DEF Types, TreesOK, FramesOK, CountsOK, Fetching, Copying, Requests
    <3>8. QED
      BY <3>6, <3>7 DEF Types
  <2>5. QED
    BY <1>4, <1>7, <2>3, <2>4
<1>8. QED
  BY <1>4, <1>6, <1>7

\* Starting with the path of a directory or a file
LEMMA StartPathTypes ==
  ASSUME Types, NEW ok \in BOOLEAN, StartPath(ok)
  PROVE  Types'
<1>1. PICK n \in Names, p \in Seq(Names) : n = job.name /\ p = job.arg /\ p = <<n>>
  BY DEF StartPath, Types, JobOK, Job
<1>2. PICK m \in Names : m = Unquoted[n]
  BY ShellConstants
<1>3. PICK b \in Seq(LocalNames) : b = Append(lcwd, m) /\ b # <<>> /\ Front(b) = lcwd
  BY PathFacts
<1> DEFINE j == [job EXCEPT !.op = "startup", !.base = b, !.arg = <<m>>]
<1>4. /\ pc = "start" /\ Ask(ok) /\ UNCHANGED <<remote, conn, causes>>
      /\ \/ pc' \in {"leaving", "ready"} /\ UNCHANGED <<local, lcwd, frames, job>>
            /\ (curdir' = curdir \/ (curdir' = p /\ Has(remote, p, "dir")))
         \/ Has(remote, p, "dir") /\ curdir' = p /\ EnterDir(<<>>, job, p, n)
         \/ pc' = "get" /\ UNCHANGED <<local, lcwd, curdir, frames>> /\ job' = GetFile(j, m, <<m>>)
  BY <1>1, <1>2, <1>3 DEF StartPath, place
<1>5. job \in Job /\ <<m>> \in Seq(Names) /\ frames = <<>>
  BY <1>4, FramesIdle DEF Types, JobOK, Fetching, Copying
<1>6. CASE pc' \in {"leaving", "ready"} /\ UNCHANGED <<local, lcwd, frames, job>>
           /\ (curdir' = curdir \/ (curdir' = p /\ Has(remote, p, "dir")))
  <2>1. TreesOK' /\ FramesOK'
    BY <1>4, <1>5, <1>6, NoFrames DEF Types, TreesOK
  <2>2. JobOK' /\ CountsOK'
    BY <1>4, <1>5, <1>6, AskCounts DEF Types, JobOK, Putting, Moving, Copying
  <2>3. QED
    BY <2>1, <2>2 DEF Types
<1>7. CASE Has(remote, p, "dir") /\ curdir' = p /\ EnterDir(<<>>, job, p, n)
  <2>1. <<>> \in Seq(Frame) /\ Len(<<>>) = 0
    BY EmptySeq
  <2>2. /\ pc' = "list" /\ IsTree(local', LocalNames) /\ Has(local', lcwd', "dir")
        /\ frames' \in Seq(Frame) /\ frames' # <<>> /\ Len(frames') = Len(<<>>) + 1
        /\ frames'[Len(<<>>) + 1] = [dir |-> p, todo |-> <<>>, index |-> 0]
        /\ job' \in Job
    BY <1>5, <1>7, <2>1, EnterFacts
  <2>3. DOMAIN frames' = {1} /\ frames'[1].todo = <<>>
    BY <2>1, <2>2, LenProperties
  <2>4. TreesOK' /\ FramesOK'
    BY <1>4, <1>7, <2>2, <2>3 DEF Types, TreesOK, FramesOK, Fetching
  <2>5. JobOK' /\ CountsOK'
    BY <1>4, <2>2, AskCounts DEF Types, JobOK, Putting, Moving, Copying, Requests
  <2>6. QED
    BY <2>4, <2>5 DEF Types
<1>8. CASE pc' = "get" /\ UNCHANGED <<local, lcwd, curdir, frames>> /\ job' = GetFile(j, m, <<m>>)
  <2>1. j \in Job
    BY <1>5 DEF Job, AllOps
  <2> HIDE DEF j
  <2>2. PICK q \in Seq(Names) : q = <<m>>
    BY <1>5
  <2>3. job' \in Job /\ job' = [j EXCEPT !.src = q, !.dst = b, !.off = 0]
    BY <1>3, <1>8, <2>1, <2>2, GetFileFacts
  <2>4. job'.dst = b
    BY <2>1, <2>3 DEF Job
  <2>5. TreesOK' /\ FramesOK'
    BY <1>4, <1>5, <1>8, NoFrames DEF Types, TreesOK
  <2>6. JobOK' /\ CountsOK'
    BY <1>3, <1>4, <1>8, <2>3, <2>4, AskCounts DEF Types, JobOK, Putting, Moving, Copying, Requests
  <2>7. QED
    BY <2>5, <2>6 DEF Types
<1>9. QED
  BY <1>4, <1>6, <1>7, <1>8

LEMMA NextTypes == Types /\ [Next]_vars => Types'
<1> SUFFICES ASSUME Types, [Next]_vars PROVE Types'
  OBVIOUS
<1>1. CASE UNCHANGED vars
  <2>1. UNCHANGED <<remote, local, lcwd, curdir, conn, pc, frames, job, misuse, causes, calls,
                    refusals, others>>
    BY <1>1 DEF vars
  <2>2. QED
    BY <2>1 DEF Types, TreesOK, FramesOK, JobOK, CountsOK
<1>2. CASE StartAlone \/ cmdline_server_startup \/ com_connect \/ com_disconnect \/ CdStart
  BY <1>2, StartAloneTypes, StartupTypes, ConnectTypes, DisconnectTypes, CdTypes
<1>3. CASE Quit \/ ServerCloses \/ Crash
  BY <1>3, EndTypes
<1>4. ASSUME NEW n \in Names, Command(n) PROVE Types'
  BY <1>4, SimpleStartTypes, RenameTypes, PutTypes, GetTypes, GetDirTypes, ViewTypes DEF Command
<1>5. ASSUME NEW ok \in BOOLEAN, Request(ok) PROVE Types'
  <2>1. CASE StartPath(ok) \/ Simple(ok) \/ CdLookup(ok) \/ GetDirList(ok)
    BY <2>1, StartPathTypes, SimpleTypes, CdLookupTypes, GetDirListTypes
  <2>2. CASE RenameFrom(ok) \/ RenameTo(ok) \/ RenameMove(ok)
    BY <2>2, RenameLooksTypes, RenameMoveTypes
  <2>3. CASE PutOpen(ok) \/ PutChmod(ok) \/ PutWrite(ok) \/ PutClose(ok)
    BY <2>3, PutOpenTypes, PutChmodTypes, PutWriteTypes, PutCloseTypes
  <2>4. CASE GetCreate(ok) \/ RetrieveAttr(ok) \/ RetrieveOpen(ok) \/ RetrieveRead(ok)
             \/ RetrieveClose(ok)
    BY <2>4, GetCreateTypes, RetrieveLooksTypes, RetrieveReadTypes, RetrieveCloseTypes
  <2>5. QED
    BY <1>5, <2>1, <2>2, <2>3, <2>4 DEF Request
<1>6. CASE GetDirEntry
  BY <1>6, GetDirEntryTypes
<1>7. ASSUME NEW n \in Names, Other(Append(curdir, n)) PROVE Types'
  BY <1>7, OtherTypes
<1>8. QED
  BY <1>1, <1>2, <1>3, <1>4, <1>5, <1>6, <1>7 DEF Next

LEMMA TypesHold == Spec => []Types
<1>1. QED
  BY InitTypes, NextTypes, PTL DEF Spec

\* Whatever the server refuses, whenever it closes the session and whatever
\* others do, the volume and the local files stay trees, afpcmd is in a local
\* directory that exists, and its variables keep their types.
THEOREM ShellTypes == Spec => []TypeOK
<1>1. QED
  BY TypesHold, TypesImply, PTL

-----------------------------------------------------------------------------
(* How the volume is used *)

\* What is wrong with the shell's pointers has a cause that is on record.
PointersKnown ==
  /\ conn.server \/ ~conn.vol
  /\ conn.session = "freed" => "freed" \in causes
  /\ conn.vol /\ conn.session # "freed" /\ ~conn.mounted => "unopened" \in causes
  /\ conn.server /\ conn.named /\ ~conn.vol => "null" \in causes
  /\ pc \in Requests \cup {"each"} /\ ~conn.vol => "null" \in causes
  /\ conn.dangling => "fork_list" \in causes

CausesInv ==
  /\ misuse \ {"null_stat"} \subseteq causes
  /\ pc # "ended" => PointersKnown
  /\ pc = "startup" => /\ misuse = {} /\ ~conn.vol /\ ~conn.named /\ ~conn.dangling
                       /\ conn.session = "none"

LEMMA InitCauses == Init => CausesInv
BY DEF Init, CausesInv, PointersKnown, Requests

\* A request misuses the volume only when opening it was refused.
LEMMA AskCauses ==
  ASSUME CountsOK, PointersKnown, NEW ok \in BOOLEAN, NEW bad \in SUBSET Misuses, AskAnd(ok, bad)
  PROVE  misuse' \subseteq misuse \cup causes \cup bad
<1>1. Volume \in {"fine", "unopened"} /\ misuse' = misuse \cup ({Volume} \ {"fine"}) \cup bad
  BY AskFacts
<1>2. Volume = "unopened" => "unopened" \in causes
  BY DEF Volume, PointersKnown
<1>3. QED
  BY <1>1, <1>2

\* Unmounting does no harm that has no cause.
LEMMA UnmountCauses ==
  ASSUME PointersKnown
  PROVE  UnmountMisuse \subseteq causes
BY DEF UnmountMisuse, Volume, PointersKnown

LEMMA ConnectCauses ==
  ASSUME Types, CausesInv, com_connect \/ CdStart
  PROVE  CausesInv'
<1>1. pc = "ready" /\ PointersKnown /\ misuse' = misuse /\ misuse \ {"null_stat"} \subseteq causes
      /\ conn \in Conn
  BY DEF com_connect, CdStart, Typed, CausesInv, Types, CountsOK
<1>2. CASE com_connect
  <2>1. pc' = "ready" /\ ~conn.server /\ ~conn.vol
    BY <1>1, <1>2 DEF com_connect, PointersKnown
  <2>2. PICK named \in BOOLEAN, how \in Hows :
          LET c == [conn EXCEPT !.server = TRUE, !.session = "open", !.named = named]
          IN /\ conn' = IF named THEN connect_volume(c, how) ELSE c
             /\ causes' = causes \cup (IF named THEN CauseOf(how) ELSE {})
    BY <1>2 DEF com_connect
  <2>3. CASE ~named
    <3>1. conn' = [conn EXCEPT !.server = TRUE, !.session = "open", !.named = FALSE]
          /\ causes' = causes
      BY <2>2, <2>3
    <3>2. QED
      BY <1>1, <2>1, <3>1 DEF CausesInv, PointersKnown, Conn, Requests
  <2>4. CASE named
    <3>1. /\ conn' = [conn EXCEPT !.server = TRUE, !.session = "open", !.named = TRUE,
                                  !.vol = how # "unknown", !.mounted = how = "opened"]
          /\ causes' = causes \cup CauseOf(how)
      BY <1>1, <2>2, <2>4 DEF connect_volume, Conn
    <3>2. /\ how = "unknown" => "null" \in causes'
          /\ how \notin {"opened", "unknown"} => "unopened" \in causes'
      BY <3>1 DEF CauseOf, Hows
    <3>3. QED
      BY <1>1, <2>1, <3>1, <3>2 DEF CausesInv, PointersKnown, Conn, Requests
  <2>5. QED
    BY <2>3, <2>4
<1>3. CASE CdStart
  <2>1. PICK n \in Names \cup {Null}, how \in Hows :
          LET c == IF conn.named THEN conn
                   ELSE [connect_volume(conn, how) EXCEPT !.named = how = "opened"]
              goes == c.named /\ (conn.named \/ n # Null)
          IN /\ conn' = c
             /\ causes' = causes \cup (IF conn.named THEN {} ELSE CauseOf(how))
             /\ pc' = IF goes /\ n # Null THEN "cd" ELSE "ready"
    BY <1>3 DEF CdStart
  <2>2. conn.server
    BY <1>3 DEF CdStart
  <2>3. CASE conn.named
    <3>1. conn' = conn /\ causes' = causes /\ pc' \in {"cd", "ready"}
      BY <2>1, <2>3
    <3>2. QED
      BY <1>1, <2>2, <2>3, <3>1 DEF CausesInv, PointersKnown, Requests
  <2>4. CASE ~conn.named
    <3>1. /\ conn' = [conn EXCEPT !.vol = how # "unknown", !.mounted = how = "opened",
                                  !.named = how = "opened"]
          /\ causes' = causes \cup CauseOf(how)
          /\ pc' \in {"cd", "ready"} /\ (pc' = "cd" => how = "opened")
      <4>1. conn' = [connect_volume(conn, how) EXCEPT !.named = how = "opened"]
            /\ causes' = causes \cup CauseOf(how)
            /\ pc' \in {"cd", "ready"} /\ (pc' = "cd" => conn'.named)
        BY <2>1, <2>4
      <4>2. conn' = [conn EXCEPT !.vol = how # "unknown", !.mounted = how = "opened",
                                  !.named = how = "opened"]
        BY <1>1, <4>1 DEF connect_volume, Conn
      <4>3. conn'.named = (how = "opened")
        BY <1>1, <4>2 DEF Conn
      <4>4. QED
        BY <4>1, <4>2, <4>3
    <3>2. /\ how = "unknown" => "null" \in causes'
          /\ how \notin {"opened", "unknown"} => "unopened" \in causes'
      BY <3>1 DEF CauseOf, Hows
    <3>3. QED
      BY <1>1, <2>2, <3>1, <3>2 DEF CausesInv, PointersKnown, Conn, Requests
  <2>5. QED
    BY <2>3, <2>4
<1>4. QED
  BY <1>2, <1>3

LEMMA EndCauses ==
  ASSUME Types, CausesInv, com_disconnect \/ Quit \/ ServerCloses \/ Crash
  PROVE  CausesInv'
<1>1. pc \notin {"ended", "startup"}
  BY DEF com_disconnect, Typed, Quit, ServerCloses, Crash, Requests
<1>2. PointersKnown /\ misuse \ {"null_stat"} \subseteq causes /\ conn \in Conn
  BY <1>1 DEF CausesInv, Types, CountsOK
<1>3. UnmountMisuse \subseteq causes
  BY <1>2, UnmountCauses
<1>4. CASE com_disconnect
  <2>1. /\ conn' = [afp_unmount_volume EXCEPT !.server = FALSE, !.vol = FALSE]
        /\ misuse' = misuse \cup UnmountMisuse /\ causes' = causes /\ pc' \in {"ready", "ended"}
    BY <1>4 DEF com_disconnect
  <2>2. /\ ~conn'.server /\ ~conn'.vol
        /\ conn'.session = "freed" => conn.session = "freed"
        /\ conn'.dangling => conn.dangling
    BY <1>2, <2>1 DEF afp_unmount_volume, Conn
  <2>3. QED
    BY <1>2, <1>3, <2>1, <2>2 DEF CausesInv, PointersKnown, Requests
<1>5. CASE Quit
  BY <1>2, <1>3, <1>5 DEF Quit, CausesInv
<1>6. CASE ServerCloses
  <2>1. /\ conn' = [conn EXCEPT !.session = "freed", !.mounted = FALSE, !.dangling = FALSE]
        /\ misuse' = misuse \cup UnmountMisuse /\ causes' = causes \cup {"freed"} /\ pc' = pc
    BY <1>6 DEF ServerCloses
  <2>2. /\ conn'.server = conn.server /\ conn'.vol = conn.vol /\ conn'.named = conn.named
        /\ conn'.session = "freed" /\ ~conn'.dangling
    BY <1>2, <2>1 DEF Conn
  <2>3. QED
    BY <1>1, <1>2, <1>3, <2>1, <2>2 DEF CausesInv, PointersKnown
<1>7. CASE Crash
  <2>1. Volume \in {"null", "freed"} /\ pc \in Requests
        /\ misuse' = misuse \cup {Volume} /\ pc' = "ended" /\ causes' = causes
    BY <1>7 DEF Crash
  <2>2. Volume \in causes
    BY <1>2, <2>1 DEF Volume, PointersKnown
  <2>3. QED
    BY <1>2, <2>1, <2>2 DEF CausesInv
<1>8. QED
  BY <1>4, <1>5, <1>6, <1>7

LEMMA StartCauses ==
  ASSUME Types, CausesInv, StartAlone \/ cmdline_server_startup
  PROVE  CausesInv'
<1>1. /\ pc = "startup" /\ misuse = {} /\ misuse' = misuse
      /\ ~conn.vol /\ ~conn.named /\ ~conn.dangling /\ conn.session = "none" /\ conn \in Conn
  BY DEF StartAlone, cmdline_server_startup, CausesInv, Types, CountsOK
<1>2. CASE StartAlone
  BY <1>1, <1>2 DEF StartAlone, CausesInv, PointersKnown, Requests
<1>3. CASE cmdline_server_startup
  <2>1. PICK c : c = [conn EXCEPT !.server = TRUE, !.session = "open"]
    OBVIOUS
  <2>2. c \in Conn /\ c.server /\ ~c.vol /\ ~c.named /\ ~c.dangling /\ c.session = "open"
    BY <1>1, <2>1 DEF Conn
  <2>3. PICK e : e = [c EXCEPT !.named = TRUE]
    OBVIOUS
  <2>4. \/ conn' = c /\ pc' = "ready"
        \/ \E how \in Hows \ {"opened"} :
             conn' = connect_volume(e, how) /\ causes' = CauseOf(how) /\ pc' = "leaving"
        \/ conn' = connect_volume(e, "opened") /\ pc' \in {"ready", "start"}
    BY <1>3, <2>1, <2>3 DEF cmdline_server_startup
  <2>5. CASE conn' = c /\ pc' = "ready"
    BY <1>1, <2>2, <2>5 DEF CausesInv, PointersKnown, Requests
  <2>6. ASSUME NEW how \in Hows \ {"opened"}, conn' = connect_volume(e, how),
               causes' = CauseOf(how), pc' = "leaving"
        PROVE  CausesInv'
    <3>1. /\ conn'.server /\ conn'.vol = (how # "unknown") /\ ~conn'.dangling
          /\ conn'.session = "open"
      BY <2>2, <2>3, <2>6 DEF connect_volume, Conn
    <3>2. IF how = "unknown" THEN "null" \in causes' ELSE "unopened" \in causes'
      BY <2>6 DEF CauseOf, Hows
    <3>3. QED
      BY <1>1, <2>6, <3>1, <3>2 DEF CausesInv, PointersKnown, Requests
  <2>7. CASE conn' = connect_volume(e, "opened") /\ pc' \in {"ready", "start"}
    <3>1. /\ conn'.server /\ conn'.vol /\ ~conn'.dangling /\ conn'.mounted
          /\ conn'.session = "open"
      BY <2>2, <2>3, <2>7 DEF connect_volume, Conn
    <3>2. QED
      BY <1>1, <2>7, <3>1 DEF CausesInv, PointersKnown
  <2>8. QED
    BY <2>4, <2>5, <2>6, <2>7
<1>4. QED
  BY <1>2, <1>3

LEMMA CommandCauses ==
  ASSUME Types, CausesInv, NEW n \in Names, Command(n)
  PROVE  CausesInv'
<1>1. /\ pc = "ready" /\ UNCHANGED <<conn, causes>>
      /\ pc' \in Requests \cup {"ended"}
      /\ \/ HasVolume /\ misuse' = misuse
         \/ conn.server /\ conn.named /\ misuse' = misuse
         \/ pc' = "ended" /\ misuse' = misuse \cup {"null_stat"}
  BY DEF Command, SimpleStart, com_rename, com_put, com_get, com_get_r, com_view, EnterDir, Typed,
         HasVolume, Requests
<1>2. PointersKnown /\ misuse \ {"null_stat"} \subseteq causes
  BY <1>1 DEF CausesInv
<1>3. QED
  BY <1>1, <1>2 DEF CausesInv, PointersKnown, HasVolume, Requests

LEMMA RequestCauses ==
  ASSUME Types, CausesInv, NEW ok \in BOOLEAN, Request(ok)
  PROVE  CausesInv'
<1>1. /\ pc \in Requests
      /\ pc' \in Requests \cup {"ready", "each", "leaving"}
      /\ \/ Ask(ok) /\ UNCHANGED <<conn, causes>>
         \/ RetrieveClose(ok)
         \/ PutOpen(ok)
  <2>1. CASE StartPath(ok) \/ Simple(ok) \/ CdLookup(ok) \/ GetDirList(ok)
    <3>1. GetDirList(ok) => pc' \in {"list", "each", "ready"}
      BY ListFacts DEF LeaveDir, MoreListed
    <3>2. QED
      BY <2>1, <3>1 DEF StartPath, Simple, CdLookup, GetDirList, EnterDir, Requests
  <2>2. CASE RenameFrom(ok) \/ RenameTo(ok) \/ RenameMove(ok)
    BY <2>2 DEF RenameFrom, RenameTo, RenameMove, Requests
  <2>3. CASE PutOpen(ok) \/ PutChmod(ok) \/ PutWrite(ok) \/ PutClose(ok)
    BY <2>3 DEF PutOpen, PutChmod, PutWrite, PutClose, Requests
  <2>4. CASE GetCreate(ok) \/ RetrieveAttr(ok) \/ RetrieveOpen(ok) \/ RetrieveRead(ok)
             \/ RetrieveClose(ok)
    BY <2>4, AfterFileFacts
       DEF GetCreate, RetrieveAttr, RetrieveOpen, RetrieveRead, RetrieveClose, Requests
  <2>5. QED
    BY <2>1, <2>2, <2>3, <2>4 DEF Request
<1>2. PointersKnown /\ misuse \ {"null_stat"} \subseteq causes /\ CountsOK /\ conn \in Conn
  BY <1>1 DEF CausesInv, Requests, Types, CountsOK
<1>3. PICK bad \in SUBSET Misuses :
        /\ AskAnd(ok, bad) /\ causes \subseteq causes' /\ bad \subseteq causes'
        /\ conn' = conn \/ conn' = [conn EXCEPT !.dangling = conn'.dangling]
        /\ conn'.dangling => conn.dangling \/ "fork_list" \in causes'
  <2>1. CASE Ask(ok) /\ UNCHANGED <<conn, causes>>
    BY <2>1 DEF Ask
  <2>2. CASE RetrieveClose(ok)
    <3>1. /\ Ask(ok) /\ conn' = [conn EXCEPT !.dangling = @ \/ (~ok /\ Volume = "fine")]
          /\ causes' = IF ok THEN causes ELSE causes \cup {"fork_list"}
      BY <2>2 DEF RetrieveClose
    <3>2. conn' = [conn EXCEPT !.dangling = conn'.dangling]
          /\ conn'.dangling = (conn.dangling \/ (~ok /\ Volume = "fine"))
      BY <1>2, <3>1 DEF Conn
    <3>3. AskAnd(ok, {}) /\ {} \in SUBSET Misuses
      BY <3>1 DEF Ask
    <3>4. causes \subseteq causes' /\ {} \subseteq causes' /\ (~ok => "fork_list" \in causes')
      BY <3>1
    <3>5. conn'.dangling => conn.dangling \/ "fork_list" \in causes'
      BY <3>2, <3>4
    <3>6. QED
      BY <3>2, <3>3, <3>4, <3>5
  <2>3. CASE PutOpen(ok)
    <3>1. PICK opened \in BOOLEAN : opened = (ok /\ ~Has(remote, job.arg, "dir"))
      OBVIOUS
    <3>2. PICK bad : bad = IF opened THEN {} ELSE {"wild_fp"}
      OBVIOUS
    <3>3. AskAnd(ok, bad) /\ conn' = conn
          /\ causes' = IF opened THEN causes ELSE causes \cup {"wild_fp"}
      BY <2>3, <3>1, <3>2 DEF PutOpen
    <3>4. bad \in SUBSET Misuses
      BY <3>2 DEF Misuses
    <3>5. QED
      BY <3>2, <3>3, <3>4
  <2>4. QED
    BY <1>1, <2>1, <2>2, <2>3
<1>4. misuse' \subseteq misuse \cup causes \cup bad
  BY <1>2, <1>3, AskCauses
<1>5. /\ conn'.server = conn.server /\ conn'.vol = conn.vol /\ conn'.named = conn.named
      /\ conn'.session = conn.session /\ conn'.mounted = conn.mounted
  BY <1>2, <1>3 DEF Conn
<1>6. PointersKnown'
  BY <1>1, <1>2, <1>3, <1>5 DEF PointersKnown
<1>7. QED
  BY <1>1, <1>2, <1>3, <1>4, <1>6 DEF CausesInv, Requests

LEMMA NextCauses == Types /\ CausesInv /\ [Next]_vars => CausesInv'
<1> SUFFICES ASSUME Types, CausesInv, [Next]_vars PROVE CausesInv'
  OBVIOUS
<1>1. CASE UNCHANGED vars
  BY <1>1 DEF vars, CausesInv, PointersKnown
<1>2. CASE StartAlone \/ cmdline_server_startup
  BY <1>2, StartCauses
<1>3. CASE com_connect \/ CdStart
  BY <1>3, ConnectCauses
<1>4. CASE com_disconnect \/ Quit \/ ServerCloses \/ Crash
  BY <1>4, EndCauses
<1>5. ASSUME NEW n \in Names, Command(n) PROVE CausesInv'
  BY <1>5, CommandCauses
<1>6. ASSUME NEW ok \in BOOLEAN, Request(ok) PROVE CausesInv'
  BY <1>6, RequestCauses
<1>7. CASE GetDirEntry
  <2>1. pc = "each" /\ pc' \in Requests \cup {"each", "ready"} /\ UNCHANGED <<conn, misuse, causes>>
    BY <1>7 DEF GetDirEntry, EnterDir, LeaveDir, Requests
  <2>2. QED
    BY <2>1 DEF CausesInv, PointersKnown, Requests
<1>8. ASSUME NEW n \in Names, Other(Append(curdir, n)) PROVE CausesInv'
  BY <1>8 DEF Other, CausesInv, PointersKnown
<1>9. QED
  BY <1>1, <1>2, <1>3, <1>4, <1>5, <1>6, <1>7, <1>8 DEF Next

\* The shell uses a volume that it does not have, or a structure that is freed,
\* only after a failure that it was told of and did not look at.
THEOREM MisuseHasACause == Spec => []MisuseFollowsFailure
<1>1. Init => CausesInv
  BY InitCauses
<1>2. Spec => []CausesInv
  BY <1>1, NextCauses, TypesHold, PTL DEF Spec
<1>3. CausesInv => MisuseFollowsFailure
  BY DEF CausesInv, MisuseFollowsFailure
<1>4. QED
  BY <1>2, <1>3, PTL

-----------------------------------------------------------------------------
(* mv *)

\* mv looks before it moves; what it was not told of is an excuse.
MovesInv ==
  /\ pc = "mv_move" /\ job.excuses = {} => ~Has(remote, job.to, "file")
  /\ job.lost => job.excuses # {}

LEMMA MovesElsewhere ==
  ASSUME MovesInv, pc' # "mv_move",
         ~job'.lost \/ (job'.lost = job.lost /\ job.excuses \subseteq job'.excuses)
  PROVE  MovesInv'
BY DEF MovesInv

\* What a command begins with has lost nothing.
LEMMA CommandMoves ==
  ASSUME Types, MovesInv, NEW n \in Names, Command(n)
  PROVE  MovesInv'
<1>1. NoJob.lost = FALSE /\ NoJob \in Job
  BY NoJobFacts
<1>2. pc' # "mv_move"
  BY DEF Command, SimpleStart, com_rename, com_put, com_get, com_get_r, com_view, EnterDir
<1>3. ~job'.lost
  <2>1. ASSUME NEW op \in Ops, SimpleStart(op, n) PROVE ~job'.lost
    BY <1>1, <2>1 DEF SimpleStart, NoJob
  <2>2. ASSUME NEW m \in Names, com_rename(n, m) PROVE ~job'.lost
    BY <1>1, <2>2 DEF com_rename, NoJob
  <2>3. CASE com_put(n) \/ com_get(n) \/ com_view(n)
    BY <1>1, <2>3 DEF com_put, com_get, com_view, GetFile, NoJob
  <2>4. CASE com_get_r(n)
    BY <1>1, <2>4 DEF com_get_r, EnterDir, NoJob
  <2>5. QED
    BY <2>1, <2>2, <2>3, <2>4 DEF Command
<1>4. QED
  BY <1>2, <1>3, MovesElsewhere

\* A request that mv does not make
LEMMA RequestMoves ==
  ASSUME Types, MovesInv, NEW ok \in BOOLEAN, Request(ok), ~RenameTo(ok), ~RenameMove(ok)
  PROVE  MovesInv'
<1>1. job \in Job
  BY DEF Types, JobOK
<1>2. \A why \in Excuses : /\ Excused(ok, why).lost = job.lost
                           /\ job.excuses \subseteq Excused(ok, why).excuses
  BY <1>1 DEF Excused, Job
<1>3. CASE StartPath(ok)
  BY <1>1, <1>3, MovesElsewhere DEF StartPath, EnterDir, GetFile, Job
<1>4. CASE Simple(ok) \/ CdLookup(ok)
  BY <1>4, MovesElsewhere DEF Simple, CdLookup
<1>5. CASE GetDirList(ok)
  <2>1. job' = Excused(ok, "refused") /\ pc' \in {"each", "ready", "list"}
    BY <1>5, ListFacts DEF LeaveDir, MoreListed
  <2>2. QED
    BY <1>2, <2>1, MovesElsewhere DEF Excuses
<1>6. CASE RenameFrom(ok)
  BY <1>2, <1>6, MovesElsewhere DEF RenameFrom, Excuses
<1>7. CASE PutOpen(ok) \/ PutChmod(ok) \/ PutWrite(ok) \/ PutClose(ok)
  <2>1. pc' # "mv_move"
    BY <1>7 DEF PutOpen, PutChmod, PutWrite, PutClose
  <2>2. job'.lost = job.lost /\ job.excuses \subseteq job'.excuses
    <3>1. CASE PutOpen(ok)
      BY <1>1, <3>1 DEF PutOpen, Excused, Job
    <3>2. CASE PutWrite(ok)
      BY <1>1, <3>2 DEF PutWrite, Excused, Job
    <3>3. QED
      BY <1>7, <3>1, <3>2 DEF PutChmod, PutClose
  <2>3. QED
    BY <2>1, <2>2, MovesElsewhere
<1>8. CASE GetCreate(ok) \/ RetrieveAttr(ok) \/ RetrieveOpen(ok) \/ RetrieveRead(ok)
           \/ RetrieveClose(ok)
  <2>1. pc' # "mv_move"
    BY <1>8, AfterFileFacts
       DEF GetCreate, RetrieveAttr, RetrieveOpen, RetrieveRead, RetrieveClose
  <2>2. job'.lost = job.lost /\ job.excuses \subseteq job'.excuses
    <3>1. CASE GetCreate(ok)
      BY <1>1, <3>1 DEF GetCreate, Excused, Job
    <3>2. CASE RetrieveRead(ok)
      BY <1>1, <3>2 DEF RetrieveRead, Excused, Job
    <3>3. CASE RetrieveAttr(ok) \/ RetrieveOpen(ok) \/ RetrieveClose(ok)
      BY <1>2, <3>3 DEF RetrieveAttr, RetrieveOpen, RetrieveClose, Excuses
    <3>4. QED
      BY <1>8, <3>1, <3>2, <3>3
  <2>3. QED
    BY <2>1, <2>2, MovesElsewhere
<1>9. QED
  BY <1>3, <1>4, <1>5, <1>6, <1>7, <1>8 DEF Request

LEMMA RenameMoves ==
  ASSUME Types, MovesInv, NEW ok \in BOOLEAN, RenameTo(ok) \/ RenameMove(ok)
  PROVE  MovesInv'
<1>1. job \in Job
  BY DEF Types, JobOK
<1>2. PICK e \in SUBSET Excuses : /\ Excused(ok, "refused") = [job EXCEPT !.excuses = e]
                                  /\ e = {} => ok /\ job.excuses = {}
                                  /\ job.excuses # {} => e # {}
  <2>1. job.excuses \cup (IF ok THEN {} ELSE {"refused"}) \in SUBSET Excuses
    BY <1>1 DEF Job, Excuses
  <2>2. QED
    BY <2>1 DEF Excused
<1>3. CASE RenameTo(ok)
  <2>1. /\ pc = "mv_to" /\ UNCHANGED remote /\ job' = [job EXCEPT !.excuses = e]
        /\ pc' = IF ok /\ Has(remote, job.to, "file") THEN "ready" ELSE "mv_move"
    BY <1>2, <1>3 DEF RenameTo, Occupied
  <2>2. job'.to = job.to /\ job'.lost = job.lost /\ job'.excuses = e
    BY <1>1, <2>1 DEF Job
  <2>3. QED
    BY <1>2, <2>1, <2>2 DEF MovesInv
<1>4. CASE RenameMove(ok)
  <2>1. PICK l \in BOOLEAN : /\ job' = [[job EXCEPT !.excuses = e] EXCEPT !.lost = l]
                             /\ l => Has(remote, job.to, "file")
                             /\ pc = "mv_move" /\ pc' = "ready"
    BY <1>2, <1>4 DEF RenameMove
  <2>2. job'.lost = l /\ job'.excuses = e
    BY <1>1, <2>1 DEF Job
  <2>3. QED
    BY <1>2, <2>1, <2>2 DEF MovesInv
<1>5. QED
  BY <1>3, <1>4

LEMMA NextMoves == Types /\ MovesInv /\ [Next]_vars => MovesInv'
<1> SUFFICES ASSUME Types, MovesInv, [Next]_vars PROVE MovesInv'
  OBVIOUS
<1>1. CASE UNCHANGED vars
  BY <1>1 DEF vars, MovesInv
<1>2. CASE StartAlone \/ cmdline_server_startup
  <2>1. pc' # "mv_move"
    BY <1>2 DEF StartAlone, cmdline_server_startup
  <2>2. job' = job \/ ~job'.lost
    <3>1. CASE cmdline_server_startup
      <4>1. job' = job \/ job' = NoJob \/ \E op, n, p, b :
              job' = [NoJob EXCEPT !.op = op, !.name = n, !.arg = p, !.base = b]
        BY <3>1 DEF cmdline_server_startup
      <4>2. QED
        BY <4>1, NoJobFacts DEF Job
    <3>2. QED
      BY <1>2, <3>1 DEF StartAlone
  <2>3. QED
    BY <2>1, <2>2, MovesElsewhere
<1>3. CASE com_connect \/ com_disconnect \/ CdStart
  <2>1. pc' # "mv_move"
    BY <1>3 DEF com_connect, com_disconnect, CdStart, Typed
  <2>2. ~job'.lost
    <3>1. job' = NoJob \/ \E l, p : job' = [NoJob EXCEPT !.op = "cd", !.start = l, !.arg = p]
      BY <1>3 DEF com_connect, com_disconnect, CdStart
    <3>2. QED
      BY <3>1, NoJobFacts DEF Job
  <2>3. QED
    BY <2>1, <2>2, MovesElsewhere
<1>4. CASE Quit \/ ServerCloses \/ Crash
  BY <1>4 DEF Quit, ServerCloses, Crash, MovesInv
<1>5. ASSUME NEW n \in Names, Command(n) PROVE MovesInv'
  BY <1>5, CommandMoves
<1>6. ASSUME NEW ok \in BOOLEAN, Request(ok) PROVE MovesInv'
  BY <1>6, RequestMoves, RenameMoves
<1>7. CASE GetDirEntry
  <2>1. pc' # "mv_move"
    BY <1>7 DEF GetDirEntry, EnterDir, LeaveDir
  <2>2. \/ job' = job \/ job' = [job EXCEPT !.excuses = @ \cup {"in_the_way"}]
        \/ \E p, d : job' = [job EXCEPT !.src = p, !.dst = d, !.off = 0]
    BY <1>7 DEF GetDirEntry, EnterDir, GetFile
  <2>3. job \in Job
    BY DEF Types, JobOK
  <2>4. job'.lost = job.lost /\ job.excuses \subseteq job'.excuses
    BY <2>2, <2>3, ZenonT(40) DEF Job
  <2>5. QED
    BY <2>1, <2>4, MovesElsewhere
<1>8. ASSUME NEW n \in Names, Other(Append(curdir, n)) PROVE MovesInv'
  <2>1. job'.excuses = job.excuses \cup {"other"}
    BY <1>8 DEF Other, Types, JobOK, Job
  <2>2. QED
    BY <2>1 DEF MovesInv
<1>9. QED
  BY <1>1, <1>2, <1>3, <1>4, <1>5, <1>6, <1>7, <1>8 DEF Next

\* mv removes a file in the way of the new name only when a look was refused or
\* another client changed the volume meanwhile.
THEOREM MovesAreCareful == Spec => []MovesReplaceNothing
<1>1. Init => MovesInv
  BY DEF Init, MovesInv, NoJob
<1>2. Spec => []MovesInv
  BY <1>1, NextMoves, TypesHold, PTL DEF Spec
<1>3. MovesInv => MovesReplaceNothing
  BY DEF MovesInv, MovesReplaceNothing
<1>4. QED
  BY <1>2, <1>3, PTL

-----------------------------------------------------------------------------
(* Where get -r is *)

\* One local directory down for every call of get_dir()
AtDepth(start, depth) == IsPrefix(start, lcwd) /\ Len(lcwd) = Len(start) + depth

HomeInv ==
  /\ frames # <<>> => job.op = "getr"
  /\ pc = "startup" => lcwd = Home
  /\ pc = "start" => lcwd = job.start
  /\ job.op = "getr" /\ pc # "ended" /\ "in_the_way" \notin job.excuses =>
       AtDepth(job.start, Len(frames))

LEMMA HomeKept ==
  ASSUME HomeInv, pc # "ended", UNCHANGED <<lcwd, frames>>, pc' \notin {"startup", "start"},
         job'.op = job.op, job'.start = job.start, job.excuses \subseteq job'.excuses
  PROVE  HomeInv'
BY DEF HomeInv, AtDepth

LEMMA HomeElsewhere ==
  ASSUME frames' = <<>>, pc' \notin {"startup", "start"}, job'.op # "getr"
  PROVE  HomeInv'
BY DEF HomeInv

LEMMA AtHome ==
  ASSUME Types
  PROVE  AtDepth(lcwd, 0)
<1>1. lcwd \in Seq(LocalNames) /\ Len(lcwd) \in Nat
  BY LenProperties DEF Types, TreesOK, Has, IsTree
<1>2. QED
  BY <1>1, PrefixFacts DEF AtDepth

LEMMA EnterHome ==
  ASSUME Types, NEW fs \in Seq(Frame), NEW j \in Job, NEW p \in Seq(Names), NEW n \in Names,
         EnterDir(fs, j, p, n), j.op = "getr",
         "in_the_way" \notin j.excuses => AtDepth(j.start, Len(fs))
  PROVE  HomeInv'
<1>1. /\ pc' = "list" /\ frames' # <<>> /\ Len(frames') = Len(fs) + 1 /\ Len(fs) \in Nat
      /\ job' = [j EXCEPT !.excuses = job'.excuses]
      /\ IF Has(local, Append(lcwd, n), "file")
         THEN job'.excuses = j.excuses \cup {"in_the_way"} /\ lcwd' = lcwd
         ELSE job' = j /\ lcwd' = Append(lcwd, n)
  BY EnterFacts, LenProperties
<1>2. job'.op = "getr" /\ job'.start = j.start
  BY <1>1 DEF Job
<1>3. ASSUME "in_the_way" \notin job'.excuses
      PROVE  IsPrefix(j.start, lcwd') /\ Len(lcwd') = Len(j.start) + Len(frames')
  <2>1. job' = j /\ lcwd' = Append(lcwd, n) /\ AtDepth(j.start, Len(fs))
    BY <1>1, <1>3
  <2>2. lcwd \in Seq(LocalNames) /\ n \in LocalNames /\ j.start \in Seq(LocalNames)
    BY PathFacts DEF Job
  <2>3. Len(lcwd') = Len(lcwd) + 1 /\ Len(lcwd) = Len(j.start) + Len(fs)
    <3>1. Len(Append(lcwd, n)) = Len(lcwd) + 1
      BY <2>2, AppendFacts
    <3>2. QED
      BY <2>1, <3>1 DEF AtDepth
  <2>4. IsPrefix(j.start, lcwd')
    <3>1. IsPrefix(j.start, lcwd)
      BY <2>1 DEF AtDepth
    <3>2. IsPrefix(j.start, Append(lcwd, n))
      BY <2>2, <3>1, PrefixEntry
    <3>3. lcwd' = Append(lcwd, n)
      BY <2>1
    <3>4. QED
      BY <3>2, <3>3, Zenon
  <2>5. Len(j.start) \in Nat
    BY <2>2, LenProperties
  <2>6. Len(frames') = Len(fs) + 1 /\ Len(fs) \in Nat
    BY <1>1
  <2>7. Len(lcwd') = Len(j.start) + Len(frames')
    <3>1. \A x, y \in Nat : (x + y) + 1 = x + (y + 1)
      OBVIOUS
    <3>2. Len(lcwd') = (Len(j.start) + Len(fs)) + 1
      BY <2>3
    <3>3. QED
      BY <2>5, <2>6, <3>1, <3>2, Zenon
  <2>8. QED
    BY <2>4, <2>7
<1>4. QED
  BY <1>1, <1>2, <1>3 DEF HomeInv, AtDepth

LEMMA LeaveHome ==
  ASSUME Types, HomeInv, pc # "ended", frames # <<>>, LeaveDir,
         job'.op = job.op, job'.start = job.start, job.excuses \subseteq job'.excuses
  PROVE  HomeInv'
<1>1. /\ lcwd' = Up(lcwd) /\ pc' \in {"each", "ready"}
      /\ Len(frames') = Len(frames) - 1 /\ Len(frames) \in Nat \ {0}
  BY LeaveFacts DEF LeaveDir
<1>2. job.op = "getr" /\ job \in Job
  BY DEF HomeInv, Types, JobOK
<1>3. ASSUME "in_the_way" \notin job'.excuses
      PROVE  IsPrefix(job.start, lcwd') /\ Len(lcwd') = Len(job.start) + Len(frames')
  <2>1. IsPrefix(job.start, lcwd) /\ Len(lcwd) = Len(job.start) + Len(frames)
    BY <1>2, <1>3 DEF HomeInv, AtDepth
  <2>2. lcwd \in Seq(LocalNames) /\ job.start \in Seq(LocalNames) /\ Len(job.start) \in Nat
    BY <1>2, LenProperties DEF Types, TreesOK, Has, IsTree, Job
  <2>3. lcwd # <<>> /\ job.start # lcwd
    BY <1>1, <2>1, <2>2, EmptySeq
  <2>4. lcwd' = Front(lcwd) /\ Len(lcwd') = Len(lcwd) - 1
    BY <1>1, <2>2, <2>3, FrontFacts DEF Up
  <2>5. IsPrefix(job.start, lcwd')
    BY <2>1, <2>2, <2>3, <2>4, PrefixFacts
  <2>6. QED
    BY <1>1, <2>1, <2>2, <2>4, <2>5
<1>4. QED
  BY <1>1, <1>2, <1>3 DEF HomeInv, AtDepth

LEMMA CommandHome ==
  ASSUME Types, NEW n \in Names, Command(n)
  PROVE  HomeInv'
<1>1. NoJob.op = "none" /\ NoJob.excuses = {} /\ NoJob \in Job
  BY NoJobFacts
<1>2. ASSUME NEW op \in Ops, SimpleStart(op, n) PROVE HomeInv'
  <2>1. frames' = <<>> /\ pc' = "simple"
    BY <1>2, TypedFacts DEF SimpleStart
  <2>2. job'.op # "getr"
    BY <1>1, <1>2 DEF SimpleStart, NoJob
  <2>3. QED
    BY <2>1, <2>2, HomeElsewhere
<1>3. ASSUME NEW m \in Names, com_rename(n, m) PROVE HomeInv'
  <2>1. frames' = <<>> /\ pc' = "mv_from"
    BY <1>3, TypedFacts DEF com_rename
  <2>2. job'.op # "getr"
    BY <1>3 DEF com_rename, NoJob
  <2>3. QED
    BY <2>1, <2>2, HomeElsewhere
<1>4. CASE com_put(n) \/ com_get(n) \/ com_view(n)
  <2>1. frames' = <<>> /\ pc' \in {"put_open", "get", "ended"}
    BY <1>4, TypedFacts DEF com_put, com_get, com_view
  <2>2. job'.op # "getr"
    BY <1>4 DEF com_put, com_get, com_view, GetFile, NoJob
  <2>3. QED
    BY <2>1, <2>2, HomeElsewhere
<1>5. CASE com_get_r(n)
  <2>1. PICK j : j = [NoJob EXCEPT !.op = "getr", !.start = lcwd, !.arg = ServerPath(n),
                                   !.base = Append(lcwd, n)]
    OBVIOUS
  <2>2. EnterDir(<<>>, j, ServerPath(n), n)
    BY <1>5, <2>1 DEF com_get_r
  <2>3. /\ ServerPath(n) \in Seq(Names) /\ lcwd \in Seq(LocalNames)
        /\ Append(lcwd, n) \in Seq(LocalNames)
    BY PathFacts
  <2>4. j \in Job /\ j.op = "getr" /\ j.start = lcwd
    BY <1>1, <2>1, <2>3 DEF Job, AllOps
  <2>5. <<>> \in Seq(Frame) /\ Len(<<>>) = 0
    BY EmptySeq
  <2>6. AtDepth(j.start, Len(<<>>))
    BY <2>4, <2>5, AtHome
  <2>7. QED
    BY <2>2, <2>3, <2>4, <2>5, <2>6, EnterHome
<1>6. QED
  BY <1>2, <1>3, <1>4, <1>5 DEF Command

LEMMA RequestHome ==
  ASSUME Types, HomeInv, NEW ok \in BOOLEAN, Request(ok)
  PROVE  HomeInv'
<1>1. job \in Job
  BY DEF Types, JobOK
<1>2. \A why \in Excuses : /\ Excused(ok, why).op = job.op /\ Excused(ok, why).start = job.start
                           /\ job.excuses \subseteq Excused(ok, why).excuses
  BY <1>1 DEF Excused, Job
<1>3. CASE StartPath(ok)
  <2>1. PICK m : m = Unquoted[job.name]
    OBVIOUS
  <2>2. /\ pc = "start" /\ frames = <<>> /\ job.name \in Names /\ job.arg \in Seq(Names)
        /\ lcwd = job.start
    BY <1>1, <1>3, FramesIdle
       DEF StartPath, Types, JobOK, Job, Fetching, Copying, HomeInv
  <2>3. \/ pc' \in {"leaving", "ready"} /\ UNCHANGED <<lcwd, frames, job>>
        \/ job.op = "getr" /\ EnterDir(<<>>, job, job.arg, job.name)
        \/ pc' = "get" /\ UNCHANGED frames /\ \E b :
             job' = GetFile([job EXCEPT !.op = "startup", !.base = b, !.arg = <<m>>], m, <<m>>)
    BY <1>3, <2>1 DEF StartPath, place
  <2>4. CASE pc' \in {"leaving", "ready"} /\ UNCHANGED <<lcwd, frames, job>>
    BY <2>2, <2>4, HomeKept
  <2>5. CASE job.op = "getr" /\ EnterDir(<<>>, job, job.arg, job.name)
    <3>1. <<>> \in Seq(Frame) /\ AtDepth(job.start, Len(<<>>))
      BY <2>2, AtHome, EmptySeq
    <3>2. QED
      BY <1>1, <2>2, <2>5, <3>1, EnterHome
  <2>6. CASE pc' = "get" /\ UNCHANGED frames /\ \E b :
               job' = GetFile([job EXCEPT !.op = "startup", !.base = b, !.arg = <<m>>], m, <<m>>)
    <3>1. job'.op = "startup"
      BY <1>1, <2>6 DEF GetFile, Job
    <3>2. QED
      BY <2>2, <2>6, <3>1, HomeElsewhere
  <2>7. QED
    BY <2>3, <2>4, <2>5, <2>6
<1>4. CASE Simple(ok) \/ CdLookup(ok)
  BY <1>4, HomeKept DEF Simple, CdLookup, place
<1>5. CASE GetDirList(ok)
  <2>1. pc = "list" /\ job' = Excused(ok, "refused") /\ frames # <<>>
    BY <1>5, ListFacts
  <2>2. job'.op = job.op /\ job'.start = job.start /\ job.excuses \subseteq job'.excuses
    BY <1>2, <2>1 DEF Excuses
  <2>3. CASE LeaveDir
    BY <2>1, <2>2, <2>3, LeaveHome
  <2>4. CASE pc' = "each" /\ UNCHANGED <<frames, lcwd>>
    BY <2>1, <2>2, <2>4, HomeKept
  <2>5. CASE MoreListed(ok)
    <3>1. frames' # <<>> /\ Len(frames') = Len(frames)
      BY <2>1, <2>5, MoreFacts
    <3>2. UNCHANGED <<pc, lcwd>>
      BY <2>5 DEF MoreListed
    <3>3. QED
      BY <2>1, <2>2, <3>1, <3>2 DEF HomeInv, AtDepth
  <2>6. QED
    BY <1>5, <2>3, <2>4, <2>5, ListFacts
<1>6. CASE RenameFrom(ok) \/ RenameTo(ok)
  <2>1. pc' \notin {"startup", "start"} /\ pc # "ended" /\ UNCHANGED <<lcwd, frames>>
    BY <1>6 DEF RenameFrom, RenameTo, place
  <2>2. job' = Excused(ok, "refused")
    BY <1>6 DEF RenameFrom, RenameTo
  <2>3. QED
    BY <1>2, <2>1, <2>2, HomeKept DEF Excuses
<1>7. CASE RenameMove(ok)
  <2>1. pc' = "ready" /\ pc # "ended" /\ UNCHANGED <<lcwd, frames>>
    BY <1>7 DEF RenameMove, place
  <2>2. job'.op = job.op /\ job'.start = job.start /\ job.excuses \subseteq job'.excuses
    BY <1>1, <1>7 DEF RenameMove, Excused, Job
  <2>3. QED
    BY <2>1, <2>2, HomeKept
<1>8. CASE PutOpen(ok) \/ PutChmod(ok) \/ PutWrite(ok) \/ PutClose(ok)
  <2>1. pc' \notin {"startup", "start"} /\ pc # "ended" /\ UNCHANGED <<lcwd, frames>>
    BY <1>8 DEF PutOpen, PutChmod, PutWrite, PutClose, place
  <2>2. job'.op = job.op /\ job'.start = job.start /\ job.excuses \subseteq job'.excuses
    <3>1. CASE PutOpen(ok)
      BY <1>1, <3>1 DEF PutOpen, Excused, Job
    <3>2. CASE PutWrite(ok)
      BY <1>1, <3>2 DEF PutWrite, Excused, Job
    <3>3. QED
      BY <1>8, <3>1, <3>2 DEF PutChmod, PutClose
  <2>3. QED
    BY <2>1, <2>2, HomeKept
<1>9. CASE GetCreate(ok) \/ RetrieveAttr(ok) \/ RetrieveOpen(ok) \/ RetrieveRead(ok)
           \/ RetrieveClose(ok)
  <2>1. pc' \notin {"startup", "start"} /\ pc # "ended" /\ UNCHANGED <<lcwd, frames>>
    BY <1>9, AfterFileFacts
       DEF GetCreate, RetrieveAttr, RetrieveOpen, RetrieveRead, RetrieveClose, place
  <2>2. job'.op = job.op /\ job'.start = job.start /\ job.excuses \subseteq job'.excuses
    <3>1. CASE GetCreate(ok)
      BY <1>1, <3>1 DEF GetCreate, Excused, Job
    <3>2. CASE RetrieveRead(ok)
      BY <1>1, <3>2 DEF RetrieveRead, Excused, Job
    <3>3. CASE RetrieveAttr(ok) \/ RetrieveOpen(ok) \/ RetrieveClose(ok)
      BY <1>2, <3>3 DEF RetrieveAttr, RetrieveOpen, RetrieveClose, Excuses
    <3>4. QED
      BY <1>9, <3>1, <3>2, <3>3
  <2>3. QED
    BY <2>1, <2>2, HomeKept
<1>10. QED
  BY <1>3, <1>4, <1>5, <1>6, <1>7, <1>8, <1>9 DEF Request

LEMMA EntryHome ==
  ASSUME Types, HomeInv, GetDirEntry
  PROVE  HomeInv'
<1>1. PICK rest : rest = [frames EXCEPT ![Len(frames)].todo = Tail(@)]
  OBVIOUS
<1>2. PICK n : n = Head(Last(frames).todo)[1]
  OBVIOUS
<1>3. /\ pc = "each"
      /\ \/ LeaveDir /\ UNCHANGED job
         \/ /\ Last(frames).todo # <<>>
            /\ EnterDir(rest, job, Append(Last(frames).dir, n), n)
         \/ /\ Last(frames).todo # <<>> /\ frames' = rest /\ pc' = "get" /\ UNCHANGED lcwd
            /\ \E p, d : job' = [job EXCEPT !.src = p, !.dst = d, !.off = 0]
  BY <1>1, <1>2 DEF GetDirEntry, GetFile
<1>4. frames # <<>> /\ job \in Job /\ job.op = "getr"
  BY <1>3 DEF Types, FramesOK, JobOK, HomeInv
<1>5. CASE LeaveDir /\ UNCHANGED job
  BY <1>3, <1>4, <1>5, LeaveHome
<1>6. CASE Last(frames).todo # <<>>
  <2>1. /\ rest \in Seq(Frame) /\ rest # <<>> /\ Len(rest) = Len(frames)
        /\ n \in Names /\ Last(frames).dir \in Seq(Names)
    BY <1>1, <1>2, <1>4, <1>6, EntryFacts
  <2>2. CASE EnterDir(rest, job, Append(Last(frames).dir, n), n)
    <3>1. Append(Last(frames).dir, n) \in Seq(Names)
      BY <2>1, AppendProperties
    <3>2. "in_the_way" \notin job.excuses => AtDepth(job.start, Len(rest))
      BY <1>3, <1>4, <2>1 DEF HomeInv
    <3>3. QED
      BY <1>4, <2>1, <2>2, <3>1, <3>2, EnterHome
  <2>3. CASE /\ frames' = rest /\ pc' = "get" /\ UNCHANGED lcwd
             /\ \E p, d : job' = [job EXCEPT !.src = p, !.dst = d, !.off = 0]
    <3>1. job'.op = job.op /\ job'.start = job.start /\ job'.excuses = job.excuses
      BY <1>4, <2>3 DEF Job
    <3>2. QED
      BY <1>3, <1>4, <2>1, <2>3, <3>1 DEF HomeInv, AtDepth
  <2>4. QED
    BY <1>3, <1>5, <1>6, <2>2, <2>3
<1>7. QED
  BY <1>3, <1>5, <1>6

LEMMA NextHome == Types /\ HomeInv /\ [Next]_vars => HomeInv'
<1> SUFFICES ASSUME Types, HomeInv, [Next]_vars PROVE HomeInv'
  OBVIOUS
<1>1. CASE UNCHANGED vars
  BY <1>1 DEF vars, HomeInv, AtDepth
<1>2. CASE StartAlone
  BY <1>2, HomeKept DEF StartAlone, place
<1>3. CASE cmdline_server_startup
  <2>1. /\ pc = "startup" /\ frames' = frames /\ lcwd' = lcwd
        /\ \/ pc' \in {"ready", "leaving"} /\ job' = job
           \/ pc' = "ready" /\ job' = NoJob
           \/ pc' = "start" /\ \E op, n, p, b :
                job' = [NoJob EXCEPT !.op = op, !.name = n, !.arg = p, !.base = b]
    BY <1>3 DEF cmdline_server_startup, place
  <2>2. frames = <<>> /\ lcwd = Home
    BY <2>1, FramesIdle DEF Types, Fetching, Copying, HomeInv
  <2>3. CASE pc' \in {"ready", "leaving"} /\ job' = job
    BY <2>1, <2>3, HomeKept
  <2>4. CASE pc' = "ready" /\ job' = NoJob
    BY <2>1, <2>2, <2>4, NoJobFacts, HomeElsewhere
  <2>5. CASE pc' = "start" /\ \E op, n, p, b :
               job' = [NoJob EXCEPT !.op = op, !.name = n, !.arg = p, !.base = b]
    <3>1. job'.start = lcwd
      BY <2>2, <2>5 DEF NoJob
    <3>2. AtDepth(lcwd, 0) /\ Len(frames) = 0
      BY <2>2, AtHome, EmptySeq
    <3>3. QED
      BY <2>1, <2>2, <2>5, <3>1, <3>2 DEF HomeInv, AtDepth
  <2>6. QED
    BY <2>1, <2>3, <2>4, <2>5
<1>4. CASE com_connect \/ com_disconnect \/ CdStart
  <2>1. frames' = <<>> /\ pc' \notin {"startup", "start"}
    BY <1>4, TypedFacts DEF com_connect, com_disconnect, CdStart
  <2>2. job' = NoJob \/ \E l, p : job' = [NoJob EXCEPT !.op = "cd", !.start = l, !.arg = p]
    BY <1>4 DEF com_connect, com_disconnect, CdStart
  <2>3. job'.op # "getr"
    BY <2>2, NoJobFacts DEF Job
  <2>4. QED
    BY <2>1, <2>3, HomeElsewhere
<1>5. CASE Quit \/ Crash
  BY <1>5 DEF Quit, Crash, HomeInv, place
<1>6. CASE ServerCloses
  BY <1>6 DEF ServerCloses, HomeInv, AtDepth, place
<1>7. ASSUME NEW n \in Names, Command(n) PROVE HomeInv'
  BY <1>7, CommandHome
<1>8. ASSUME NEW ok \in BOOLEAN, Request(ok) PROVE HomeInv'
  BY <1>8, RequestHome
<1>9. CASE GetDirEntry
  BY <1>9, EntryHome
<1>10. ASSUME NEW n \in Names, Other(Append(curdir, n)) PROVE HomeInv'
  <2>1. /\ UNCHANGED <<lcwd, frames, pc>> /\ pc # "ended"
        /\ job' = [job EXCEPT !.excuses = @ \cup {"other"}]
    BY <1>10 DEF Other, place, Requests
  <2>2. job'.op = job.op /\ job'.start = job.start /\ job.excuses \subseteq job'.excuses
    BY <2>1 DEF Types, JobOK, Job
  <2>3. QED
    BY <2>1, <2>2 DEF HomeInv, AtDepth
<1>11. QED
  BY <1>1, <1>2, <1>3, <1>4, <1>5, <1>6, <1>7, <1>8, <1>9, <1>10 DEF Next

\* get -r stays below the local directory it was started in and returns there,
\* whatever is refused, but for a local file with the name of a directory.
THEOREM GetReturns == Spec => []BackHome
<1>1. Init => HomeInv
  BY DEF Init, HomeInv, NoJob
<1>2. Spec => []HomeInv
  BY <1>1, NextHome, TypesHold, PTL DEF Spec
<1>3. Types /\ HomeInv => BackHome
  <2> SUFFICES ASSUME Types, HomeInv, job.op = "getr", pc # "ended",
                      "in_the_way" \notin job.excuses
               PROVE  IsPrefix(job.start, lcwd) /\ (pc = "ready" => lcwd = job.start)
    BY DEF BackHome
  <2>1. AtDepth(job.start, Len(frames))
    BY DEF HomeInv
  <2>2. ASSUME pc = "ready" PROVE lcwd = job.start
    <3>1. frames = <<>> /\ Len(frames) = 0
      BY <2>2, FramesIdle, EmptySeq DEF Types, Fetching, Copying
    <3>2. /\ lcwd \in Seq(LocalNames) /\ job.start \in Seq(LocalNames)
          /\ Len(job.start) \in Nat /\ Len(lcwd) \in Nat
      BY LenProperties DEF Types, TreesOK, Has, IsTree, JobOK, Job
    <3>3. Len(lcwd) = Len(job.start) /\ IsPrefix(job.start, lcwd)
      BY <2>1, <3>1, <3>2 DEF AtDepth
    <3>4. QED
      BY <3>2, <3>3, PrefixFacts
  <2>3. QED
    BY <2>1, <2>2 DEF AtDepth
<1>4. QED
  BY <1>2, <1>3, TypesHold, PTL

-----------------------------------------------------------------------------
(* put *)

\* What a file is that had old when the first k blocks of data have been written
Mixed(data, k, old) == [i \in 1..(IF k > Len(old) THEN k ELSE Len(old)) |->
                          IF i <= k THEN data[i] ELSE old[i]]

LEMMA MixedFacts ==
  ASSUME NEW data \in Seq(Nat), NEW old \in Seq(Nat), NEW k \in Nat, k <= Len(data)
  PROVE  /\ Mixed(data, k, old) \in Seq(Nat)
         /\ Len(Mixed(data, k, old)) \in Nat
         /\ Len(Mixed(data, k, old)) = IF k > Len(old) THEN k ELSE Len(old)
         /\ \A i \in 1..Len(Mixed(data, k, old)) :
              Mixed(data, k, old)[i] = IF i <= k THEN data[i] ELSE old[i]
<1>1. /\ Len(data) \in Nat /\ \A i \in 1..Len(data) : data[i] \in Nat
      /\ Len(old) \in Nat /\ \A i \in 1..Len(old) : old[i] \in Nat
  BY LenProperties, ElementOfSeq
<1>2. PICK m \in Nat : m = IF k > Len(old) THEN k ELSE Len(old)
  BY <1>1
<1>3. PICK w : w = [i \in 1..m |-> IF i <= k THEN data[i] ELSE old[i]]
  OBVIOUS
<1>4. Mixed(data, k, old) = w
  BY <1>2, <1>3 DEF Mixed
<1>5. w \in [1..m -> Nat]
  BY <1>1, <1>2, <1>3
<1>6. w \in Seq(Nat) /\ Len(w) = m
  <2>1. w \in Seq(Nat)
    BY <1>5
  <2>2. DOMAIN w = 1..m /\ DOMAIN w = 1..Len(w) /\ Len(w) \in Nat
    BY <1>5, <2>1, LenProperties
  <2>3. QED
    BY <2>1, <2>2
<1>7. QED
  BY <1>2, <1>3, <1>4, <1>6

\* From nothing written, block by block, to all of it
LEMMA MixedNone ==
  ASSUME NEW data \in Seq(Nat), NEW old \in Seq(Nat)
  PROVE  Mixed(data, 0, old) = old
<1>1. Len(data) \in Nat /\ Len(old) \in Nat
  BY LenProperties
<1>2. PICK w : w = Mixed(data, 0, old)
  OBVIOUS
<1>3. /\ w \in Seq(Nat) /\ Len(w) = IF 0 > Len(old) THEN 0 ELSE Len(old)
      /\ \A i \in 1..Len(w) : w[i] = IF i <= 0 THEN data[i] ELSE old[i]
  BY <1>1, <1>2, MixedFacts
<1>4. Len(w) = Len(old) /\ \A i \in 1..Len(w) : w[i] = old[i]
  BY <1>1, <1>3
<1>5. QED
  BY <1>2, <1>3, <1>4, SeqEqual

LEMMA MixedNext ==
  ASSUME NEW data \in Seq(Nat), NEW old \in Seq(Nat), NEW k \in Nat, k < Len(data)
  PROVE  Written(Mixed(data, k, old), k + 1, data[k + 1]) = Mixed(data, k + 1, old)
<1>1. Len(data) \in Nat /\ Len(old) \in Nat
  BY LenProperties
<1>2. k + 1 \in Nat \ {0} /\ k <= Len(data) /\ k + 1 <= Len(data) /\ k + 1 \in 1..Len(data)
  BY <1>1
<1>3. data[k + 1] \in Nat
  BY <1>2, ElementOfSeq
<1>4. PICK w : w = Mixed(data, k, old)
  OBVIOUS
<1>5. PICK u : u = Mixed(data, k + 1, old)
  OBVIOUS
<1>6. /\ w \in Seq(Nat) /\ Len(w) = IF k > Len(old) THEN k ELSE Len(old)
      /\ \A i \in 1..Len(w) : w[i] = IF i <= k THEN data[i] ELSE old[i]
  <2>1. k <= Len(data)
    BY <1>2
  <2>2. Mixed(data, k, old) \in Seq(Nat)
    BY <2>1, MixedFacts
  <2>3. Len(Mixed(data, k, old)) = IF k > Len(old) THEN k ELSE Len(old)
    BY <2>1, MixedFacts
  <2>4. \A i \in 1..Len(Mixed(data, k, old)) :
          Mixed(data, k, old)[i] = IF i <= k THEN data[i] ELSE old[i]
    BY <2>1, MixedFacts
  <2>5. QED
    BY <1>4, <2>2, <2>3, <2>4
<1>7. /\ u \in Seq(Nat) /\ Len(u) = IF k + 1 > Len(old) THEN k + 1 ELSE Len(old)
      /\ \A i \in 1..Len(u) : u[i] = IF i <= k + 1 THEN data[i] ELSE old[i]
  BY <1>2, <1>5, MixedFacts
<1>8. PICK x : x = Written(w, k + 1, data[k + 1])
  OBVIOUS
<1>9. /\ x \in Seq(Nat) /\ Len(x) = IF k + 1 > Len(w) THEN k + 1 ELSE Len(w)
      /\ x[k + 1] = data[k + 1]
      /\ \A i \in 1..Len(w) : i # k + 1 => x[i] = w[i]
  <2>1. w \in Seq(Nat) /\ k + 1 \in Nat \ {0}
    BY <1>2, <1>6
  <2>2. QED
    <3>1. PICK m \in Nat \ {0}, v \in Nat : m = k + 1 /\ v = data[k + 1]
      BY <1>3, <2>1
    <3>2. x = Written(w, m, v)
      BY <1>8, <3>1
    <3>3. /\ x \in Seq(Nat) /\ Len(x) = IF m > Len(w) THEN m ELSE Len(w)
          /\ x[m] = v
          /\ \A i \in 1..Len(w) : i # m => x[i] = w[i]
      BY <2>1, <3>2, WrittenFacts
    <3>4. QED
      BY <3>1, <3>3
<1>10. Len(x) = Len(u)
  BY <1>1, <1>6, <1>7, <1>9
<1>11. ASSUME NEW i \in 1..Len(x) PROVE x[i] = u[i]
  <2>1. u[i] = IF i <= k + 1 THEN data[i] ELSE old[i]
    BY <1>7, <1>10
  <2>2. CASE i = k + 1
    BY <1>9, <2>1, <2>2
  <2>3. CASE i # k + 1
    <3>1. i \in 1..Len(w)
      BY <1>1, <1>6, <1>9, <2>3
    <3>2. x[i] = IF i <= k THEN data[i] ELSE old[i]
      BY <1>6, <1>9, <2>3, <3>1
    <3>3. QED
      BY <2>1, <2>3, <3>2
  <2>4. QED
    BY <2>2, <2>3
<1>12. x = u
  BY <1>7, <1>9, <1>10, <1>11, SeqEqual
<1>13. QED
  BY <1>4, <1>5, <1>8, <1>12

LEMMA MixedAll ==
  ASSUME NEW data \in Seq(Nat), NEW old \in Seq(Nat)
  PROVE  Mixed(data, Len(data), old) = data \o SubSeq(old, Len(data) + 1, Len(old))
<1>1. Len(data) \in Nat /\ Len(old) \in Nat
  BY LenProperties
<1>2. PICK w, n : n = Len(data) /\ w = Mixed(data, n, old)
  OBVIOUS
<1>3. /\ w \in Seq(Nat)
      /\ Len(w) = IF Len(data) > Len(old) THEN Len(data) ELSE Len(old)
      /\ \A i \in 1..Len(w) : w[i] = IF i <= Len(data) THEN data[i] ELSE old[i]
  <2>1. n \in Nat /\ n <= Len(data)
    BY <1>1, <1>2
  <2>2. /\ w \in Seq(Nat) /\ Len(w) = IF n > Len(old) THEN n ELSE Len(old)
        /\ \A i \in 1..Len(w) : w[i] = IF i <= n THEN data[i] ELSE old[i]
    BY <1>2, <2>1, MixedFacts
  <2>3. QED
    BY <1>2, <2>2
<1>4. PICK r : r = SubSeq(old, Len(data) + 1, Len(old))
  OBVIOUS
<1>5. /\ r \in Seq(Nat)
      /\ Len(r) = IF Len(data) + 1 <= Len(old) THEN Len(old) - (Len(data) + 1) + 1 ELSE 0
      /\ \A i \in 1..(Len(old) - (Len(data) + 1) + 1) : r[i] = old[Len(data) + 1 + i - 1]
  <2>1. \A i \in (Len(data) + 1)..Len(old) : old[i] \in Nat
    <3>1. \A i \in 1..Len(old) : old[i] \in Nat
      BY ElementOfSeq
    <3>2. QED
      BY <1>1, <3>1
  <2>2. Len(data) + 1 \in Int /\ Len(old) \in Int
    BY <1>1
  <2>3. QED
    BY <1>4, <2>1, <2>2, SubSeqProperties
<1>6. PICK x : x = data \o r
  OBVIOUS
<1>7. /\ x \in Seq(Nat) /\ Len(x) = Len(data) + Len(r)
      /\ \A i \in 1..(Len(data) + Len(r)) :
           x[i] = IF i <= Len(data) THEN data[i] ELSE r[i - Len(data)]
  <2>1. r \in Seq(Nat)
    BY <1>5
  <2>2. /\ data \o r \in Seq(Nat) /\ Len(data \o r) = Len(data) + Len(r)
        /\ \A i \in 1..(Len(data) + Len(r)) :
             (data \o r)[i] = IF i <= Len(data) THEN data[i] ELSE r[i - Len(data)]
    BY <2>1, ConcatProperties
  <2>3. QED
    BY <1>6, <2>2
<1>8. Len(x) = Len(w)
  BY <1>1, <1>3, <1>5, <1>7
<1>9. ASSUME NEW i \in 1..Len(w) PROVE w[i] = x[i]
  <2>1. /\ w[i] = IF i <= Len(data) THEN data[i] ELSE old[i]
        /\ x[i] = IF i <= Len(data) THEN data[i] ELSE r[i - Len(data)]
    BY <1>3, <1>7, <1>8
  <2>2. CASE i <= Len(data)
    BY <2>1, <2>2
  <2>3. CASE ~(i <= Len(data))
    <3>1. /\ i - Len(data) \in 1..(Len(old) - (Len(data) + 1) + 1)
          /\ Len(data) + 1 + (i - Len(data)) - 1 = i
      BY <1>1, <1>3, <2>3
    <3>2. r[i - Len(data)] = old[i]
      BY <1>5, <3>1
    <3>3. QED
      BY <2>1, <2>3, <3>2
  <2>4. QED
    BY <2>2, <2>3
<1>10. w = x
  BY <1>3, <1>7, <1>8, <1>9, SeqEqual
<1>11. QED
  BY <1>2, <1>4, <1>6, <1>10

\* How far put is: what has been written, when nothing has been in its way
PutState ==
  LET data == local[job.base].data
  IN /\ Has(remote, job.arg, "file")
     /\ job.old \in Seq(Nat)
     /\ remote[job.arg].data = Mixed(data, job.off, job.old)
     /\ pc \in {"put_close", "ready"} => job.off = Len(data)

PutInv ==
  /\ job.op = "put" => pc \in Putting \cup {"ready", "ended"}
  /\ pc \in Putting => job.op = "put"
  /\ job.op = "put" /\ job.excuses = {} /\ pc \in (Putting \ {"put_open"}) \cup {"ready"}
       /\ Has(local, job.base, "file") => PutState

LEMMA PutElsewhere ==
  ASSUME job'.op # "put", pc' \notin Putting
  PROVE  PutInv'
BY DEF PutInv

LEMMA PutExcused ==
  ASSUME pc \in Putting, job.op = "put", job'.op = "put", pc' \in Putting \cup {"ready"},
         job'.excuses # {}
  PROVE  PutInv'
BY DEF PutInv

\* A request that put does not make
LEMMA RequestOp ==
  ASSUME Types, NEW ok \in BOOLEAN, Request(ok), pc \notin Putting
  PROVE  /\ job'.op \in {job.op, "startup"} /\ pc' \notin Putting
         /\ pc \notin {"ready", "ended"}
<1>1. job \in Job
  BY DEF Types, JobOK
<1>2. \A why \in Excuses : Excused(ok, why).op = job.op
  BY <1>1 DEF Excused, Job
<1>3. CASE StartPath(ok)
  BY <1>1, <1>3 DEF StartPath, EnterDir, GetFile, Job, Putting
<1>4. CASE Simple(ok) \/ CdLookup(ok)
  BY <1>4 DEF Simple, CdLookup, Putting
<1>5. CASE GetDirList(ok)
  <2>1. pc = "list" /\ job' = Excused(ok, "refused") /\ pc' \in {"each", "ready", "list"}
    BY <1>5, ListFacts DEF LeaveDir, MoreListed
  <2>2. QED
    BY <1>2, <2>1 DEF Excuses, Putting
<1>6. CASE RenameFrom(ok) \/ RenameTo(ok)
  BY <1>2, <1>6 DEF RenameFrom, RenameTo, Excuses, Putting
<1>7. CASE RenameMove(ok)
  BY <1>1, <1>7 DEF RenameMove, Excused, Job, Putting
<1>8. CASE GetCreate(ok) \/ RetrieveAttr(ok) \/ RetrieveOpen(ok) \/ RetrieveRead(ok)
           \/ RetrieveClose(ok)
  <2>1. pc' \notin Putting /\ pc \notin {"ready", "ended"}
    BY <1>8, AfterFileFacts
       DEF GetCreate, RetrieveAttr, RetrieveOpen, RetrieveRead, RetrieveClose, Putting
  <2>2. job'.op = job.op
    <3>1. CASE GetCreate(ok)
      BY <1>1, <3>1 DEF GetCreate, Excused, Job
    <3>2. CASE RetrieveRead(ok)
      BY <1>1, <3>2 DEF RetrieveRead, Excused, Job
    <3>3. CASE RetrieveAttr(ok) \/ RetrieveOpen(ok) \/ RetrieveClose(ok)
      BY <1>2, <3>3 DEF RetrieveAttr, RetrieveOpen, RetrieveClose, Excuses
    <3>4. QED
      BY <1>8, <3>1, <3>2, <3>3
  <2>3. QED
    BY <2>1, <2>2
<1>9. QED
  BY <1>3, <1>4, <1>5, <1>6, <1>7, <1>8
     DEF Request, Putting, PutOpen, PutChmod, PutWrite, PutClose

LEMMA PutOpenPuts ==
  ASSUME Types, PutInv, NEW ok \in BOOLEAN, PutOpen(ok)
  PROVE  PutInv'
<1>1. PICK opened \in BOOLEAN : opened = (ok /\ ~Has(remote, job.arg, "dir"))
  OBVIOUS
<1>2. /\ pc = "put_open" /\ local' = local
      /\ remote' = IF opened /\ job.arg \notin DOMAIN remote
                   THEN With(remote, job.arg, File(<<>>)) ELSE remote
      /\ job' = [Excused(opened, "refused") EXCEPT
                   !.old = IF opened /\ job.arg \in DOMAIN remote THEN remote[job.arg].data
                                                                   ELSE <<>>]
      /\ pc' = IF opened THEN "put_chmod" ELSE "ready"
  BY <1>1 DEF PutOpen
<1>3. job \in Job /\ job.op = "put" /\ job.off = 0 /\ job.arg \in Seq(Names) /\ job.arg # <<>>
      /\ Front(job.arg) = curdir
  BY <1>2 DEF Types, JobOK, Job, PutInv, Putting
<1>4. IsTree(remote, Names) /\ Has(remote, curdir, "dir") /\ IsTree(local, LocalNames)
  BY DEF Types, TreesOK
<1>5. PICK old \in Seq(Nat) : old = IF opened /\ job.arg \in DOMAIN remote
                                    THEN remote[job.arg].data ELSE <<>>
  BY <1>4, EmptySeq, NodeFacts
<1>6. PICK e \in SUBSET Excuses : /\ Excused(opened, "refused") = [job EXCEPT !.excuses = e]
                                  /\ ~opened => e # {}
  <2>1. job.excuses \cup (IF opened THEN {} ELSE {"refused"}) \in SUBSET Excuses
    BY <1>3 DEF Job, Excuses
  <2>2. QED
    BY <2>1 DEF Excused
<1>7. /\ job'.op = "put" /\ job'.excuses = e /\ job'.old = old /\ job'.off = 0
      /\ job'.arg = job.arg /\ job'.base = job.base
  <2>1. job' = [[job EXCEPT !.excuses = e] EXCEPT !.old = old]
    BY <1>2, <1>5, <1>6
  <2>2. QED
    BY <1>3, <2>1 DEF Job
<1>8. CASE ~opened
  BY <1>2, <1>3, <1>6, <1>7, <1>8, PutExcused DEF Putting
<1>9. CASE opened
  <2>1. Has(remote', job.arg, "file") /\ remote'[job.arg].data = old
    <3>1. CASE job.arg \in DOMAIN remote
      <4>1. remote[job.arg].kind = "file"
        <5>1. remote[job.arg].kind \in {"dir", "file"}
          BY <1>4, <3>1, NodeFacts
        <5>2. QED
          BY <1>1, <1>9, <3>1, <5>1 DEF Has
      <4>2. QED
        BY <1>2, <1>5, <1>9, <3>1, <4>1 DEF Has
    <3>2. CASE job.arg \notin DOMAIN remote
      <4>1. PICK f : f = File(<<>>) /\ f.data \in Seq(Nat) /\ f = File(f.data)
                     /\ f.data = <<>> /\ f.kind = "file"
        BY EmptySeq, NewFile
      <4>2. ~Has(remote, job.arg, "dir")
        BY <3>2 DEF Has
      <4>3. /\ job.arg \in DOMAIN With(remote, job.arg, f)
            /\ With(remote, job.arg, f)[job.arg] = f
        BY <1>3, <1>4, <4>1, <4>2, WithFacts
      <4>4. QED
        BY <1>2, <1>5, <1>9, <3>2, <4>1, <4>3 DEF Has
    <3>3. QED
      BY <3>1, <3>2
  <2>2. ASSUME Has(local, job.base, "file")
        PROVE  Mixed(local[job.base].data, 0, old) = old
    <3>1. local[job.base].data \in Seq(Nat)
      BY <1>4, <2>2, NodeFacts DEF Has
    <3>2. QED
      BY <3>1, MixedNone
  <2>3. pc' = "put_chmod" /\ local' = local
    BY <1>2, <1>9
  <2>4. Has(local, job.base, "file") => PutState'
    BY <1>7, <2>1, <2>2, <2>3 DEF PutState
  <2>5. QED
    BY <1>7, <2>3, <2>4 DEF PutInv, Putting
<1>10. QED
  BY <1>8, <1>9

LEMMA PutWritePuts ==
  ASSUME Types, PutInv, NEW ok \in BOOLEAN, PutWrite(ok)
  PROVE  PutInv'
<1>1. PICK k, data : k = job.off /\ data = local[job.base].data
  OBVIOUS
<1>2. /\ pc = "put_write" /\ local' = local
      /\ remote' = IF ok /\ Has(remote, job.arg, "file")
                   THEN [remote EXCEPT ![job.arg].data = Written(@, k + 1, data[k + 1])]
                   ELSE remote
      /\ job' = [Excused(ok, "refused") EXCEPT !.off = k + 1]
      /\ pc' = IF k + 1 = Len(data) THEN "put_close" ELSE "put_write"
  BY <1>1 DEF PutWrite
<1>3. /\ job \in Job /\ job.op = "put" /\ Has(local, job.base, "file") /\ k \in Nat
      /\ k < Len(data)
  BY <1>1, <1>2 DEF Types, JobOK, Job, PutInv, Putting
<1>4. IsTree(remote, Names) /\ IsTree(local, LocalNames)
  BY DEF Types, TreesOK
<1>5. data \in Seq(Nat)
  BY <1>1, <1>3, <1>4, NodeFacts DEF Has
<1>6. PICK e \in SUBSET Excuses : /\ Excused(ok, "refused") = [job EXCEPT !.excuses = e]
                                  /\ e = {} => ok /\ job.excuses = {}
  <2>1. job.excuses \cup (IF ok THEN {} ELSE {"refused"}) \in SUBSET Excuses
    BY <1>3 DEF Job, Excuses
  <2>2. QED
    BY <2>1 DEF Excused
<1>7. /\ job'.op = "put" /\ job'.excuses = e /\ job'.old = job.old /\ job'.off = k + 1
      /\ job'.arg = job.arg /\ job'.base = job.base
  <2>1. PICK m \in Nat : m = k + 1
    BY <1>3
  <2>2. job' = [[job EXCEPT !.excuses = e] EXCEPT !.off = m]
    BY <1>2, <1>6, <2>1
  <2>3. QED
    BY <1>3, <2>1, <2>2 DEF Job
<1>8. CASE e # {}
  BY <1>2, <1>3, <1>7, <1>8, PutExcused DEF Putting
<1>9. CASE e = {}
  <2>1. /\ Has(remote, job.arg, "file") /\ job.old \in Seq(Nat)
        /\ remote[job.arg].data = Mixed(data, k, job.old)
    BY <1>1, <1>2, <1>3, <1>6, <1>9 DEF PutInv, PutState, Putting
  <2>2. Written(Mixed(data, k, job.old), k + 1, data[k + 1]) = Mixed(data, k + 1, job.old)
    BY <1>3, <1>5, <2>1, MixedNext
  <2>3. PICK w \in Seq(Nat) : w = Mixed(data, k + 1, job.old)
    <3>1. PICK m \in Nat : m = k + 1 /\ m <= Len(data)
      BY <1>3, <1>5, LenProperties
    <3>2. Mixed(data, m, job.old) \in Seq(Nat)
      BY <1>5, <2>1, <3>1, MixedFacts
    <3>3. QED
      BY <3>1, <3>2
  <2>4. remote' = [remote EXCEPT ![job.arg].data = w]
    BY <1>2, <1>6, <1>9, <2>1, <2>2, <2>3
  <2>5. PICK x : remote[job.arg] = [kind |-> "file", data |-> x] /\ job.arg \in DOMAIN remote
    <3>1. job.arg \in DOMAIN remote /\ remote[job.arg].kind = "file"
      BY <2>1 DEF Has
    <3>2. remote[job.arg] = File(remote[job.arg].data)
      BY <1>4, <3>1, NodeFacts
    <3>3. QED
      BY <3>1, <3>2 DEF File
  <2>6. Has(remote', job.arg, "file") /\ remote'[job.arg].data = Mixed(data, k + 1, job.old)
    BY <2>3, <2>4, <2>5 DEF Has
  <2>7. pc' = "put_close" => k + 1 = Len(data)
    BY <1>2
  <2>8. pc' \in {"put_close", "put_write"}
    BY <1>2
  <2>9. PutState'
    BY <1>1, <1>2, <1>7, <2>1, <2>6, <2>7, <2>8 DEF PutState
  <2>10. QED
    BY <1>7, <2>8, <2>9 DEF PutInv, Putting
<1>10. QED
  BY <1>8, <1>9

LEMMA RequestPuts ==
  ASSUME Types, PutInv, NEW ok \in BOOLEAN, Request(ok)
  PROVE  PutInv'
<1>1. CASE pc \notin Putting
  <2>1. job.op # "put"
    BY <1>1, RequestOp DEF PutInv
  <2>2. QED
    BY <1>1, <2>1, RequestOp, PutElsewhere
<1>2. CASE pc \in Putting
  <2>1. PutOpen(ok) \/ PutChmod(ok) \/ PutWrite(ok) \/ PutClose(ok)
    BY <1>2 DEF Putting, Request, StartPath, Simple, CdLookup, RenameFrom, RenameTo, RenameMove,
                GetCreate, RetrieveAttr, RetrieveOpen, RetrieveRead, RetrieveClose, GetDirList
  <2>2. CASE PutChmod(ok)
    <3>1. /\ pc = "put_chmod" /\ UNCHANGED <<remote, local, job>>
          /\ pc' = IF Has(local, job.base, "dir") \/ local[job.base].data = <<>>
                   THEN "put_close" ELSE "put_write"
      BY <2>2 DEF PutChmod
    <3>2. job.off = 0
      BY <3>1 DEF Types, JobOK
    <3>3. Has(local, job.base, "file") /\ pc' = "put_close" => Len(local[job.base].data) = 0
      BY <3>1, EmptySeq DEF Has
    <3>4. QED
      BY <3>1, <3>2, <3>3 DEF PutInv, PutState, Putting
  <2>3. CASE PutClose(ok)
    <3>1. pc = "put_close" /\ pc' = "ready" /\ UNCHANGED <<remote, local, job>>
      BY <2>3 DEF PutClose
    <3>2. QED
      BY <3>1 DEF PutInv, PutState, Putting
  <2>4. QED
    BY <2>1, <2>2, <2>3, PutOpenPuts, PutWritePuts
<1>3. QED
  BY <1>1, <1>2

LEMMA CommandPuts ==
  ASSUME Types, NEW n \in Names, Command(n)
  PROVE  PutInv'
<1>1. NoJob.op = "none" /\ NoJob \in Job
  BY NoJobFacts
<1>2. ASSUME NEW op \in Ops, SimpleStart(op, n) PROVE PutInv'
  BY <1>2, PutElsewhere DEF SimpleStart, NoJob, Putting
<1>3. ASSUME NEW m \in Names, com_rename(n, m) PROVE PutInv'
  BY <1>3, PutElsewhere DEF com_rename, NoJob, Putting
<1>4. CASE com_put(n)
  <2>1. pc' = "put_open" /\ job'.op = "put"
    BY <1>4 DEF com_put, NoJob
  <2>2. QED
    BY <2>1 DEF PutInv, Putting
<1>5. CASE com_get(n) \/ com_view(n)
  BY <1>5, PutElsewhere DEF com_get, com_view, GetFile, NoJob, Putting
<1>6. CASE com_get_r(n)
  BY <1>6, PutElsewhere DEF com_get_r, EnterDir, NoJob, Putting
<1>7. QED
  BY <1>2, <1>3, <1>4, <1>5, <1>6 DEF Command

LEMMA NextPuts == Types /\ PutInv /\ [Next]_vars => PutInv'
<1> SUFFICES ASSUME Types, PutInv, [Next]_vars PROVE PutInv'
  OBVIOUS
<1>1. CASE UNCHANGED vars
  BY <1>1 DEF vars, PutInv, PutState
<1>2. CASE StartAlone \/ cmdline_server_startup
  <2>1. pc = "startup" /\ pc' \in {"ready", "leaving", "start"}
    BY <1>2 DEF StartAlone, cmdline_server_startup
  <2>2. job.op # "put"
    BY <2>1 DEF PutInv, Putting
  <2>3. \/ job' = job \/ job' = NoJob \/ \E op \in {"getr", "startup"} : \E n, p, b :
              job' = [NoJob EXCEPT !.op = op, !.name = n, !.arg = p, !.base = b]
    BY <1>2 DEF StartAlone, cmdline_server_startup
  <2>4. job'.op # "put"
    BY <2>2, <2>3, NoJobFacts DEF Job
  <2>5. QED
    BY <2>1, <2>4, PutElsewhere DEF Putting
<1>3. CASE com_connect \/ com_disconnect \/ CdStart
  <2>1. pc' \notin Putting
    BY <1>3 DEF com_connect, com_disconnect, CdStart, Typed, Putting
  <2>2. job' = NoJob \/ \E l, p : job' = [NoJob EXCEPT !.op = "cd", !.start = l, !.arg = p]
    BY <1>3 DEF com_connect, com_disconnect, CdStart
  <2>3. job'.op # "put"
    BY <2>2, NoJobFacts DEF Job
  <2>4. QED
    BY <2>1, <2>3, PutElsewhere
<1>4. CASE Quit \/ Crash
  BY <1>4 DEF Quit, Crash, PutInv, Putting
<1>5. CASE ServerCloses
  BY <1>5 DEF ServerCloses, PutInv, PutState
<1>6. ASSUME NEW n \in Names, Command(n) PROVE PutInv'
  BY <1>6, CommandPuts
<1>7. ASSUME NEW ok \in BOOLEAN, Request(ok) PROVE PutInv'
  BY <1>7, RequestPuts
<1>8. CASE GetDirEntry
  <2>1. pc = "each" /\ pc' \in {"each", "ready", "list", "get"}
    BY <1>8 DEF GetDirEntry, EnterDir, LeaveDir
  <2>2. \/ job' = job \/ job' = [job EXCEPT !.excuses = @ \cup {"in_the_way"}]
        \/ \E p, d : job' = [job EXCEPT !.src = p, !.dst = d, !.off = 0]
    BY <1>8 DEF GetDirEntry, EnterDir, GetFile
  <2>3. job.op # "put" /\ job \in Job
    BY <2>1 DEF PutInv, Putting, Types, JobOK
  <2>4. job'.op # "put"
    BY <2>2, <2>3 DEF Job
  <2>5. QED
    BY <2>1, <2>4, PutElsewhere DEF Putting
<1>9. ASSUME NEW n \in Names, Other(Append(curdir, n)) PROVE PutInv'
  <2>1. pc' = pc /\ job' = [job EXCEPT !.excuses = @ \cup {"other"}]
    BY <1>9 DEF Other
  <2>2. job'.op = job.op /\ job'.excuses # {}
    BY <2>1 DEF Types, JobOK, Job
  <2>3. QED
    BY <2>1, <2>2 DEF PutInv
<1>10. QED
  BY <1>1, <1>2, <1>3, <1>4, <1>5, <1>6, <1>7, <1>8, <1>9 DEF Next

\* What put has sent is what the server has, before what is left of a longer file
\* that was there.
THEOREM PutSendsItAll == Spec => []PutIsWhole
<1>1. Init => PutInv
  BY NoJobFacts DEF Init, PutInv, Putting
<1>2. Spec => []PutInv
  BY <1>1, NextPuts, TypesHold, PTL DEF Spec
<1>3. Types /\ PutInv => PutIsWhole
  <2> SUFFICES ASSUME Types, PutInv, Undisturbed, job.op = "put", Has(local, job.base, "file")
               PROVE  LET data == local[job.base].data
                      IN /\ Has(remote, job.arg, "file")
                         /\ remote[job.arg].data =
                              data \o SubSeq(job.old, Len(data) + 1, Len(job.old))
    BY DEF PutIsWhole
  <2>1. PutState /\ pc = "ready"
    BY DEF Undisturbed, PutInv
  <2>2. local[job.base].data \in Seq(Nat)
    BY NodeFacts DEF Types, TreesOK, Has
  <2>3. QED
    BY <2>1, <2>2, MixedAll DEF PutState
<1>4. QED
  BY <1>2, <1>3, TypesHold, PTL

-----------------------------------------------------------------------------
(* get: one file *)

\* The file has been copied up to block k.
CopiedTo(k) ==
  /\ Has(remote, job.src, "file")
  /\ k <= Len(remote[job.src].data)
  /\ local[job.dst].data = SubSeq(remote[job.src].data, 1, k)

IsCopied == Has(remote, job.src, "file") /\ Has(local, job.dst, "file")
            /\ local[job.dst] = remote[job.src]

GetInv ==
  /\ job.op = "getr" => pc \in Fetching \cup {"start", "leaving", "ready", "ended"}
  /\ job.op = "get" => /\ pc \in Copying \cup {"close", "ready", "ended"}
                       /\ job.src = job.arg /\ job.dst = job.base
  /\ pc = "start" => job.base = Append(lcwd, job.name)
  /\ pc \in {"get", "attr", "open"} => job.off = 0
  /\ pc \in {"attr", "open"} => local[job.dst].data = <<>>
  /\ pc = "read" /\ job.excuses = {} => CopiedTo(job.off)
  /\ pc = "close" /\ job.excuses = {} => IsCopied
  /\ job.op = "get" /\ pc = "ready" /\ job.excuses = {} /\ Has(remote, job.arg, "file") =>
       IsCopied

LEMMA GetElsewhere ==
  ASSUME pc' \notin Copying \cup {"close", "start"}, job'.op # "get",
         job'.op = "getr" => pc' \in {"list", "each", "leaving", "ready", "ended"}
  PROVE  GetInv'
BY DEF GetInv, Copying, Fetching

\* What the steps of copying a file leave alone of the command
LEMMA CopyJob ==
  ASSUME Types, NEW ok \in BOOLEAN,
         GetCreate(ok) \/ RetrieveAttr(ok) \/ RetrieveOpen(ok) \/ RetrieveRead(ok)
           \/ RetrieveClose(ok)
  PROVE  /\ job \in Job /\ pc \in Copying \cup {"close"}
         /\ UNCHANGED <<remote, lcwd, curdir, frames>>
         /\ job'.op = job.op /\ job'.arg = job.arg /\ job'.base = job.base
         /\ job'.src = job.src /\ job'.dst = job.dst
         /\ job.excuses \subseteq job'.excuses
         /\ job'.excuses = {} /\ pc # "close" => ok
         /\ pc' \in {"attr", "open", "read", "close"} \/ pc' = AfterFile
<1>1. job \in Job
  BY DEF Types, JobOK
<1>2. /\ Excused(ok, "refused").op = job.op /\ Excused(ok, "refused").arg = job.arg
      /\ Excused(ok, "refused").base = job.base /\ Excused(ok, "refused").src = job.src
      /\ Excused(ok, "refused").dst = job.dst /\ Excused(ok, "refused").off = job.off
      /\ job.excuses \subseteq Excused(ok, "refused").excuses
      /\ ~ok => Excused(ok, "refused").excuses # {}
      /\ Excused(ok, "refused") \in Job
  <2>1. PICK e \in SUBSET Excuses : /\ Excused(ok, "refused") = [job EXCEPT !.excuses = e]
                                    /\ job.excuses \subseteq e /\ (~ok => e # {})
    <3>1. job.excuses \cup (IF ok THEN {} ELSE {"refused"}) \in SUBSET Excuses
      BY <1>1 DEF Job, Excuses
    <3>2. QED
      BY <3>1 DEF Excused
  <2>2. QED
    BY <1>1, <2>1 DEF Job
<1>3. UNCHANGED <<remote, lcwd, curdir, frames>>
  BY DEF GetCreate, RetrieveAttr, RetrieveOpen, RetrieveRead, RetrieveClose, place
<1>4. CASE GetCreate(ok)
  <2>1. PICK e : /\ job' = [Excused(ok, "refused") EXCEPT !.excuses = e]
                 /\ Excused(ok, "refused").excuses \subseteq e
    BY <1>4, ZenonT(40) DEF GetCreate
  <2>2. /\ job'.op = job.op /\ job'.arg = job.arg /\ job'.base = job.base
        /\ job'.src = job.src /\ job'.dst = job.dst /\ job'.excuses = e
    BY <1>2, <2>1 DEF Job
  <2>3. pc = "get" /\ (pc' = "attr" \/ pc' = AfterFile)
    BY <1>4 DEF GetCreate
  <2>4. QED
    BY <1>1, <1>2, <1>3, <2>1, <2>2, <2>3 DEF Copying
<1>5. CASE RetrieveRead(ok)
  <2>1. pc = "read" /\ pc' \in {"read", "close"}
        /\ (job' = Excused(ok, "refused") \/ (ok /\ \E k : job' = [job EXCEPT !.off = k]))
    BY <1>5 DEF RetrieveRead
  <2>2. QED
    BY <1>1, <1>2, <1>3, <2>1 DEF Job, Copying
<1>6. CASE RetrieveAttr(ok) \/ RetrieveOpen(ok)
  <2>1. pc \in {"attr", "open"} /\ (pc' \in {"open", "read"} \/ pc' = AfterFile)
        /\ job' = Excused(ok, "refused")
    BY <1>6 DEF RetrieveAttr, RetrieveOpen
  <2>2. QED
    BY <1>1, <1>2, <1>3, <2>1 DEF Copying
<1>7. CASE RetrieveClose(ok)
  <2>1. pc = "close" /\ pc' = AfterFile /\ job' = job
    BY <1>7 DEF RetrieveClose
  <2>2. QED
    BY <1>1, <1>3, <2>1
<1>8. QED
  BY <1>4, <1>5, <1>6, <1>7

\* The blocks of a sequence up to one of them
LEMMA BlocksUpTo ==
  ASSUME NEW d \in Seq(Nat)
  PROVE  /\ Len(d) \in Nat
         /\ SubSeq(d, 1, 0) = <<>> /\ SubSeq(d, 1, Len(d)) = d
         /\ \A k \in Nat : k < Len(d) => SubSeq(d, 1, k + 1) = Append(SubSeq(d, 1, k), d[k + 1])
<1>1. Len(d) \in Nat /\ \A i \in 1..Len(d) : d[i] \in Nat
  BY LenProperties, ElementOfSeq
<1>2. ASSUME NEW k \in Nat, k <= Len(d)
      PROVE  /\ SubSeq(d, 1, k) \in Seq(Nat) /\ Len(SubSeq(d, 1, k)) = k
             /\ \A i \in 1..k : SubSeq(d, 1, k)[i] = d[i]
  <2>1. \A i \in 1..k : d[i] \in Nat
    BY <1>1, <1>2
  <2>2. QED
    BY <1>2, <2>1, SubSeqProperties, Z3
<1>3. SubSeq(d, 1, 0) = <<>>
  <2>1. SubSeq(d, 1, 0) \in Seq(Nat) /\ Len(SubSeq(d, 1, 0)) = 0
    BY <1>1, <1>2
  <2>2. QED
    BY <2>1, EmptySeq
<1>4. SubSeq(d, 1, Len(d)) = d
  BY SubSeqFull
<1>5. ASSUME NEW k \in Nat, k < Len(d)
      PROVE  SubSeq(d, 1, k + 1) = Append(SubSeq(d, 1, k), d[k + 1])
  <2>1. PICK s \in Seq(Nat) : /\ s = SubSeq(d, 1, k) /\ Len(s) = k
                              /\ \A i \in 1..k : s[i] = d[i]
    <3>1. k <= Len(d)
      BY <1>1, <1>5
    <3>2. /\ SubSeq(d, 1, k) \in Seq(Nat) /\ Len(SubSeq(d, 1, k)) = k
          /\ \A i \in 1..k : SubSeq(d, 1, k)[i] = d[i]
      BY <1>2, <3>1
    <3>3. QED
      BY <3>2
  <2>2. PICK m \in Nat : m = k + 1 /\ m <= Len(d) /\ m \in 1..Len(d)
    BY <1>1, <1>5
  <2>3. PICK u \in Seq(Nat) : /\ u = SubSeq(d, 1, m) /\ Len(u) = m
                              /\ \A i \in 1..m : u[i] = d[i]
    BY <1>2, <2>2
  <2>4. PICK v \in Nat : v = d[m]
    BY <1>1, <2>2
  <2>5. /\ Append(s, v) \in Seq(Nat) /\ Len(Append(s, v)) = k + 1
        /\ Append(s, v)[k + 1] = v /\ \A i \in 1..k : Append(s, v)[i] = s[i]
    BY <2>1, AppendFacts
  <2>6. ASSUME NEW i \in 1..m PROVE u[i] = Append(s, v)[i]
    <3>1. CASE i = m
      BY <2>2, <2>3, <2>4, <2>5, <3>1
    <3>2. CASE i # m
      <4>1. i \in 1..k
        BY <2>2, <3>2
      <4>2. QED
        BY <2>1, <2>3, <2>5, <4>1
    <3>3. QED
      BY <3>1, <3>2
  <2>7. u = Append(s, v)
    BY <2>2, <2>3, <2>5, <2>6, SeqEqual
  <2>8. QED
    BY <2>1, <2>2, <2>3, <2>4, <2>7
<1>6. QED
  BY <1>1, <1>3, <1>4, <1>5

\* A file is created, or there is none to fetch.
LEMMA CreateGets ==
  ASSUME Types, GetInv, NEW ok \in BOOLEAN, GetCreate(ok)
  PROVE  /\ job'.excuses = {} =>
              \/ job.src \notin DOMAIN remote /\ pc' = AfterFile /\ local' = local
              \/ /\ pc' = "attr" /\ job'.off = 0 /\ ~Has(local, job.dst, "dir")
                 /\ local' = With(local, job.dst, File(<<>>))
                 /\ job.src \in DOMAIN remote
         /\ pc' = "attr" => job'.off = 0 /\ local'[job.dst].data = <<>>
         /\ pc' = "attr" \/ pc' = AfterFile
<1> DEFINE found == ok /\ job.src \in DOMAIN remote
           blocked == found /\ Has(local, job.dst, "dir")
<1>1. /\ pc = "get"
      /\ local' = IF found /\ ~blocked THEN With(local, job.dst, File(<<>>)) ELSE local
      /\ job' = [Excused(ok, "refused") EXCEPT
                   !.excuses = @ \cup (IF blocked THEN {"in_the_way"} ELSE {})]
      /\ pc' = IF found /\ ~blocked THEN "attr" ELSE AfterFile
  BY DEF GetCreate
<1>2. /\ job \in Job /\ job.dst \in Seq(LocalNames) /\ job.dst # <<>> /\ Front(job.dst) = lcwd
      /\ job.off = 0
  BY <1>1 DEF Types, JobOK, Job, Copying, GetInv
<1>3. job'.off = 0 /\ (job'.excuses = {} => ok /\ ~blocked)
  <2>1. PICK e \in SUBSET Excuses : /\ Excused(ok, "refused") = [job EXCEPT !.excuses = e]
                                    /\ ~ok => e # {}
    <3>1. job.excuses \cup (IF ok THEN {} ELSE {"refused"}) \in SUBSET Excuses
      BY <1>2 DEF Job, Excuses
    <3>2. QED
      BY <3>1 DEF Excused
  <2>2. PICK f : f = e \cup (IF blocked THEN {"in_the_way"} ELSE {})
    OBVIOUS
  <2>3. job' = [job EXCEPT !.excuses = f]
    BY <1>1, <1>2, <2>1, <2>2 DEF Job
  <2>4. job'.off = 0 /\ job'.excuses = f
    BY <1>2, <2>3 DEF Job
  <2>5. QED
    BY <2>1, <2>2, <2>4
<1>4. IsTree(local, LocalNames) /\ Has(local, lcwd, "dir")
  BY DEF Types, TreesOK
<1>5. ASSUME found, ~blocked
      PROVE  /\ local' = With(local, job.dst, File(<<>>)) /\ ~Has(local, job.dst, "dir")
             /\ local'[job.dst].data = <<>>
  <2>1. PICK f : f = File(<<>>) /\ f.data \in Seq(Nat) /\ f = File(f.data) /\ f.data = <<>>
    BY EmptySeq, NewFile
  <2>2. local' = With(local, job.dst, f) /\ ~Has(local, job.dst, "dir")
    BY <1>1, <1>5, <2>1
  <2>3. With(local, job.dst, f)[job.dst] = f
    BY <1>2, <1>4, <2>1, <2>2, WithFacts
  <2>4. QED
    BY <2>1, <2>2, <2>3
<1>6. pc' = "attr" <=> found /\ ~blocked
  BY <1>1, AfterFileFacts
<1>7. QED
  <2>1. CASE found /\ ~blocked
    BY <1>3, <1>5, <1>6, <2>1
  <2>2. CASE ~(found /\ ~blocked)
    <3>1. pc' = AfterFile /\ local' = local /\ pc' # "attr"
      BY <1>1, <1>6, <2>2
    <3>2. job'.excuses = {} => job.src \notin DOMAIN remote
      BY <1>3, <2>2
    <3>3. QED
      BY <3>1, <3>2
  <2>3. QED
    BY <2>1, <2>2

\* A block is read, or the end is seen.
LEMMA ReadGets ==
  ASSUME Types, GetInv, NEW ok \in BOOLEAN, RetrieveRead(ok), job'.excuses = {}
  PROVE  /\ pc' = "read" => CopiedTo(job.off)' /\ Has(local', job.dst, "file")
         /\ pc' = "close" => IsCopied'
         /\ Has(remote, job.src, "file") /\ Has(local, job.dst, "file")
         /\ DOMAIN local' = DOMAIN local
         /\ \A q \in DOMAIN local \ {job.dst} : local'[q] = local[q]
         /\ pc' \in {"read", "close"}
<1>1. /\ ok /\ job.excuses = {} /\ job \in Job /\ pc = "read"
      /\ remote' = remote /\ job'.src = job.src /\ job'.dst = job.dst
  BY CopyJob DEF RetrieveRead
<1>2. PICK d : d = remote[job.src].data
  OBVIOUS
<1>3. PICK k \in Nat : k = job.off
  BY <1>1 DEF Job
<1>4. /\ Has(remote, job.src, "file") /\ k <= Len(d)
      /\ local[job.dst].data = SubSeq(d, 1, k) /\ Has(local, job.dst, "file")
  BY <1>1, <1>2, <1>3 DEF GetInv, CopiedTo, Types, JobOK
<1>5. /\ local' = IF k + 1 <= Len(d)
                  THEN [local EXCEPT ![job.dst].data = Append(@, d[k + 1])] ELSE local
      /\ job' = IF k + 1 <= Len(d) THEN [job EXCEPT !.off = k + 1] ELSE Excused(ok, "refused")
      /\ pc' = IF k + 1 <= Len(d) /\ ~(k + 1 >= Len(d)) THEN "read" ELSE "close"
  BY <1>1, <1>2, <1>3, <1>4 DEF RetrieveRead, Eof
<1>6. IsTree(remote, Names) /\ IsTree(local, LocalNames)
  BY DEF Types, TreesOK
<1>7. d \in Seq(Nat) /\ Len(d) \in Nat /\ job.src \in DOMAIN remote /\ remote[job.src] = File(d)
  <2>1. job.src \in DOMAIN remote /\ remote[job.src].kind = "file"
    BY <1>4 DEF Has
  <2>2. remote[job.src].data \in Seq(Nat) /\ remote[job.src] = File(remote[job.src].data)
    BY <1>6, <2>1, NodeFacts
  <2>3. QED
    BY <1>2, <2>1, <2>2, LenProperties
<1>8. job.dst \in DOMAIN local /\ \E x : local[job.dst] = [kind |-> "file", data |-> x]
  <2>1. job.dst \in DOMAIN local /\ local[job.dst].kind = "file"
    BY <1>4 DEF Has
  <2>2. local[job.dst] = File(local[job.dst].data)
    BY <1>6, <2>1, NodeFacts
  <2>3. QED
    BY <2>1, <2>2 DEF File
<1>9. CASE k + 1 <= Len(d)
  <2>1. PICK m \in Nat : m = k + 1 /\ m <= Len(d)
    BY <1>9
  <2>2. SubSeq(d, 1, m) = Append(SubSeq(d, 1, k), d[m])
    <3>1. k < Len(d)
      BY <1>7, <1>9
    <3>2. QED
      BY <1>7, <2>1, <3>1, BlocksUpTo
  <2>3. PICK x : x = SubSeq(d, 1, m)
    OBVIOUS
  <2>4. local' = [local EXCEPT ![job.dst].data = x]
    <3>1. local' = [local EXCEPT ![job.dst].data = Append(local[job.dst].data, d[m])]
      BY <1>5, <1>8, <1>9, <2>1
    <3>2. QED
      BY <1>4, <2>2, <2>3, <3>1
  <2>5. /\ local'[job.dst] = File(x) /\ DOMAIN local' = DOMAIN local
        /\ \A q \in DOMAIN local \ {job.dst} : local'[q] = local[q]
    BY <1>8, <2>4 DEF File
  <2>6. Has(local', job.dst, "file") /\ local'[job.dst].data = x
    BY <1>8, <2>5 DEF Has, File
  <2>7. job'.off = m
    BY <1>1, <1>5, <1>9, <2>1 DEF Job
  <2>8. CopiedTo(job.off)'
    BY <1>1, <1>2, <1>4, <2>1, <2>3, <2>6, <2>7 DEF CopiedTo
  <2>9. ASSUME pc' = "close" PROVE IsCopied'
    <3>1. m = Len(d)
      BY <1>5, <1>7, <1>9, <2>1, <2>9
    <3>2. x = d
      BY <1>7, <2>3, <3>1, BlocksUpTo
    <3>3. QED
      BY <1>1, <1>4, <1>7, <2>5, <2>6, <3>2 DEF IsCopied
  <2>10. QED
    BY <1>4, <1>5, <2>5, <2>6, <2>8, <2>9
<1>10. CASE ~(k + 1 <= Len(d))
  <2>1. k = Len(d) /\ pc' = "close" /\ local' = local
    BY <1>4, <1>5, <1>7, <1>10
  <2>2. local[job.dst].data = d
    BY <1>4, <1>7, <2>1, BlocksUpTo
  <2>3. local[job.dst] = File(d)
    BY <1>8, <2>2 DEF File
  <2>4. IsCopied'
    BY <1>1, <1>4, <1>7, <2>1, <2>3 DEF IsCopied
  <2>5. QED
    BY <1>4, <2>1, <2>4
<1>11. QED
  BY <1>9, <1>10

LEMMA CopyGets ==
  ASSUME Types, HomeInv, GetInv, NEW ok \in BOOLEAN,
         GetCreate(ok) \/ RetrieveAttr(ok) \/ RetrieveOpen(ok) \/ RetrieveRead(ok)
           \/ RetrieveClose(ok)
  PROVE  GetInv'
<1>1. /\ job \in Job /\ pc \in Copying \cup {"close"} /\ UNCHANGED <<remote, lcwd, frames>>
      /\ job'.op = job.op /\ job'.arg = job.arg /\ job'.base = job.base
      /\ job'.src = job.src /\ job'.dst = job.dst /\ job.excuses \subseteq job'.excuses
      /\ job'.excuses = {} /\ pc # "close" => ok
      /\ pc' \in {"attr", "open", "read", "close"} \/ pc' = AfterFile
  BY CopyJob
<1>2. AfterFile \in {"each", "leaving", "ready"}
  BY AfterFileFacts
\* The next call of get_dir() goes on only after a file of a directory.
<1>3. /\ job.op = "getr" => pc' \in Fetching \cup {"leaving", "ready"}
      /\ job.op = "get" => /\ pc' \in Copying \cup {"close", "ready"}
                           /\ job'.src = job'.arg /\ job'.dst = job'.base
  <2>1. job.op = "get" => frames = <<>> /\ AfterFile = "ready"
    BY DEF HomeInv, AfterFile
  <2>2. QED
    BY <1>1, <1>2, <2>1 DEF GetInv, Copying, Fetching
<1>4. CASE GetCreate(ok)
  <2>1. pc' \notin {"start", "get", "open", "read", "close"}
    BY <1>2, <1>4 DEF GetCreate
  <2>2. pc' = "attr" => job'.off = 0 /\ local'[job.dst].data = <<>>
    BY <1>4, CreateGets
  <2>3. pc' = "ready" /\ job'.excuses = {} => ~Has(remote, job.src, "file")
    BY <1>4, CreateGets DEF Has
  <2>4. QED
    BY <1>1, <1>3, <2>1, <2>2, <2>3 DEF GetInv
<1>5. CASE RetrieveAttr(ok) \/ RetrieveOpen(ok)
  <2>1. /\ pc \in {"attr", "open"} /\ local' = local /\ job' = Excused(ok, "refused")
        /\ pc' = "open" \/ (pc' = "read" /\ ok /\ Has(remote, job.src, "file")) \/ pc' = AfterFile
        /\ pc' = AfterFile => ~ok \/ ~Has(remote, job.src, "file")
    BY <1>2, <1>5 DEF RetrieveAttr, RetrieveOpen, Has
  <2>2. job'.off = job.off /\ job.off = 0 /\ local[job.dst].data = <<>>
    BY <1>1, <2>1 DEF Excused, Job, GetInv
  <2>3. ASSUME pc' = "read" PROVE CopiedTo(job.off)'
    <3>1. Has(remote, job.src, "file")
      BY <1>2, <2>1, <2>3
    <3>2. remote[job.src].data \in Seq(Nat)
      BY <3>1, NodeFacts DEF Has, Types, TreesOK
    <3>3. /\ 0 <= Len(remote[job.src].data)
          /\ SubSeq(remote[job.src].data, 1, 0) = <<>>
      BY <3>2, BlocksUpTo
    <3>4. QED
      BY <1>1, <2>1, <2>2, <3>1, <3>3 DEF CopiedTo
  <2>4. pc' = "ready" /\ job'.excuses = {} => ~Has(remote, job.src, "file")
    BY <1>1, <2>1
  <2>5. pc' \notin {"start", "get", "attr", "close"}
    BY <1>2, <2>1
  <2>6. QED
    BY <1>1, <1>3, <2>1, <2>2, <2>3, <2>4, <2>5 DEF GetInv
<1>6. CASE RetrieveRead(ok)
  <2>1. pc' \in {"read", "close"}
    BY <1>6 DEF RetrieveRead
  <2>2. job'.excuses = {} => /\ pc' = "read" => CopiedTo(job.off)'
                             /\ pc' = "close" => IsCopied'
    BY <1>6, ReadGets
  <2>3. QED
    BY <1>1, <1>3, <2>1, <2>2 DEF GetInv
<1>7. CASE RetrieveClose(ok)
  <2>1. pc = "close" /\ pc' = AfterFile /\ UNCHANGED <<local, job>>
    BY <1>7 DEF RetrieveClose
  <2>2. job.excuses = {} => IsCopied
    BY <2>1 DEF GetInv
  <2>3. QED
    BY <1>1, <1>2, <1>3, <2>1, <2>2 DEF GetInv, IsCopied
<1>8. QED
  BY <1>4, <1>5, <1>6, <1>7 DEF Copying

LEMMA RequestGets ==
  ASSUME Types, HomeInv, GetInv, NEW ok \in BOOLEAN, Request(ok)
  PROVE  GetInv'
<1>1. job \in Job
  BY DEF Types, JobOK
<1>2. \A why \in Excuses : Excused(ok, why).op = job.op
  BY <1>1 DEF Excused, Job
<1>3. CASE StartPath(ok)
  <2>1. PICK m \in Names, b \in Seq(LocalNames) : m = Unquoted[job.name] /\ b = Append(lcwd, m)
    <3>1. job.name \in Names
      BY <1>3 DEF StartPath, Types, JobOK
    <3>2. QED
      BY <3>1, PathFacts, ShellConstants
  <2>2. /\ pc = "start"
        /\ \/ pc' \in {"leaving", "ready"} /\ job' = job
           \/ pc' = "list" /\ job.op = "getr" /\ EnterDir(<<>>, job, job.arg, job.name)
           \/ pc' = "get" /\
              job' = GetFile([job EXCEPT !.op = "startup", !.base = b, !.arg = <<m>>], m, <<m>>)
    BY <1>3, <2>1 DEF StartPath, EnterDir
  <2>3. job.op \in {"getr", "startup"}
    BY <2>2 DEF Types, JobOK
  <2>4. CASE pc' \in {"leaving", "ready"} /\ job' = job
    BY <2>3, <2>4, GetElsewhere DEF Copying
  <2>5. CASE pc' = "list" /\ job.op = "getr" /\ EnterDir(<<>>, job, job.arg, job.name)
    <3>1. job'.op = "getr"
      BY <1>1, <2>5 DEF EnterDir, Job
    <3>2. QED
      BY <2>5, <3>1, GetElsewhere DEF Copying
  <2>6. CASE /\ pc' = "get"
             /\ job' = GetFile([job EXCEPT !.op = "startup", !.base = b, !.arg = <<m>>], m, <<m>>)
    <3>1. job'.op = "startup" /\ job'.off = 0
      BY <1>1, <2>6 DEF GetFile, Job
    <3>2. QED
      BY <2>6, <3>1 DEF GetInv
  <2>7. QED
    BY <2>2, <2>4, <2>5, <2>6
<1>4. CASE GetDirList(ok)
  <2>1. pc = "list" /\ job' = Excused(ok, "refused") /\ pc' \in {"each", "ready", "list"}
    BY <1>4, ListFacts DEF LeaveDir, MoreListed
  <2>2. job.op = "getr"
    BY <2>1 DEF Types, FramesOK, HomeInv
  <2>3. job'.op = "getr"
    BY <1>2, <2>1, <2>2 DEF Excuses
  <2>4. QED
    BY <2>1, <2>3, GetElsewhere DEF Copying
<1>5. CASE /\ pc \in {"simple", "cd"} \cup Moving \cup Putting
           /\ job'.op = job.op /\ pc' \notin Copying \cup {"close", "start"}
  <2>1. job.op \notin {"get", "getr"}
    BY <1>5 DEF GetInv, Moving, Putting, Fetching, Copying
  <2>2. QED
    BY <1>5, <2>1, GetElsewhere
<1>6. CASE Simple(ok) \/ CdLookup(ok)
  BY <1>5, <1>6 DEF Simple, CdLookup, Copying
<1>7. CASE RenameFrom(ok) \/ RenameTo(ok)
  BY <1>2, <1>5, <1>7 DEF RenameFrom, RenameTo, Excuses, Copying, Moving
<1>8. CASE RenameMove(ok)
  BY <1>1, <1>5, <1>8 DEF RenameMove, Excused, Job, Copying, Moving
<1>9. CASE PutOpen(ok)
  BY <1>1, <1>5, <1>9 DEF PutOpen, Excused, Job, Copying, Putting
<1>10. CASE PutWrite(ok)
  BY <1>1, <1>5, <1>10 DEF PutWrite, Excused, Job, Copying, Putting
<1>11. CASE PutChmod(ok) \/ PutClose(ok)
  BY <1>5, <1>11 DEF PutChmod, PutClose, Copying, Putting
<1>12. QED
  BY <1>3, <1>4, <1>6, <1>7, <1>8, <1>9, <1>10, <1>11, CopyGets DEF Request

LEMMA CommandGets ==
  ASSUME Types, NEW n \in Names, Command(n)
  PROVE  GetInv'
<1>1. NoJob.op = "none" /\ NoJob \in Job
  BY NoJobFacts
<1>2. ASSUME NEW op \in Ops, SimpleStart(op, n) PROVE GetInv'
  BY <1>2, GetElsewhere DEF SimpleStart, NoJob, Copying
<1>3. ASSUME NEW m \in Names, com_rename(n, m) PROVE GetInv'
  BY <1>3, GetElsewhere DEF com_rename, NoJob, Copying
<1>4. CASE com_put(n) \/ com_view(n)
  BY <1>4, GetElsewhere DEF com_put, com_view, NoJob, Copying
<1>5. CASE com_get(n)
  <2>1. pc' = "get" /\ job'.op = "get" /\ job'.off = 0
    BY <1>5 DEF com_get, GetFile, NoJob
  <2>2. job'.src = job'.arg /\ job'.dst = job'.base
    BY <1>5 DEF com_get, GetFile, NoJob
  <2>3. QED
    BY <2>1, <2>2 DEF GetInv, Copying
<1>6. CASE com_get_r(n)
  <2>1. pc' = "list" /\ job'.op = "getr"
    BY <1>6 DEF com_get_r, EnterDir, NoJob
  <2>2. QED
    BY <2>1, GetElsewhere DEF Copying
<1>7. QED
  BY <1>2, <1>3, <1>4, <1>5, <1>6 DEF Command

LEMMA NextGets == Types /\ HomeInv /\ GetInv /\ [Next]_vars => GetInv'
<1> SUFFICES ASSUME Types, HomeInv, GetInv, [Next]_vars PROVE GetInv'
  OBVIOUS
<1>1. CASE UNCHANGED vars
  BY <1>1 DEF vars, GetInv, CopiedTo, IsCopied
<1>2. CASE StartAlone \/ cmdline_server_startup
  <2>1. /\ pc = "startup" /\ lcwd' = lcwd
        /\ \/ pc' \in {"ready", "leaving"} /\ (job' = job \/ job' = NoJob)
           \/ pc' = "start" /\ \E op \in {"getr", "startup"}, n \in Names :
                job' = [NoJob EXCEPT !.op = op, !.name = n, !.arg = <<n>>, !.base = Append(lcwd, n)]
    BY <1>2 DEF StartAlone, cmdline_server_startup, place
  <2>2. job.op \notin {"get", "getr"}
    BY <2>1 DEF GetInv, Copying, Fetching
  <2>3. CASE pc' \in {"ready", "leaving"} /\ (job' = job \/ job' = NoJob)
    BY <2>2, <2>3, NoJobFacts, GetElsewhere DEF Copying
  <2>4. CASE pc' = "start" /\ \E op \in {"getr", "startup"}, n \in Names :
          job' = [NoJob EXCEPT !.op = op, !.name = n, !.arg = <<n>>, !.base = Append(lcwd, n)]
    <3>1. job'.op \in {"getr", "startup"} /\ job'.base = Append(lcwd, job'.name)
      BY <2>4, NoJobFacts DEF Job
    <3>2. QED
      BY <2>1, <2>4, <3>1 DEF GetInv, Copying
  <2>5. QED
    BY <2>1, <2>3, <2>4
<1>3. CASE com_connect \/ com_disconnect \/ CdStart
  <2>1. pc' \in {"ready", "ended", "cd"}
    BY <1>3 DEF com_connect, com_disconnect, CdStart, Typed
  <2>2. job' = NoJob \/ \E l, p : job' = [NoJob EXCEPT !.op = "cd", !.start = l, !.arg = p]
    BY <1>3 DEF com_connect, com_disconnect, CdStart
  <2>3. job'.op \notin {"get", "getr"}
    BY <2>2, NoJobFacts DEF Job
  <2>4. QED
    BY <2>1, <2>3, GetElsewhere DEF Copying
<1>4. CASE Quit \/ Crash
  <2>1. pc' = "ended" /\ job' = job
    BY <1>4 DEF Quit, Crash
  <2>2. QED
    BY <2>1 DEF GetInv, Copying
<1>5. CASE ServerCloses
  BY <1>5 DEF ServerCloses, GetInv, CopiedTo, IsCopied, place
<1>6. ASSUME NEW n \in Names, Command(n) PROVE GetInv'
  BY <1>6, CommandGets
<1>7. ASSUME NEW ok \in BOOLEAN, Request(ok) PROVE GetInv'
  BY <1>7, RequestGets
<1>8. CASE GetDirEntry
  <2>1. /\ pc = "each" /\ pc' \in {"each", "ready", "list", "get"}
        /\ \/ pc' # "get" /\ (job' = job \/ job' = [job EXCEPT !.excuses = @ \cup {"in_the_way"}])
           \/ \E p, d : job' = [job EXCEPT !.src = p, !.dst = d, !.off = 0]
    BY <1>8 DEF GetDirEntry, EnterDir, LeaveDir, GetFile
  <2>2. job.op = "getr" /\ job \in Job
    BY <2>1 DEF Types, JobOK, FramesOK, HomeInv
  <2>3. job'.op = "getr" /\ (pc' = "get" => job'.off = 0)
    BY <2>1, <2>2 DEF Job
  <2>4. QED
    BY <2>1, <2>3 DEF GetInv, Fetching, Copying
<1>9. ASSUME NEW n \in Names, Other(Append(curdir, n)) PROVE GetInv'
  <2>1. /\ UNCHANGED <<local, lcwd, pc>> /\ pc \notin {"ready", "ended"}
        /\ job' = [job EXCEPT !.excuses = @ \cup {"other"}]
    BY <1>9 DEF Other, place, Requests
  <2>2. /\ job'.op = job.op /\ job'.src = job.src /\ job'.dst = job.dst /\ job'.arg = job.arg
        /\ job'.base = job.base /\ job'.off = job.off /\ job'.name = job.name
        /\ job'.excuses # {}
    BY <2>1 DEF Types, JobOK, Job
  <2>3. QED
    BY <2>1, <2>2 DEF GetInv
<1>10. QED
  BY <1>1, <1>2, <1>3, <1>4, <1>5, <1>6, <1>7, <1>8, <1>9 DEF Next

-----------------------------------------------------------------------------
(* get -r: what is copied, and what is still to come *)

\* Where a path below the argument of the command goes, whether it is there, and
\* whether get -r is to bring it there
Copy(p) == job.base \o Rest(job.arg, p)
Copied(p) == Copy(p) \in DOMAIN local /\ local[Copy(p)] = remote[p]
Due(p) == IsPrefix(job.arg, p) /\ (remote[p].kind = "dir" \/ Plain(Last(p)))

\* A path is waited for as, or below, an entry that has been listed, an entry that will
\* be listed, or the file being fetched.
InList(fs, p) == \E i \in DOMAIN fs : \E k \in DOMAIN fs[i].todo :
                   IsPrefix(Append(fs[i].dir, fs[i].todo[k][1]), p)
Unlisted(p) ==
  /\ pc = "list"
  /\ \E s \in Listed(remote, Last(frames).dir) :
       /\ Ordinal(Listed(remote, Last(frames).dir), s) > Last(frames).index
       /\ IsPrefix(Append(Last(frames).dir, Order[s]), p)
InHand(p) == pc \in Copying /\ p = job.src /\ Has(remote, p, "file")

\* Each call of get_dir() is in a directory of the one before, and what it has listed
\* is there.
Chained(fs, top) ==
  /\ \A i \in DOMAIN fs : Has(remote, fs[i].dir, "dir") /\ IsPrefix(top, fs[i].dir)
  /\ \A i \in DOMAIN fs : i > 1 => fs[i].dir # <<>> /\ Front(fs[i].dir) = fs[i - 1].dir
  /\ \A i \in DOMAIN fs : \A k \in DOMAIN fs[i].todo :
       Has(remote, Append(fs[i].dir, fs[i].todo[k][1]), fs[i].todo[k][2])
  /\ fs # <<>> => fs[1].dir = top

\* The last one is where the copy of its directory is, and copies its files there.
InPlace ==
  /\ frames = <<>> => pc = "ready"
  /\ frames # <<>> => lcwd = Copy(Last(frames).dir)
  /\ frames # <<>> /\ pc \in Copying \cup {"close"} =>
       job.src # <<>> /\ Front(job.src) = Last(frames).dir /\ job.dst = Append(lcwd, Last(job.src))

Complete ==
  \A p \in DOMAIN remote : Due(p) => Copied(p) \/ InList(frames, p) \/ Unlisted(p) \/ InHand(p)

\* get -r, as long as nothing has gone wrong
Fetched == job.op = "getr" /\ job.excuses = {} /\ Has(remote, job.arg, "dir")
           /\ pc \in Fetching \cup {"ready"}

WalkInv == Fetched => InPlace /\ Chained(frames, job.arg) /\ Complete

LEMMA OrdinalFacts ==
  ASSUME NEW t, NEW d, NEW s \in Listed(t, d)
  PROVE  /\ Ordinal(Listed(t, d), s) \in Nat /\ Ordinal(Listed(t, d), s) > 0
         /\ Ordinal(Listed(t, d), s) <= Cardinality(Listed(t, d))
         /\ \A u \in Listed(t, d) : Ordinal(Listed(t, d), u) = Ordinal(Listed(t, d), s) => u = s
<1>1. PICK L : L = Listed(t, d)
  OBVIOUS
<1>2. IsFiniteSet(L) /\ L \subseteq Nat /\ s \in L /\ Cardinality(L) \in Nat
  <2>1. DOMAIN Order = 1..Len(Order) /\ Len(Order) \in Nat
    BY ShellConstants, LenProperties
  <2>2. IsFiniteSet(L) /\ L \subseteq DOMAIN Order /\ Cardinality(L) \in Nat
    BY <1>1, SizeFacts, 0 \in Nat
  <2>3. QED
    BY <1>1, <2>1, <2>2
<1> DEFINE B(i) == {j \in L : j <= i}
<1>3. ASSUME NEW i \in L
      PROVE  /\ IsFiniteSet(B(i)) /\ Cardinality(B(i)) \in Nat /\ Cardinality(B(i)) > 0
             /\ Cardinality(B(i)) <= Cardinality(L)
  <2>1. B(i) \in SUBSET L /\ i \in B(i)
    BY <1>2
  <2> HIDE DEF B
  <2>2. IsFiniteSet(B(i)) /\ Cardinality(B(i)) <= Cardinality(L)
    BY <1>2, <2>1, FS_Subset
  <2>3. Cardinality(B(i)) \in Nat /\ Cardinality(B(i)) # 0
    BY <2>1, <2>2, FS_CardinalityType, FS_EmptySet
  <2>4. QED
    BY <2>2, <2>3
<1>4. ASSUME NEW i \in L, NEW j \in L, i < j
      PROVE  Cardinality(B(i)) # Cardinality(B(j))
  <2>0. i \in Nat /\ j \in Nat /\ \A k \in L : k \in Nat
    BY <1>2
  <2>1. B(i) \in SUBSET B(j) /\ j \in B(j) /\ j \notin B(i)
    <3>1. \A k \in L : k <= i => k <= j
      BY <1>4, <2>0
    <3>2. j <= j /\ ~(j <= i)
      BY <1>4, <2>0
    <3>3. QED
      BY <3>1, <3>2
  <2>2. IsFiniteSet(B(j))
    BY <1>3
  <2> HIDE DEF B
  <2>3. Cardinality(B(j)) = Cardinality(B(i)) => B(j) = B(i)
    BY <2>1, <2>2, FS_Subset
  <2>4. QED
    BY <2>1, <2>3
<1>5. \A i : Ordinal(L, i) = Cardinality(B(i))
  BY DEF Ordinal
<1> HIDE DEF B
<1>6. ASSUME NEW u \in L, Ordinal(L, u) = Ordinal(L, s) PROVE u = s
  <2>1. ~(u < s) /\ ~(s < u)
    BY <1>2, <1>4, <1>5, <1>6
  <2>2. QED
    BY <1>2, <2>1
<1>7. QED
  BY <1>1, <1>2, <1>3, <1>5, <1>6

LEMMA CopyBack ==
  ASSUME NEW a \in Seq(Names), NEW b \in Seq(LocalNames), NEW p \in Seq(Names), IsPrefix(a, p)
  PROVE  a \o Rest(b, b \o Rest(a, p)) = p
<1>1. a \in Seq(LocalNames) /\ p \in Seq(LocalNames)
  BY LocalPath
<1>2. QED
  BY <1>1, MovedPath, SMTT(30)

\* Where paths below a go when a goes to b
LEMMA CopyFacts ==
  ASSUME NEW a \in Seq(Names), NEW b \in Seq(LocalNames), NEW p \in Seq(Names), IsPrefix(a, p)
  PROVE  /\ b \o Rest(a, p) \in Seq(LocalNames)
         /\ p = a => b \o Rest(a, p) = b
         /\ \A q \in Seq(Names) : IsPrefix(a, q) /\ b \o Rest(a, q) = b \o Rest(a, p) => q = p
         /\ \A n \in Names : b \o Rest(a, Append(p, n)) = Append(b \o Rest(a, p), n)
         /\ p # a => /\ p # <<>> /\ IsPrefix(a, Front(p))
                     /\ Front(b \o Rest(a, p)) = b \o Rest(a, Front(p))
                     /\ b \o Rest(a, p) # <<>>
<1>1. a \in Seq(LocalNames) /\ p \in Seq(LocalNames)
  BY LocalPath
<1>2. /\ b \o Rest(a, p) \in Seq(LocalNames)
      /\ p = a => b \o Rest(a, p) = b
      /\ a \o Rest(b, b \o Rest(a, p)) = p
  <2>1. b \o Rest(a, p) \in Seq(LocalNames)
    BY <1>1, MovedPath
  <2>2. p = a => b \o Rest(a, p) = b
    BY <1>1, MovedPath
  <2>3. a \o Rest(b, b \o Rest(a, p)) = p
    BY CopyBack
  <2>4. QED
    BY <2>1, <2>2, <2>3
<1>3. ASSUME NEW q \in Seq(Names), IsPrefix(a, q)
      PROVE  a \o Rest(b, b \o Rest(a, q)) = q
  BY <1>3, CopyBack
<1>4. ASSUME NEW q \in Seq(Names), IsPrefix(a, q), b \o Rest(a, q) = b \o Rest(a, p) PROVE q = p
  BY <1>2, <1>3, <1>4, Zenon
<1>5. ASSUME NEW n \in Names PROVE b \o Rest(a, Append(p, n)) = Append(b \o Rest(a, p), n)
  <2>1. n \in LocalNames
    BY NamesAreLocal
  <2>2. QED
    BY <1>1, <2>1, MovedEntry
<1>6. ASSUME p # a
      PROVE  /\ p # <<>> /\ IsPrefix(a, Front(p))
             /\ Front(b \o Rest(a, p)) = b \o Rest(a, Front(p))
             /\ b \o Rest(a, p) # <<>>
  BY <1>1, <1>6, MovedFront
<1>7. QED
  BY <1>2, <1>5, <1>6, <1>4

\* What is in a directory that is there has been listed, or is after what has been.
LEMMA BelowIsListed ==
  ASSUME Types, NEW p \in Seq(Names), NEW q \in DOMAIN remote, IsPrefix(p, q), q # p
  PROVE  \E s \in Listed(remote, p) : IsPrefix(Append(p, Order[s]), q)
<1>1. IsTree(remote, Names) /\ q \in Seq(Names)
  BY DEF Types, TreesOK, IsTree
<1>2. PICK m \in Names : IsPrefix(Append(p, m), q)
  BY <1>1, NextName
<1>3. Append(p, m) \in Seq(Names)
  BY AppendFacts
<1>4. Append(p, m) \in DOMAIN remote
  BY <1>1, <1>2, <1>3, AncestorsAreDirs
<1>5. PICK s \in DOMAIN Order : Order[s] = m
  BY DEF Names, Range
<1>6. QED
  BY <1>2, <1>4, <1>5 DEF Listed

\* A directory is made and entered.
LEMMA EnterWalks ==
  ASSUME Types, NEW fs \in Seq(Frame), NEW j \in Job, NEW p \in Seq(Names), NEW n \in Names,
         EnterDir(fs, j, p, n), remote' = remote, Has(remote, p, "dir"), job'.excuses = {},
         IsPrefix(j.arg, p), Append(lcwd, n) = j.base \o Rest(j.arg, p),
         Chained(fs, j.arg),
         IF fs = <<>> THEN p = j.arg ELSE p # <<>> /\ Front(p) = Last(fs).dir,
         \A q \in DOMAIN remote :
           IsPrefix(j.arg, q) /\ (remote[q].kind = "dir" \/ Plain(Last(q))) =>
             (j = job /\ Copied(q)) \/ InList(fs, q) \/ IsPrefix(p, q)
  PROVE  InPlace' /\ Chained(frames, job.arg)' /\ Complete'
<1>1. PICK new \in Frame : new = [dir |-> p, todo |-> <<>>, index |-> 0]
  BY EmptySeq DEF Frame
<1>2. PICK here \in Seq(LocalNames) : here = Append(lcwd, n) /\ here # <<>> /\ Front(here) = lcwd
  BY PathFacts
<1>3. /\ pc' = "list" /\ frames' \in Seq(Frame) /\ frames' # <<>> /\ Len(frames') = Len(fs) + 1
      /\ \A i \in 1..Len(fs) : frames'[i] = fs[i]
      /\ frames'[Len(fs) + 1] = new /\ Last(frames') = new
      /\ job' = j /\ lcwd' = here /\ ~Has(local, here, "file")
  BY <1>1, <1>2, EnterFacts
<1>4. IsTree(remote, Names) /\ IsTree(local, LocalNames) /\ Has(local, lcwd, "dir")
  BY DEF Types, TreesOK
<1>5. /\ here \in DOMAIN local' /\ local'[here] = Dir
      /\ \A x \in DOMAIN local : x \in DOMAIN local' /\ local'[x] = local[x]
  <2>1. local' = IF here \in DOMAIN local THEN local ELSE With(local, here, Dir)
    BY <1>2 DEF EnterDir
  <2>2. CASE here \in DOMAIN local
    <3>1. local[here] = Dir
      BY <1>3, <1>4, <2>2, NodeFacts DEF Has
    <3>2. QED
      BY <2>1, <2>2, <3>1
  <2>3. CASE here \notin DOMAIN local
    <3>1. ~Has(local, here, "dir")
      BY <2>3 DEF Has
    <3>2. PICK d : d = Dir
      OBVIOUS
    <3>3. /\ DOMAIN local \subseteq DOMAIN With(local, here, d)
          /\ \A x \in DOMAIN local \ {here} : With(local, here, d)[x] = local[x]
      BY <1>4, <3>1, <3>2, WithFacts
    <3>4. here \in DOMAIN With(local, here, d) /\ With(local, here, d)[here] = d
      BY <1>2, <1>4 DEF With
    <3>5. QED
      BY <2>1, <2>3, <3>2, <3>3, <3>4
  <2>4. QED
    BY <2>2, <2>3
<1>6. j.arg \in Seq(Names) /\ j.base \in Seq(LocalNames)
  BY DEF Job
<1>7. DOMAIN frames' = 1..(Len(fs) + 1) /\ DOMAIN fs = 1..Len(fs) /\ Len(fs) \in Nat
  BY <1>3, LenProperties
<1>8. InPlace'
  <2>1. new.dir = p
    BY <1>1
  <2>2. lcwd' = Copy(Last(frames).dir)'
    BY <1>2, <1>3, <2>1 DEF Copy
  <2>3. QED
    BY <1>3, <2>2 DEF InPlace, Copying
<1>9. Chained(frames, job.arg)'
  <2>1. ASSUME NEW i \in DOMAIN frames'
        PROVE  (i \in DOMAIN fs /\ frames'[i] = fs[i]) \/ (i = Len(fs) + 1 /\ frames'[i] = new)
    BY <1>3, <1>7
  <2>2. new.dir = p /\ DOMAIN new.todo = {}
    BY <1>1
  <2>3. ASSUME NEW i \in DOMAIN frames'
        PROVE  /\ Has(remote, frames'[i].dir, "dir") /\ IsPrefix(j.arg, frames'[i].dir)
               /\ \A k \in DOMAIN frames'[i].todo :
                    Has(remote, Append(frames'[i].dir, frames'[i].todo[k][1]),
                        frames'[i].todo[k][2])
    <3>1. CASE i \in DOMAIN fs /\ frames'[i] = fs[i]
      BY <3>1 DEF Chained
    <3>2. CASE frames'[i] = new
      BY <2>2, <3>2
    <3>3. QED
      BY <2>1, <3>1, <3>2
  <2>4. ASSUME NEW i \in DOMAIN frames', i > 1
        PROVE  frames'[i].dir # <<>> /\ Front(frames'[i].dir) = frames'[i - 1].dir
    <3>1. i - 1 \in DOMAIN fs /\ frames'[i - 1] = fs[i - 1]
      BY <1>3, <1>7, <2>4
    <3>2. CASE i \in DOMAIN fs /\ frames'[i] = fs[i]
      BY <2>4, <3>1, <3>2 DEF Chained
    <3>3. CASE i = Len(fs) + 1 /\ frames'[i] = new
      <4>1. i - 1 = Len(fs)
        BY <1>7, <3>3
      <4>2. Len(fs) # 0
        BY <1>7, <3>1, <4>1
      <4>3. fs # <<>>
        BY <4>2, EmptySeq
      <4>4. Last(fs) = fs[i - 1]
        BY <4>1, <4>3, FrontFacts
      <4>5. QED
        BY <2>2, <3>1, <3>3, <4>3, <4>4
    <3>4. QED
      BY <2>1, <3>2, <3>3
  <2>5. frames'[1].dir = j.arg
    <3>1. CASE fs = <<>>
      BY <1>3, <2>2, <3>1, EmptySeq
    <3>2. CASE fs # <<>>
      <4>1. 1 \in 1..Len(fs)
        BY <1>7, <3>2, EmptySeq
      <4>2. QED
        BY <1>3, <3>2, <4>1 DEF Chained
    <3>3. QED
      BY <3>1, <3>2
  <2>6. QED
    BY <1>3, <2>3, <2>4, <2>5 DEF Chained
<1>10. Complete'
  <2>1. SUFFICES ASSUME NEW q \in DOMAIN remote, Due(q)'
                 PROVE  Copied(q)' \/ InList(frames, q)' \/ Unlisted(q)'
    BY DEF Complete
  <2>2. IsPrefix(j.arg, q) /\ (remote[q].kind = "dir" \/ Plain(Last(q)))
    BY <1>3, <2>1 DEF Due
  <2>3. CASE j = job /\ Copied(q)
    BY <1>3, <1>5, <2>3 DEF Copied, Copy
  <2>4. CASE InList(fs, q)
    <3>1. PICK i \in DOMAIN fs : \E k \in DOMAIN fs[i].todo :
                 IsPrefix(Append(fs[i].dir, fs[i].todo[k][1]), q)
      BY <2>4 DEF InList
    <3>2. i \in DOMAIN frames' /\ frames'[i] = fs[i]
      BY <1>3, <1>7, <3>1
    <3>3. QED
      BY <3>1, <3>2 DEF InList
  <2>5. CASE q = p
    <3>1. remote[p] = Dir
      BY <1>4, NodeFacts DEF Has
    <3>2. QED
      BY <1>2, <1>3, <1>5, <2>5, <3>1 DEF Copied, Copy
  <2>6. CASE IsPrefix(p, q) /\ q # p
    <3>1. PICK s \in Listed(remote, p) : IsPrefix(Append(p, Order[s]), q)
      BY <2>6, BelowIsListed
    <3>2. Ordinal(Listed(remote, p), s) > 0
      BY OrdinalFacts
    <3>3. new.dir = p /\ new.index = 0
      BY <1>1
    <3>4. QED
      BY <1>3, <3>1, <3>2, <3>3 DEF Unlisted
  <2>7. QED
    BY <2>2, <2>3, <2>4, <2>5, <2>6
<1>11. QED
  BY <1>8, <1>9, <1>10

\* What a batch of entries makes of the last call of get_dir()
LEMMA BatchFacts ==
  ASSUME Types, frames # <<>>, NEW ok, MoreListed(ok)
  PROVE  \E f \in Frame, more \in Seq(Names \X {"dir", "file"}) :
           /\ f.dir = Last(frames).dir
           /\ f.todo = Last(frames).todo \o more
           /\ frames' = [frames EXCEPT ![Len(frames)] = f]
           /\ \A s \in Listed(remote, f.dir) :
                Ordinal(Listed(remote, f.dir), s) > Last(frames).index =>
                  \/ Ordinal(Listed(remote, f.dir), s) > f.index
                  \/ \E i \in DOMAIN more : more[i][1] = Order[s]
           /\ \A i \in DOMAIN more : Has(remote, Append(f.dir, more[i][1]), more[i][2])
<1>1. PICK fr \in Frame : fr = Last(frames)
  BY FrontFacts DEF Types, FramesOK
<1>2. PICK there : there = Listed(remote, Last(frames).dir)
  OBVIOUS
<1>3. PICK size \in Nat \ {0} :
     \E batch \in [1..size -> Listed(remote, Last(frames).dir)] :
     \E more \in Seq(Names \X {"dir", "file"}) :
       /\ size = GetDirSize(Listed(remote, Last(frames).dir), Last(frames).index)
       /\ \A i \in 1..size :
            Ordinal(Listed(remote, Last(frames).dir), batch[i]) = Last(frames).index + i
       /\ Len(more) = size
       /\ \A i \in 1..size :
            more[i] = <<Order[batch[i]],
                        remote[Append(Last(frames).dir, Order[batch[i]])].kind>>
       /\ frames' = [frames EXCEPT ![Len(frames)] =
            [Last(frames) EXCEPT !.index = @ + size, !.todo = @ \o more]]
  BY Zenon DEF MoreListed
<1>4. PICK batch \in [1..size -> Listed(remote, Last(frames).dir)],
          more \in Seq(Names \X {"dir", "file"}) :
      /\ \A i \in 1..size :
           Ordinal(Listed(remote, Last(frames).dir), batch[i]) = Last(frames).index + i
      /\ Len(more) = size
      /\ \A i \in 1..size :
           more[i] = <<Order[batch[i]],
                       remote[Append(Last(frames).dir, Order[batch[i]])].kind>>
      /\ frames' = [frames EXCEPT ![Len(frames)] =
           [Last(frames) EXCEPT !.index = @ + size, !.todo = @ \o more]]
  BY <1>3, Zenon
<1>5. /\ batch \in [1..size -> there]
      /\ \A i \in 1..size : Ordinal(there, batch[i]) = fr.index + i
      /\ Len(more) = size
      /\ \A i \in 1..size :
           more[i] = <<Order[batch[i]], remote[Append(fr.dir, Order[batch[i]])].kind>>
      /\ frames' = [frames EXCEPT ![Len(frames)] =
           [fr EXCEPT !.index = @ + size, !.todo = @ \o more]]
  BY <1>1, <1>2, <1>4, Zenon
<1>6. PICK x \in Nat, todo \in Seq(Names \X {"dir", "file"}) :
        x = fr.index + size /\ todo = fr.todo \o more
  <2>1. fr.index \in Nat /\ fr.todo \in Seq(Names \X {"dir", "file"})
    BY DEF Frame
  <2>2. fr.index + size \in Nat
    BY <2>1
  <2>3. fr.todo \o more \in Seq(Names \X {"dir", "file"})
    BY <2>1, ConcatProperties
  <2>4. QED
    BY <2>2, <2>3
<1>7. PICK f : f = [fr EXCEPT !.index = x, !.todo = todo]
  OBVIOUS
<1>8. f \in Frame /\ f.dir = fr.dir /\ f.index = x /\ f.todo = todo
  BY <1>6, <1>7 DEF Frame
<1>9. frames' = [frames EXCEPT ![Len(frames)] = f]
  BY <1>5, <1>6, <1>7
<1>10. DOMAIN more = 1..size
  BY <1>5, LenProperties
<1>11. ASSUME NEW s \in there, Ordinal(there, s) > fr.index, ~(Ordinal(there, s) > x)
       PROVE  \E i \in DOMAIN more : more[i][1] = Order[s]
  <2>1. Ordinal(there, s) \in Nat /\ fr.index \in Nat
    BY <1>2, OrdinalFacts DEF Frame
  <2>2. PICK i \in 1..size : Ordinal(there, s) = fr.index + i
    <3>1. Ordinal(there, s) - fr.index \in 1..size
      BY <1>6, <1>11, <2>1
    <3>2. Ordinal(there, s) = fr.index + (Ordinal(there, s) - fr.index)
      BY <2>1
    <3>3. QED
      BY <3>1, <3>2
  <2>3. batch[i] \in there /\ Ordinal(there, batch[i]) = Ordinal(there, s)
    BY <1>5, <2>2
  <2>4. batch[i] = s
    BY <1>2, <2>3, OrdinalFacts
  <2>5. QED
    BY <1>5, <1>10, <2>2, <2>4
<1>12. ASSUME NEW i \in DOMAIN more PROVE Has(remote, Append(fr.dir, more[i][1]), more[i][2])
  <2>1. i \in 1..size /\ batch[i] \in there
    BY <1>5, <1>10
  <2>2. Append(fr.dir, Order[batch[i]]) \in DOMAIN remote
    BY <1>1, <1>2, <2>1 DEF Listed
  <2>3. more[i][1] = Order[batch[i]]
        /\ more[i][2] = remote[Append(fr.dir, Order[batch[i]])].kind
    BY <1>5, <2>1
  <2>4. QED
    BY <2>2, <2>3 DEF Has
<1>13. /\ f.dir = Last(frames).dir /\ f.todo = Last(frames).todo \o more
       /\ \A s \in Listed(remote, f.dir) :
            Ordinal(Listed(remote, f.dir), s) > Last(frames).index =>
              \/ Ordinal(Listed(remote, f.dir), s) > f.index
              \/ \E i \in DOMAIN more : more[i][1] = Order[s]
       /\ \A i \in DOMAIN more : Has(remote, Append(f.dir, more[i][1]), more[i][2])
  BY <1>1, <1>2, <1>6, <1>8, <1>11, <1>12
<1>14. QED
  BY <1>8, <1>9, <1>13

\* Another batch of a listing, or its end
LEMMA ListWalks ==
  ASSUME Types, WalkInv, NEW ok \in BOOLEAN, GetDirList(ok), Fetched'
  PROVE  InPlace' /\ Chained(frames, job.arg)' /\ Complete'
<1>1. /\ pc = "list" /\ job' = Excused(ok, "refused") /\ frames # <<>>
      /\ UNCHANGED <<remote, local>>
      /\ \/ LeaveDir /\ (~ok \/ Has(remote, Last(frames).dir, "file"))
         \/ /\ pc' = "each" /\ UNCHANGED <<frames, lcwd>>
            /\ \/ ~ok \/ Last(frames).dir \notin DOMAIN remote
               \/ GetDirSize(Listed(remote, Last(frames).dir), Last(frames).index) = 0
         \/ MoreListed(ok)
  BY ListFacts
<1>2. job' = job /\ ok
  <2>1. job \in Job /\ "refused" \in Excuses
    BY DEF Types, JobOK, Excuses
  <2>2. (ok => job' = job) /\ (~ok => job'.excuses # {})
    BY <1>1, <2>1, ExcusedFacts
  <2>3. QED
    BY <2>2 DEF Fetched
<1>3. InPlace /\ Chained(frames, job.arg) /\ Complete
  BY <1>1, <1>2 DEF Fetched, WalkInv, Fetching
<1>4. PICK n \in Nat \ {0} : n = Len(frames) /\ DOMAIN frames = 1..n /\ n \in DOMAIN frames
  BY <1>1, EmptySeq, LenProperties DEF Types, FramesOK
<1>5. PICK fr \in Frame : Last(frames) = fr /\ frames[n] = fr
  BY <1>1, <1>4, FrontFacts DEF Types, FramesOK
<1>6. IsTree(remote, Names) /\ Has(remote, fr.dir, "dir")
  BY <1>3, <1>4, <1>5 DEF Types, TreesOK, Chained
<1>7. fr.dir \in DOMAIN remote /\ ~Has(remote, fr.dir, "file")
  BY <1>6, NodeFacts DEF Has
<1>8. CASE /\ pc' = "each" /\ UNCHANGED <<frames, lcwd>>
           /\ GetDirSize(Listed(remote, fr.dir), fr.index) = 0
  <2>1. ASSUME NEW q PROVE ~Unlisted(q)
    <3>1. /\ fr.index \in Nat /\ Cardinality(Listed(remote, fr.dir)) \in Nat
          /\ fr.index >= Cardinality(Listed(remote, fr.dir))
      BY <1>8, SizeFacts DEF Frame
    <3>2. ASSUME NEW s \in Listed(remote, fr.dir)
          PROVE  ~(Ordinal(Listed(remote, fr.dir), s) > fr.index)
      BY <3>1, OrdinalFacts
    <3>3. QED
      BY <1>5, <3>2 DEF Unlisted
  <2>2. InPlace' /\ Chained(frames, job.arg)'
    BY <1>1, <1>2, <1>3, <1>8 DEF InPlace, Chained, Copy, Copying
  <2>3. ASSUME NEW q \in DOMAIN remote, Due(q) PROVE Copied(q) \/ InList(frames, q)
    BY <1>1, <1>3, <2>1, <2>3 DEF Complete, InHand, Copying
  <2>4. Complete'
    BY <1>1, <1>2, <1>8, <2>3 DEF Complete, Due, Copied, Copy, InList
  <2>5. QED
    BY <2>2, <2>4
<1>9. CASE MoreListed(ok)
  <2>1. PICK f \in Frame, more \in Seq(Names \X {"dir", "file"}) :
          /\ f.dir = Last(frames).dir
          /\ f.todo = Last(frames).todo \o more
          /\ frames' = [frames EXCEPT ![Len(frames)] = f]
          /\ \A s \in Listed(remote, f.dir) :
               Ordinal(Listed(remote, f.dir), s) > Last(frames).index =>
                 \/ Ordinal(Listed(remote, f.dir), s) > f.index
                 \/ \E i \in DOMAIN more : more[i][1] = Order[s]
          /\ \A i \in DOMAIN more : Has(remote, Append(f.dir, more[i][1]), more[i][2])
    BY <1>1, <1>9, BatchFacts, Zenon
  <2>2. /\ f.dir = fr.dir /\ f.todo = fr.todo \o more
        /\ frames' = [frames EXCEPT ![n] = f]
        /\ \A s \in Listed(remote, f.dir) :
             Ordinal(Listed(remote, f.dir), s) > fr.index =>
               \/ Ordinal(Listed(remote, f.dir), s) > f.index
               \/ \E i \in DOMAIN more : more[i][1] = Order[s]
        /\ \A i \in DOMAIN more : Has(remote, Append(f.dir, more[i][1]), more[i][2])
    BY <1>4, <1>5, <2>1, Zenon
  <2>3. UNCHANGED <<pc, lcwd>>
    BY <1>9 DEF MoreListed
  <2>4. /\ frames' \in Seq(Frame) /\ frames' # <<>> /\ Len(frames') = n
        /\ DOMAIN frames' = 1..n /\ frames'[n] = f
        /\ \A i \in 1..n : i # n => frames'[i] = frames[i]
    BY <1>1, <1>4, <2>2, TopFrame
  <2>5. Last(frames') = f
    BY <2>4, FrontFacts
  <2>6. \A i \in 1..n : frames'[i].dir = frames[i].dir
    BY <1>5, <2>2, <2>4
  <2>7. /\ DOMAIN f.todo = 1..(Len(fr.todo) + Len(more)) /\ DOMAIN fr.todo = 1..Len(fr.todo)
        /\ DOMAIN more = 1..Len(more) /\ Len(more) \in Nat /\ Len(fr.todo) \in Nat
        /\ \A k \in DOMAIN f.todo :
             f.todo[k] = IF k <= Len(fr.todo) THEN fr.todo[k] ELSE more[k - Len(fr.todo)]
    <3>1. fr.todo \in Seq(Names \X {"dir", "file"})
      BY DEF Frame
    <3>2. PICK u \in Seq(Names \X {"dir", "file"}) : u = fr.todo
      BY <3>1
    <3>3. /\ u \o more \in Seq(Names \X {"dir", "file"})
          /\ Len(u \o more) = Len(u) + Len(more)
          /\ \A i \in 1..(Len(u) + Len(more)) :
               (u \o more)[i] = IF i <= Len(u) THEN u[i] ELSE more[i - Len(u)]
      BY ConcatProperties
    <3>4. DOMAIN (u \o more) = 1..Len(u \o more)
      BY <3>3, LenProperties
    <3>5. DOMAIN u = 1..Len(u) /\ DOMAIN more = 1..Len(more) /\ Len(more) \in Nat /\ Len(u) \in Nat
      BY LenProperties
    <3>6. QED
      BY <2>2, <3>2, <3>3, <3>4, <3>5
  <2>8. ASSUME NEW k \in DOMAIN f.todo
        PROVE  \/ k \in DOMAIN fr.todo /\ f.todo[k] = fr.todo[k]
               \/ k - Len(fr.todo) \in DOMAIN more /\ f.todo[k] = more[k - Len(fr.todo)]
    <3>1. PICK a \in Nat, b \in Nat : a = Len(fr.todo) /\ b = Len(more)
      BY <2>7
    <3>2. k \in 1..(a + b) /\ DOMAIN fr.todo = 1..a /\ DOMAIN more = 1..b
          /\ f.todo[k] = IF k <= a THEN fr.todo[k] ELSE more[k - a]
      BY <2>7, <3>1
    <3>3. k \in 1..a \/ (~(k <= a) /\ k - a \in 1..b)
      BY <3>2
    <3>4. QED
      BY <3>1, <3>2, <3>3
  <2>9. ASSUME NEW i \in 1..n, NEW k \in DOMAIN frames'[i].todo
        PROVE  Has(remote, Append(frames'[i].dir, frames'[i].todo[k][1]), frames'[i].todo[k][2])
    <3>1. CASE i # n
      BY <1>3, <1>4, <2>4, <3>1 DEF Chained
    <3>2. CASE i = n
      <4>1. ASSUME NEW m \in DOMAIN fr.todo
            PROVE  Has(remote, Append(f.dir, fr.todo[m][1]), fr.todo[m][2])
        BY <1>3, <1>4, <1>5, <2>2 DEF Chained
      <4>2. k \in DOMAIN f.todo /\ frames'[i] = f
        BY <2>4, <3>2
      <4>3. PICK e : e = f.todo[k] /\ Has(remote, Append(f.dir, e[1]), e[2])
        <5>1. CASE k \in DOMAIN fr.todo /\ f.todo[k] = fr.todo[k]
          BY <4>1, <5>1
        <5>2. CASE k - Len(fr.todo) \in DOMAIN more /\ f.todo[k] = more[k - Len(fr.todo)]
          BY <2>2, <5>2
        <5>3. QED
          BY <2>8, <4>2, <5>1, <5>2
      <4>4. QED
        BY <4>2, <4>3, Zenon
    <3>3. QED
      BY <3>1, <3>2
  <2>10. Chained(frames, job.arg)'
    <3>1. \A i \in 1..n : i > 1 => i - 1 \in 1..n
      BY <1>4
    <3>2. \A i \in 1..n : i > 1 => /\ frames'[i].dir # <<>>
                                   /\ Front(frames'[i].dir) = frames'[i - 1].dir
      BY <1>3, <1>4, <2>6, <3>1 DEF Chained
    <3>3. 1 \in 1..n
      BY <1>4
    <3>4. frames'[1].dir = job.arg
      BY <1>1, <1>3, <2>6, <3>3 DEF Chained
    <3>5. \A i \in 1..n : Has(remote, frames'[i].dir, "dir") /\ IsPrefix(job.arg, frames'[i].dir)
      BY <1>3, <1>4, <2>6 DEF Chained
    <3>6. QED
      BY <1>1, <1>2, <2>4, <2>9, <3>2, <3>4, <3>5 DEF Chained
  <2>11. InPlace'
    BY <1>1, <1>2, <1>3, <1>5, <2>2, <2>3, <2>4, <2>5 DEF InPlace, Copy, Copying
  <2>12. ASSUME NEW q, InList(frames, q) PROVE InList(frames, q)'
    <3>1. PICK i \in 1..n : \E k \in DOMAIN frames[i].todo :
                              IsPrefix(Append(frames[i].dir, frames[i].todo[k][1]), q)
      BY <1>4, <2>12 DEF InList
    <3>2. PICK k \in DOMAIN frames[i].todo :
                              IsPrefix(Append(frames[i].dir, frames[i].todo[k][1]), q)
      BY <3>1
    <3>3. CASE i # n
      BY <2>4, <3>1, <3>3 DEF InList
    <3>4. CASE i = n
      <4>1. k \in DOMAIN fr.todo /\ IsPrefix(Append(f.dir, fr.todo[k][1]), q)
        BY <1>5, <2>2, <3>2, <3>4
      <4>2. k \in DOMAIN f.todo /\ f.todo[k] = fr.todo[k]
        BY <2>7, <4>1
      <4>3. QED
        BY <2>4, <3>4, <4>1, <4>2 DEF InList
    <3>5. QED
      BY <3>3, <3>4
  <2>13. ASSUME NEW q, Unlisted(q) PROVE Unlisted(q)' \/ InList(frames, q)'
    <3>1. PICK s \in Listed(remote, f.dir) : /\ Ordinal(Listed(remote, f.dir), s) > fr.index
                                             /\ IsPrefix(Append(f.dir, Order[s]), q)
      BY <1>5, <2>2, <2>13 DEF Unlisted
    <3>2. CASE Ordinal(Listed(remote, f.dir), s) > f.index
      BY <1>1, <2>3, <2>5, <3>1, <3>2 DEF Unlisted
    <3>3. CASE \E i \in DOMAIN more : more[i][1] = Order[s]
      <4>1. PICK i \in DOMAIN more : more[i][1] = Order[s]
        BY <3>3
      <4>2. Len(fr.todo) + i \in DOMAIN f.todo /\ f.todo[Len(fr.todo) + i] = more[i]
        <5>1. PICK a \in Nat, b \in Nat : a = Len(fr.todo) /\ b = Len(more)
          BY <2>7
        <5>2. i \in 1..b
          BY <2>7, <4>1, <5>1
        <5>3. PICK k \in Nat : k = a + i /\ k \in 1..(a + b) /\ ~(k <= a) /\ k - a = i
          <6>1. /\ a + i \in Nat /\ a + i \in 1..(a + b) /\ ~(a + i <= a) /\ (a + i) - a = i
            BY <5>2
          <6>2. QED
            BY <6>1
        <5>4. f.todo[k] = IF k <= a THEN fr.todo[k] ELSE more[k - a]
          BY <2>7, <5>1, <5>3
        <5>5. QED
          BY <2>7, <5>1, <5>3, <5>4
      <4>3. n \in DOMAIN frames' /\ IsPrefix(Append(f.dir, f.todo[Len(fr.todo) + i][1]), q)
        BY <2>4, <3>1, <4>1, <4>2
      <4>4. QED
        BY <2>4, <4>2, <4>3 DEF InList
    <3>4. QED
      BY <2>2, <3>1, <3>2, <3>3
  <2>14. Complete'
    <3>1. SUFFICES ASSUME NEW q \in DOMAIN remote, Due(q)'
                   PROVE  Copied(q)' \/ InList(frames, q)' \/ Unlisted(q)'
      BY <1>1 DEF Complete
    <3>2. Due(q) /\ (Copied(q) => Copied(q)')
      BY <1>1, <1>2, <3>1 DEF Due, Copied, Copy
    <3>3. Copied(q) \/ InList(frames, q) \/ Unlisted(q)
      BY <1>1, <1>3, <3>2 DEF Complete, InHand, Copying
    <3>4. QED
      BY <2>12, <2>13, <3>2, <3>3
  <2>15. QED
    BY <2>10, <2>11, <2>14
<1>10. QED
  BY <1>1, <1>2, <1>5, <1>7, <1>8, <1>9

\* The next entry of the last call of get_dir(): the rest, and what waits for it
LEMMA RestWalks ==
  ASSUME Types, frames # <<>>, Last(frames).todo # <<>>, Chained(frames, job.arg),
         NEW rest, rest = [frames EXCEPT ![Len(frames)].todo = Tail(@)]
  PROVE  /\ Chained(rest, job.arg) /\ Last(rest).dir = Last(frames).dir
         /\ Head(Last(frames).todo) = Last(frames).todo[1]
         /\ Has(remote, Append(Last(frames).dir, Head(Last(frames).todo)[1]),
                Head(Last(frames).todo)[2])
         /\ IsPrefix(job.arg, Last(frames).dir)
         /\ \A q : InList(frames, q) =>
              \/ InList(rest, q)
              \/ IsPrefix(Append(Last(frames).dir, Head(Last(frames).todo)[1]), q)
<1>1. /\ rest \in Seq(Frame) /\ rest # <<>> /\ DOMAIN rest = DOMAIN frames
      /\ Len(rest) = Len(frames) /\ DOMAIN frames = 1..Len(frames) /\ Len(frames) \in Nat \ {0}
      /\ \A i \in DOMAIN frames : rest[i].dir = frames[i].dir
      /\ \A i \in DOMAIN frames \ {Len(frames)} : rest[i] = frames[i]
      /\ rest[Len(frames)].todo = Tail(Last(frames).todo)
      /\ Last(frames).todo \in Seq(Names \X {"dir", "file"})
      /\ Last(frames) = frames[Len(frames)]
  BY EntryFacts
<1>2. PICK n \in Nat \ {0} : n = Len(frames) /\ DOMAIN frames = 1..n /\ n \in DOMAIN frames
  BY <1>1
<1>3. PICK todo \in Seq(Names \X {"dir", "file"}) :
        todo = Last(frames).todo /\ todo # <<>> /\ frames[n].todo = todo
  BY <1>1, <1>2
<1>4. PICK d : d = frames[n].dir
  OBVIOUS
<1>5. /\ Tail(todo) \in Seq(Names \X {"dir", "file"}) /\ Len(Tail(todo)) = Len(todo) - 1
      /\ \A i \in 1..Len(Tail(todo)) : Tail(todo)[i] = todo[i + 1]
      /\ Len(todo) \in Nat \ {0}
  BY <1>3, HeadTailProperties, EmptySeq
<1>6. DOMAIN todo = 1..Len(todo) /\ DOMAIN Tail(todo) = 1..(Len(todo) - 1)
  BY <1>5, LenProperties
<1>7. Head(todo) = todo[1] /\ 1 \in DOMAIN todo
  BY <1>5, <1>6
<1>8. rest[n].todo = Tail(todo) /\ rest[n].dir = d /\ \A i \in 1..n : i # n => rest[i] = frames[i]
  BY <1>1, <1>2, <1>3, <1>4
<1>9. ASSUME NEW k \in DOMAIN Tail(todo)
      PROVE  k + 1 \in DOMAIN todo /\ Tail(todo)[k] = todo[k + 1]
  BY <1>5, <1>6
<1>10. ASSUME NEW i \in 1..n, NEW k \in DOMAIN rest[i].todo
       PROVE  Has(remote, Append(rest[i].dir, rest[i].todo[k][1]), rest[i].todo[k][2])
  <2>1. CASE i # n
    BY <1>2, <1>8, <2>1 DEF Chained
  <2>2. CASE i = n
    <3>1. ASSUME NEW m \in DOMAIN todo PROVE Has(remote, Append(d, todo[m][1]), todo[m][2])
      BY <1>2, <1>3, <1>4 DEF Chained
    <3>2. k \in DOMAIN Tail(todo)
      BY <1>8, <2>2
    <3>3. QED
      BY <1>8, <1>9, <2>2, <3>1, <3>2
  <2>3. QED
    BY <2>1, <2>2
<1>11. Chained(rest, job.arg)
  <2>1. \A i \in 1..n : i > 1 => i - 1 \in 1..n
    BY <1>2
  <2>2. \A i \in 1..n : i > 1 => rest[i].dir # <<>> /\ Front(rest[i].dir) = rest[i - 1].dir
    BY <1>1, <1>2, <2>1 DEF Chained
  <2>3. 1 \in 1..n
    BY <1>2
  <2>4. rest[1].dir = job.arg
    BY <1>1, <1>2, <2>3 DEF Chained
  <2>5. \A i \in 1..n : Has(remote, rest[i].dir, "dir") /\ IsPrefix(job.arg, rest[i].dir)
    BY <1>1, <1>2 DEF Chained
  <2>6. QED
    BY <1>1, <1>2, <1>10, <2>2, <2>4, <2>5 DEF Chained
<1>12. Last(rest).dir = d
  BY <1>1, <1>2, <1>8 DEF Last
<1>13. Has(remote, Append(d, todo[1][1]), todo[1][2]) /\ IsPrefix(job.arg, d)
  BY <1>2, <1>3, <1>4, <1>7 DEF Chained
<1>14. ASSUME NEW q, InList(frames, q) PROVE InList(rest, q) \/ IsPrefix(Append(d, todo[1][1]), q)
  <2>1. PICK i \in 1..n : \E k \in DOMAIN frames[i].todo :
                            IsPrefix(Append(frames[i].dir, frames[i].todo[k][1]), q)
    BY <1>2, <1>14 DEF InList
  <2>2. CASE i # n
    BY <1>1, <1>2, <1>8, <2>1, <2>2 DEF InList
  <2>3. CASE i = n
    <3>1. PICK k \in DOMAIN todo : IsPrefix(Append(d, todo[k][1]), q)
      BY <1>3, <1>4, <2>1, <2>3
    <3>2. CASE k = 1
      BY <3>1, <3>2
    <3>3. CASE k # 1
      <4>1. PICK m \in DOMAIN Tail(todo) : Tail(todo)[m] = todo[k]
        <5>1. k - 1 \in DOMAIN Tail(todo) /\ (k - 1) + 1 = k
          BY <1>5, <1>6, <3>3
        <5>2. QED
          BY <1>9, <5>1
      <4>2. /\ n \in DOMAIN rest /\ m \in DOMAIN rest[n].todo
            /\ IsPrefix(Append(rest[n].dir, rest[n].todo[m][1]), q)
        BY <1>1, <1>2, <1>8, <3>1, <4>1
      <4>3. QED
        BY <4>2 DEF InList
    <3>4. QED
      BY <3>2, <3>3
  <2>4. QED
    BY <2>2, <2>3
<1>15. QED
  BY <1>1, <1>2, <1>3, <1>4, <1>7, <1>11, <1>12, <1>13, <1>14

\* Back in the directory before
LEMMA LeaveWalks ==
  ASSUME Types, frames # <<>>, Last(frames).todo = <<>>, pc = "each", LeaveDir,
         UNCHANGED <<remote, local, job>>, InPlace, Chained(frames, job.arg), Complete
  PROVE  InPlace' /\ Chained(frames, job.arg)' /\ Complete'
<1>1. PICK n \in Nat \ {0} : /\ n = Len(frames) /\ DOMAIN frames = 1..n
                             /\ Last(frames) = frames[n] /\ frames[n] \in Frame
  <2>1. frames \in Seq(Frame)
    BY DEF Types, FramesOK
  <2>2. Len(frames) \in Nat \ {0} /\ DOMAIN frames = 1..Len(frames)
    BY <2>1, EmptySeq, LenProperties
  <2>3. Last(frames) = frames[Len(frames)] /\ Last(frames) \in Frame
    BY <2>1, FrontFacts
  <2>4. QED
    BY <2>2, <2>3
<1>2. /\ frames' \in Seq(Frame) /\ Len(frames') = n - 1 /\ \A i \in 1..(n - 1) : frames'[i] = frames[i]
      /\ (pc' = "each" /\ frames' # <<>>) \/ (pc' = "ready" /\ frames' = <<>>)
      /\ lcwd' = Up(lcwd)
  BY <1>1, LeaveFacts DEF LeaveDir
<1>3. DOMAIN frames' = 1..(n - 1) /\ (frames' # <<>> => n - 1 \in 1..n /\ n - 1 \in 1..(n - 1) /\ n > 1)
  <2>1. DOMAIN frames' = 1..(n - 1)
    BY <1>2, LenProperties
  <2>2. ASSUME frames' # <<>> PROVE n - 1 \in Nat \ {0}
    BY <1>2, <2>2, EmptySeq
  <2>3. QED
    BY <2>1, <2>2
<1>4. \A i \in 1..(n - 1) : i \in 1..n
  BY <1>1
<1>5. Chained(frames, job.arg)'
  <2>1. \A i \in 1..(n - 1) : i > 1 => i - 1 \in 1..(n - 1)
    BY <1>1
  <2>2. \A i \in 1..(n - 1) :
          i > 1 => frames'[i].dir # <<>> /\ Front(frames'[i].dir) = frames'[i - 1].dir
    <3> SUFFICES ASSUME NEW i \in 1..(n - 1), i > 1
                 PROVE  frames'[i].dir # <<>> /\ Front(frames'[i].dir) = frames'[i - 1].dir
      OBVIOUS
    <3>1. i \in DOMAIN frames
      BY <1>1, <1>4
    <3>2. frames[i].dir # <<>> /\ Front(frames[i].dir) = frames[i - 1].dir
      BY <3>1 DEF Chained
    <3>3. frames'[i] = frames[i]
      BY <1>2
    <3>4. frames'[i - 1] = frames[i - 1]
      BY <1>2, <2>1
    <3>5. QED
      BY <3>2, <3>3, <3>4, Zenon
  <2>3. \A i \in 1..(n - 1) :
          /\ Has(remote, frames'[i].dir, "dir") /\ IsPrefix(job.arg, frames'[i].dir)
          /\ \A k \in DOMAIN frames'[i].todo :
               Has(remote, Append(frames'[i].dir, frames'[i].todo[k][1]), frames'[i].todo[k][2])
    BY <1>1, <1>2, <1>4, ZenonT(40) DEF Chained
  <2>4. ASSUME frames' # <<>> PROVE frames'[1].dir = job.arg
    <3>1. 1 \in 1..(n - 1)
      BY <1>3, <2>4
    <3>2. QED
      BY <1>2, <3>1 DEF Chained
  <2>5. QED
    BY <1>3, <2>2, <2>3, <2>4 DEF Chained
<1>6. InPlace'
  <2>1. ASSUME frames' # <<>> PROVE lcwd' = Copy(Last(frames').dir)
    <3>1. PICK d : d = frames[n].dir
      OBVIOUS
    <3>2. d \in Seq(Names) /\ IsPrefix(job.arg, d) /\ lcwd = Copy(d)
      BY <1>1, <3>1 DEF Frame, Chained, InPlace
    <3>3. PICK e : e = frames[n - 1].dir
      OBVIOUS
    <3>4. d # <<>> /\ Front(d) = e /\ IsPrefix(job.arg, e) /\ Last(frames') = frames[n - 1]
      <4>1. n \in 1..n /\ n - 1 \in 1..n /\ n > 1 /\ n - 1 \in 1..(n - 1)
        BY <1>1, <1>3, <2>1
      <4>2. d # <<>> /\ Front(d) = e /\ IsPrefix(job.arg, e)
        BY <1>1, <3>1, <3>3, <4>1 DEF Chained
      <4>3. Last(frames') = frames[n - 1]
        BY <1>2, <4>1 DEF Last
      <4>4. QED
        BY <4>2, <4>3
    <3>5. job.arg \in Seq(Names) /\ job.base \in Seq(LocalNames)
      BY DEF Types, JobOK, Job
    <3>6. d # job.arg
      <4>1. PICK x \in Seq(Names), m \in Names : x = e /\ d = Append(x, m)
        BY <3>2, <3>4, FrontFacts, FrontLast
      <4>2. IsPrefix(job.arg, x)
        BY <3>4, <4>1
      <4>3. QED
        BY <3>5, <4>1, <4>2, PrefixEntry
    <3>7. Copy(d) # <<>> /\ Front(Copy(d)) = Copy(e)
      <4>1. PICK a \in Seq(Names), b \in Seq(LocalNames) : a = job.arg /\ b = job.base
        BY <3>5
      <4>2. IsPrefix(a, d) /\ d # a /\ d \in Seq(Names)
        BY <3>2, <3>6, <4>1
      <4>3. Front(b \o Rest(a, d)) = b \o Rest(a, Front(d)) /\ b \o Rest(a, d) # <<>>
        BY <4>2, CopyFacts
      <4>4. QED
        BY <3>4, <4>1, <4>3 DEF Copy
    <3>8. QED
      BY <1>2, <3>2, <3>3, <3>4, <3>7 DEF Up
  <2>2. QED
    BY <1>2, <2>1 DEF InPlace, Copy, Copying
<1>7. ASSUME NEW q, InList(frames, q) PROVE InList(frames, q)'
  <2>1. PICK i \in 1..n : \E k \in DOMAIN frames[i].todo :
                            IsPrefix(Append(frames[i].dir, frames[i].todo[k][1]), q)
    BY <1>1, <1>7 DEF InList
  <2>2. i # n
    <3>1. DOMAIN <<>> = {}
      OBVIOUS
    <3>2. QED
      BY <1>1, <2>1, <3>1
  <2>3. i \in 1..(n - 1)
    BY <1>1, <2>1, <2>2
  <2>4. QED
    BY <1>2, <1>3, <2>1, <2>3 DEF InList
<1>8. Complete'
  <2>1. SUFFICES ASSUME NEW q \in DOMAIN remote, Due(q)'
                 PROVE  Copied(q)' \/ InList(frames, q)'
    BY DEF Complete
  <2>2. Due(q) /\ (Copied(q) => Copied(q)')
    BY <2>1 DEF Due, Copied, Copy
  <2>3. Copied(q) \/ InList(frames, q)
    BY <2>2 DEF Complete, Unlisted, InHand, Copying
  <2>4. QED
    BY <1>7, <2>2, <2>3
<1>9. QED
  BY <1>5, <1>6, <1>8

\* The next entry of a list, or its end
LEMMA EntryWalks ==
  ASSUME Types, WalkInv, GetDirEntry, Fetched'
  PROVE  InPlace' /\ Chained(frames, job.arg)' /\ Complete'
<1>1. PICK fr \in Frame : fr = Last(frames)
  <2>1. pc = "each" /\ frames # <<>> /\ frames \in Seq(Frame)
    BY DEF GetDirEntry, Types, FramesOK
  <2>2. QED
    BY <2>1, FrontFacts
<1>2. PICK rest : rest = [frames EXCEPT ![Len(frames)].todo = Tail(@)]
  OBVIOUS
<1>3. PICK n, kind : n = Head(fr.todo)[1] /\ kind = Head(fr.todo)[2]
  OBVIOUS
<1>4. /\ pc = "each" /\ remote' = remote
      /\ \/ fr.todo = <<>> /\ LeaveDir /\ UNCHANGED <<local, job>>
         \/ fr.todo # <<>> /\ kind = "dir" /\ EnterDir(rest, job, Append(fr.dir, n), n)
         \/ /\ fr.todo # <<>> /\ kind = "file" /\ frames' = rest /\ pc' = "get"
            /\ job' = GetFile(job, Unquoted[n], Append(fr.dir, Unquoted[n]))
            /\ UNCHANGED <<local, lcwd>>
  BY <1>1, <1>2, <1>3 DEF GetDirEntry
<1>5. frames # <<>> /\ job \in Job
  BY <1>4 DEF Types, FramesOK, JobOK
<1>6. job.arg \in Seq(Names) /\ job.base \in Seq(LocalNames) /\ IsTree(remote, Names)
  BY <1>5 DEF Types, TreesOK, Job
\* What an entry does to the command
<1>7. job'.op = job.op /\ job'.arg = job.arg /\ job'.base = job.base /\ job.excuses = {}
  <2>1. CASE fr.todo # <<>> /\ EnterDir(rest, job, Append(fr.dir, n), n)
    <3>1. PICK e : e = job'.excuses /\ e = {}
      BY DEF Fetched
    <3>2. rest \in Seq(Frame) /\ n \in Names /\ fr.dir \in Seq(Names)
      BY <1>1, <1>2, <1>3, <1>5, <2>1, EntryFacts
    <3>3. PICK p \in Seq(Names) : p = Append(fr.dir, n)
      BY <3>2, AppendFacts
    <3>4. EnterDir(rest, job, p, n)
      BY <2>1, <3>3
    <3>5. job' = job
      BY <1>5, <3>1, <3>2, <3>4, EnterFacts
    <3>6. QED
      BY <3>1, <3>5
  <2>2. CASE job' = GetFile(job, Unquoted[n], Append(fr.dir, Unquoted[n]))
    <3>1. job'.excuses = job.excuses /\ job'.op = job.op /\ job'.arg = job.arg /\ job'.base = job.base
      BY <1>5, <2>2 DEF GetFile, Job
    <3>2. QED
      BY <3>1 DEF Fetched
  <2>3. QED
    BY <1>4, <2>1, <2>2 DEF Fetched
<1>8. InPlace /\ Chained(frames, job.arg) /\ Complete
  BY <1>4, <1>7 DEF Fetched, WalkInv, Fetching
<1>9. CASE fr.todo = <<>> /\ LeaveDir /\ UNCHANGED <<local, job>>
  BY <1>1, <1>4, <1>5, <1>8, <1>9, LeaveWalks
<1>10. CASE fr.todo # <<>>
  <2>1. /\ rest \in Seq(Frame) /\ rest # <<>> /\ n \in Names /\ fr.dir \in Seq(Names)
        /\ Has(remote, fr.dir, "dir")
    BY <1>1, <1>2, <1>3, <1>5, <1>10, EntryFacts
  <2>2. /\ Chained(rest, job.arg) /\ Last(rest).dir = fr.dir
        /\ Has(remote, Append(fr.dir, n), kind) /\ IsPrefix(job.arg, fr.dir)
        /\ \A q : InList(frames, q) => InList(rest, q) \/ IsPrefix(Append(fr.dir, n), q)
    BY <1>1, <1>2, <1>3, <1>5, <1>8, <1>10, RestWalks
  <2>3. PICK p \in Seq(Names) : /\ p = Append(fr.dir, n) /\ p # <<>> /\ Front(p) = fr.dir
                                /\ Last(p) = n /\ IsPrefix(job.arg, p)
    <3>1. PICK a \in Seq(Names), d \in Seq(Names) : a = job.arg /\ d = fr.dir
      BY <1>6, <2>1
    <3>2. IsPrefix(a, Append(d, n))
      BY <2>1, <2>2, <3>1, PrefixEntry
    <3>3. /\ Append(d, n) \in Seq(Names) /\ Append(d, n) # <<>>
          /\ Front(Append(d, n)) = d /\ Last(Append(d, n)) = n
      BY <2>1, AppendFacts
    <3>4. QED
      BY <3>1, <3>2, <3>3
  <2>4. lcwd = Copy(fr.dir) /\ Append(lcwd, n) = Copy(p)
    <3>1. lcwd = Copy(fr.dir)
      BY <1>1, <1>5, <1>8 DEF InPlace
    <3>2. job.base \o Rest(job.arg, Append(fr.dir, n)) = Append(job.base \o Rest(job.arg, fr.dir), n)
      <4>1. PICK a \in Seq(Names), b \in Seq(LocalNames), d \in Seq(Names) :
              a = job.arg /\ b = job.base /\ d = fr.dir
        BY <1>6, <2>1
      <4>2. IsPrefix(a, d)
        BY <2>2, <4>1
      <4>3. \A m \in Names : b \o Rest(a, Append(d, m)) = Append(b \o Rest(a, d), m)
        BY <4>2, CopyFacts
      <4>4. QED
        BY <2>1, <4>1, <4>3
    <3>3. QED
      BY <2>3, <3>1, <3>2 DEF Copy
  <2>5. ASSUME NEW q \in DOMAIN remote, Due(q)
        PROVE  Copied(q) \/ InList(rest, q) \/ IsPrefix(p, q)
    <3>1. Copied(q) \/ InList(frames, q)
      BY <1>4, <1>8, <2>5 DEF Complete, Unlisted, InHand, Copying
    <3>2. QED
      BY <2>2, <2>3, <3>1
  <2>6. CASE kind = "dir" /\ EnterDir(rest, job, Append(fr.dir, n), n)
    <3>1. EnterDir(rest, job, p, n) /\ Has(remote, p, "dir") /\ job'.excuses = {}
      BY <2>2, <2>3, <2>6 DEF Fetched
    <3>2. Append(lcwd, n) = job.base \o Rest(job.arg, p) /\ IsPrefix(job.arg, p)
      BY <2>3, <2>4 DEF Copy
    <3>3. IF rest = <<>> THEN p = job.arg ELSE p # <<>> /\ Front(p) = Last(rest).dir
      BY <2>1, <2>2, <2>3
    <3>4. \A q \in DOMAIN remote :
            IsPrefix(job.arg, q) /\ (remote[q].kind = "dir" \/ Plain(Last(q))) =>
              (job = job /\ Copied(q)) \/ InList(rest, q) \/ IsPrefix(p, q)
      BY <2>5 DEF Due
    <3>5. QED
      BY <1>4, <1>5, <2>1, <2>2, <3>1, <3>2, <3>3, <3>4, EnterWalks
  <2>7. CASE /\ kind = "file" /\ frames' = rest /\ pc' = "get"
             /\ job' = GetFile(job, Unquoted[n], Append(fr.dir, Unquoted[n]))
             /\ UNCHANGED <<local, lcwd>>
    <3>1. PICK m \in Names : m = Unquoted[n]
      BY <2>1, ShellConstants
    <3>2. PICK s \in Seq(Names) : /\ s = Append(fr.dir, m) /\ s # <<>> /\ Front(s) = fr.dir
                                  /\ Last(s) = m
      <4>1. PICK d \in Seq(Names) : d = fr.dir
        BY <2>1
      <4>2. /\ Append(d, m) \in Seq(Names) /\ Append(d, m) # <<>>
            /\ Front(Append(d, m)) = d /\ Last(Append(d, m)) = m
        BY AppendFacts
      <4>3. QED
        BY <4>1, <4>2
    <3>3. job'.src = s /\ job'.dst = Append(lcwd, m)
      BY <1>5, <2>7, <3>1, <3>2 DEF GetFile, Job
    <3>4. InPlace'
      <4>1. lcwd' = Copy(Last(frames).dir)'
        BY <1>7, <2>2, <2>4, <2>7 DEF Copy
      <4>2. QED
        BY <2>1, <2>2, <2>7, <3>2, <3>3, <4>1 DEF InPlace
    <3>5. Chained(frames, job.arg)'
      BY <1>4, <1>7, <2>2, <2>7 DEF Chained
    <3>6. ASSUME NEW q \in DOMAIN remote, Due(q), IsPrefix(p, q) PROVE InHand(q)'
      <4>1. q \in Seq(Names) /\ ~Has(remote, p, "dir")
        BY <1>6, <2>2, <2>3, <2>7, NodeFacts DEF IsTree, Has
      <4>2. q = p
        BY <1>6, <3>6, <4>1, AncestorsAreDirs
      <4>3. m = n
        BY <1>6, <2>2, <2>3, <2>7, <3>1, <3>6, <4>2 DEF Due, Plain, Has
      <4>4. QED
        BY <1>4, <2>2, <2>3, <2>7, <3>2, <3>3, <4>2, <4>3 DEF InHand, Copying
    <3>7. Complete'
      <4>1. SUFFICES ASSUME NEW q \in DOMAIN remote, Due(q)'
                     PROVE  Copied(q)' \/ InList(frames, q)' \/ InHand(q)'
        BY <1>4 DEF Complete
      <4>2. Due(q) /\ (Copied(q) => Copied(q)')
        BY <1>4, <1>7, <2>7, <4>1 DEF Due, Copied, Copy
      <4>3. InList(rest, q) => InList(frames, q)'
        BY <2>7 DEF InList
      <4>4. QED
        BY <2>5, <3>6, <4>2, <4>3
    <3>8. QED
      BY <3>4, <3>5, <3>7
  <2>8. QED
    BY <1>4, <1>10, <2>6, <2>7
<1>11. QED
  BY <1>4, <1>9, <1>10

\* What copying one file makes of the local directory when nothing goes wrong
LEMMA CopyLocal ==
  ASSUME Types, HomeInv, GetInv, NEW ok \in BOOLEAN, frames # <<>>, job'.excuses = {},
         GetCreate(ok) \/ RetrieveAttr(ok) \/ RetrieveOpen(ok) \/ RetrieveRead(ok)
           \/ RetrieveClose(ok)
  PROVE  /\ \A x \in DOMAIN local \ {job.dst} : x \in DOMAIN local' /\ local'[x] = local[x]
         /\ pc' \in {"attr", "open", "read", "close", "each"}
         /\ local' = local \/ ~Has(local, job.dst, "dir")
         /\ pc' = "each" /\ pc # "close" => ~Has(remote, job.src, "file")
         /\ pc' \in {"close", "each"} => local' = local \/ IsCopied'
         /\ pc' = "close" => IsCopied'
<1>1. AfterFile = "each"
  BY AfterFileFacts
<1>2. IsTree(local, LocalNames) /\ job \in Job /\ job.dst \in Seq(LocalNames)
  BY DEF Types, TreesOK, JobOK, Job
<1>3. ok \/ pc = "close"
  BY CopyJob
<1>4. CASE GetCreate(ok)
  <2>1. pc = "get"
    BY <1>4 DEF GetCreate
  <2>2. CASE job.src \notin DOMAIN remote /\ pc' = AfterFile /\ local' = local
    BY <1>1, <2>2 DEF Has
  <2>3. CASE /\ pc' = "attr" /\ ~Has(local, job.dst, "dir")
             /\ local' = With(local, job.dst, File(<<>>))
    <3>1. PICK f : f = File(<<>>) /\ f.data \in Seq(Nat) /\ f = File(f.data)
      BY EmptySeq, NewFile
    <3>2. /\ DOMAIN local \subseteq DOMAIN With(local, job.dst, f)
          /\ \A q \in DOMAIN local \ {job.dst} : With(local, job.dst, f)[q] = local[q]
      BY <1>2, <2>3, <3>1, WithFacts
    <3>3. local' = With(local, job.dst, f)
      BY <2>3, <3>1
    <3>4. QED
      BY <2>3, <3>2, <3>3
  <2>4. QED
    BY <1>4, <2>2, <2>3, CreateGets
<1>5. CASE RetrieveAttr(ok) \/ RetrieveOpen(ok)
  <2>1. pc \in {"attr", "open"} /\ ok
    BY <1>3, <1>5 DEF RetrieveAttr, RetrieveOpen
  <2>2. /\ local' = local
        /\ pc' \in {"open", "read"} \/ (pc' = AfterFile /\ ~Has(remote, job.src, "file"))
    BY <1>5, <2>1 DEF RetrieveAttr, RetrieveOpen, Has
  <2>3. QED
    BY <1>1, <2>2
<1>6. CASE RetrieveRead(ok)
  <2>1. /\ pc' = "close" => IsCopied'
        /\ Has(local, job.dst, "file")
        /\ DOMAIN local' = DOMAIN local
        /\ \A q \in DOMAIN local \ {job.dst} : local'[q] = local[q]
        /\ pc' \in {"read", "close"}
    BY <1>6, ReadGets
  <2>2. ~Has(local, job.dst, "dir")
    BY <2>1 DEF Has
  <2>3. QED
    BY <2>1, <2>2
<1>7. CASE RetrieveClose(ok)
  BY <1>1, <1>7 DEF RetrieveClose
<1>8. QED
  BY <1>4, <1>5, <1>6, <1>7

\* A file is being copied.
LEMMA CopyWalks ==
  ASSUME Types, HomeInv, GetInv, WalkInv, NEW ok \in BOOLEAN, Fetched',
         GetCreate(ok) \/ RetrieveAttr(ok) \/ RetrieveOpen(ok) \/ RetrieveRead(ok)
           \/ RetrieveClose(ok)
  PROVE  InPlace' /\ Chained(frames, job.arg)' /\ Complete'
<1>1. /\ job \in Job /\ pc \in Copying \cup {"close"}
      /\ UNCHANGED <<remote, lcwd, frames>>
      /\ job'.op = job.op /\ job'.arg = job.arg /\ job'.base = job.base
      /\ job'.src = job.src /\ job'.dst = job.dst
      /\ job.excuses \subseteq job'.excuses
  BY CopyJob
<1>2. InPlace /\ Chained(frames, job.arg) /\ Complete
  BY <1>1 DEF Fetched, WalkInv, Fetching
<1>3. frames # <<>>
  BY <1>1, <1>2 DEF InPlace, Copying
<1>4. /\ \A x \in DOMAIN local \ {job.dst} : x \in DOMAIN local' /\ local'[x] = local[x]
      /\ pc' \in {"attr", "open", "read", "close", "each"}
      /\ local' = local \/ ~Has(local, job.dst, "dir")
      /\ pc' = "each" /\ pc # "close" => ~Has(remote, job.src, "file")
      /\ pc' \in {"close", "each"} => local' = local \/ IsCopied'
      /\ pc' = "close" => IsCopied'
  BY <1>3, CopyLocal DEF Fetched
<1>5. InPlace'
  BY <1>1, <1>2, <1>3 DEF InPlace, Copy
<1>6. Chained(frames, job.arg)'
  BY <1>1, <1>2 DEF Chained
<1>7. PICK a \in Seq(Names), b \in Seq(LocalNames), src \in Seq(Names) :
        a = job.arg /\ b = job.base /\ src = job.src
  BY <1>1 DEF Job
<1>8. IsPrefix(a, src) /\ job.dst = Copy(src)
  <2>1. PICK n \in DOMAIN frames : Last(frames) = frames[n] /\ frames[n] \in Frame
    <3>1. frames \in Seq(Frame)
      BY DEF Types, FramesOK
    <3>2. Len(frames) \in 1..Len(frames) /\ DOMAIN frames = 1..Len(frames)
      BY <1>3, <3>1, EmptySeq, LenProperties
    <3>3. QED
      BY <1>3, <3>1, <3>2, FrontFacts
  <2>2. PICK d \in Seq(Names) : d = Last(frames).dir
    BY <2>1 DEF Frame
  <2>3. IsPrefix(a, d) /\ lcwd = b \o Rest(a, d)
    BY <1>2, <1>3, <1>7, <2>1, <2>2 DEF Chained, InPlace, Copy
  <2>4. PICK m \in Names : m = Last(src) /\ src = Append(d, m) /\ job.dst = Append(lcwd, m)
    <3>1. src # <<>> /\ Front(src) = d /\ job.dst = Append(lcwd, Last(src))
      BY <1>1, <1>2, <1>3, <1>7, <2>2 DEF InPlace
    <3>2. Last(src) \in Names /\ src = Append(Front(src), Last(src))
      BY <3>1, FrontFacts, FrontLast
    <3>3. QED
      BY <3>1, <3>2
  <2>5. IsPrefix(a, Append(d, m))
    BY <2>3, PrefixEntry
  <2>6. \A x \in Names : b \o Rest(a, Append(d, x)) = Append(b \o Rest(a, d), x)
    <3>1. IsPrefix(a, d)
      BY <2>3
    <3>2. QED
      BY <3>1, CopyFacts, SMTT(30)
  <2>7. QED
    BY <1>7, <2>3, <2>4, <2>5, <2>6 DEF Copy
<1>9. ASSUME NEW q \in DOMAIN remote, Due(q), q # src PROVE Copy(q) # job.dst
  <2>1. q \in Seq(Names) /\ IsPrefix(a, q)
    BY <1>7, <1>9 DEF Due, Types, TreesOK, IsTree
  <2>2. IsPrefix(a, src)
    BY <1>8
  <2>3. a \o Rest(b, b \o Rest(a, q)) = q /\ a \o Rest(b, b \o Rest(a, src)) = src
    BY <2>1, <2>2, CopyBack
  <2>4. ASSUME Copy(q) = job.dst PROVE q = src
    <3>1. b \o Rest(a, q) = b \o Rest(a, src)
      BY <1>7, <1>8, <2>4 DEF Copy
    <3>2. QED
      BY <2>3, <3>1, Zenon
  <2>5. QED
    BY <1>9, <2>4
<1>10. Complete'
  <2>1. SUFFICES ASSUME NEW q \in DOMAIN remote, Due(q)'
                 PROVE  Copied(q)' \/ InList(frames, q)' \/ InHand(q)'
    BY <1>1 DEF Complete
  <2>2. Due(q) /\ Copy(q)' = Copy(q)
    BY <1>1, <2>1 DEF Due, Copy
  <2>3. Copied(q) \/ InList(frames, q) \/ InHand(q)
    BY <1>1, <1>2, <2>2 DEF Complete, Unlisted, Copying
  <2>4. InList(frames, q) => InList(frames, q)'
    BY <1>1 DEF InList
  <2>5. CASE q # src
    <3>1. ~InHand(q)
      BY <1>7, <2>5 DEF InHand
    <3>2. Copied(q) => Copied(q)'
      BY <1>1, <1>4, <1>9, <2>2, <2>5 DEF Copied
    <3>3. QED
      BY <2>3, <2>4, <3>1, <3>2
  <2>6. CASE q = src
    <3>1. Copied(q) /\ local' = local => Copied(q)'
      BY <1>1, <2>2 DEF Copied
    <3>2. IsCopied' => Copied(q)'
      BY <1>1, <1>7, <1>8, <2>2, <2>6 DEF IsCopied, Copied, Has
    <3>3. CASE ~Has(remote, q, "file")
      <4>1. ~InHand(q) /\ remote[q] = Dir
        BY <3>3, NodeFacts DEF InHand, Has, Types, TreesOK
      <4>2. Copied(q) => Has(local, job.dst, "dir")
        BY <1>8, <2>6, <4>1 DEF Copied, Has, Dir
      <4>3. QED
        BY <1>4, <2>3, <2>4, <3>1, <4>1, <4>2
    <3>4. CASE Has(remote, q, "file")
      <4>1. CASE pc' \in {"attr", "open", "read"}
        BY <1>1, <1>7, <2>6, <3>4, <4>1 DEF InHand, Copying
      <4>2. CASE pc' = "close"
        BY <1>4, <3>2, <4>2
      <4>3. CASE pc' = "each"
        <5>1. pc = "close"
          BY <1>4, <1>7, <2>6, <3>4, <4>3
        <5>2. ~InHand(q)
          BY <5>1 DEF InHand, Copying
        <5>3. QED
          BY <1>4, <2>3, <2>4, <3>1, <3>2, <4>3, <5>2
      <4>4. QED
        BY <1>4, <4>1, <4>2, <4>3
    <3>5. QED
      BY <3>3, <3>4
  <2>7. QED
    BY <2>5, <2>6
<1>11. QED
  BY <1>5, <1>6, <1>10

\* get -r begins.
LEMMA TopWalks ==
  ASSUME Types, NEW j \in Job, NEW n \in Names, EnterDir(<<>>, j, j.arg, n), remote' = remote,
         j.base = Append(lcwd, n), Fetched'
  PROVE  InPlace' /\ Chained(frames, job.arg)' /\ Complete'
<1>1. PICK p \in Seq(Names), b \in Seq(LocalNames) : p = j.arg /\ b = j.base
  BY DEF Job
<1>2. PICK fs \in Seq(Frame) : fs = <<>>
  BY EmptySeq
<1>3. EnterDir(fs, j, p, n)
  BY <1>1, <1>2
<1>4. job'.excuses = {} /\ job' = [j EXCEPT !.excuses = job'.excuses]
  BY <1>3, EnterFacts DEF Fetched
<1>5. job'.arg = p
  BY <1>1, <1>4 DEF Job
<1>6. Has(remote, p, "dir")
  BY <1>5 DEF Fetched
<1>7. IsPrefix(p, p) /\ b \o Rest(p, p) = b
  BY PrefixFacts, CopyFacts
<1>8. IsPrefix(j.arg, p) /\ Append(lcwd, n) = j.base \o Rest(j.arg, p)
  BY <1>1, <1>7
<1>9. Chained(fs, j.arg)
  BY <1>2 DEF Chained
<1>10. IF fs = <<>> THEN p = j.arg ELSE p # <<>> /\ Front(p) = Last(fs).dir
  BY <1>1, <1>2
<1>11. \A q \in DOMAIN remote :
         IsPrefix(j.arg, q) /\ (remote[q].kind = "dir" \/ Plain(Last(q))) =>
           (j = job /\ Copied(q)) \/ InList(fs, q) \/ IsPrefix(p, q)
  BY <1>1
<1>12. QED
  BY <1>3, <1>4, <1>6, <1>8, <1>9, <1>10, <1>11, EnterWalks

LEMMA RequestWalks ==
  ASSUME Types, HomeInv, GetInv, WalkInv, NEW ok \in BOOLEAN, Request(ok), Fetched'
  PROVE  InPlace' /\ Chained(frames, job.arg)' /\ Complete'
<1>1. job \in Job
  BY DEF Types, JobOK
<1>2. CASE StartPath(ok)
  <2>1. PICK n \in Names : n = job.name
    BY <1>2 DEF StartPath, Types, JobOK
  <2>2. /\ pc = "start" /\ remote' = remote
        /\ \/ pc' \in {"leaving", "ready"} /\ job' = job /\ (pc' = "ready" => job.op = "startup")
           \/ pc' = "list" /\ EnterDir(<<>>, job, job.arg, n)
           \/ pc' = "get" /\ job'.op = "startup"
    <3>1. PICK m \in Names, b \in Seq(LocalNames) : m = Unquoted[n] /\ b = Append(lcwd, m)
      BY <2>1, PathFacts, ShellConstants
    <3>2. GetFile([job EXCEPT !.op = "startup", !.base = b, !.arg = <<m>>], m, <<m>>).op = "startup"
      BY <1>1 DEF GetFile, Job
    <3>3. QED
      BY <1>2, <2>1, <3>1, <3>2 DEF StartPath, EnterDir
  <2>3. pc' = "list" /\ EnterDir(<<>>, job, job.arg, n)
    BY <2>2 DEF Fetched, Fetching, Copying
  <2>4. job.base = Append(lcwd, n)
    BY <2>1, <2>2 DEF GetInv
  <2>5. QED
    BY <1>1, <2>2, <2>3, <2>4, TopWalks
<1>3. CASE GetDirList(ok)
  BY <1>3, ListWalks
<1>4. CASE GetCreate(ok) \/ RetrieveAttr(ok) \/ RetrieveOpen(ok) \/ RetrieveRead(ok)
             \/ RetrieveClose(ok)
  BY <1>4, CopyWalks
<1>5. CASE \/ Simple(ok) \/ CdLookup(ok) \/ RenameFrom(ok) \/ RenameTo(ok) \/ RenameMove(ok)
           \/ PutOpen(ok) \/ PutChmod(ok) \/ PutWrite(ok) \/ PutClose(ok)
  <2>1. pc \in {"simple", "cd"} \cup Moving \cup Putting
    BY <1>5 DEF Simple, CdLookup, RenameFrom, RenameTo, RenameMove, PutOpen, PutChmod, PutWrite,
                PutClose, Moving, Putting
  <2>2. job.op # "getr"
    BY <2>1 DEF GetInv, Fetching, Copying, Moving, Putting
  <2>3. job'.op \in {job.op, "startup"}
    <3>1. CASE pc \notin Putting
      BY <3>1, RequestOp
    <3>2. CASE PutOpen(ok)
      BY <1>1, <3>2 DEF PutOpen, Excused, Job
    <3>3. CASE PutWrite(ok)
      BY <1>1, <3>3 DEF PutWrite, Excused, Job
    <3>4. CASE PutChmod(ok) \/ PutClose(ok)
      BY <3>4 DEF PutChmod, PutClose
    <3>5. QED
      BY <1>5, <3>1, <3>2, <3>3, <3>4
         DEF Simple, CdLookup, RenameFrom, RenameTo, RenameMove, Putting
  <2>4. QED
    BY <2>2, <2>3 DEF Fetched
<1>6. QED
  BY <1>2, <1>3, <1>4, <1>5 DEF Request

LEMMA CommandWalks ==
  ASSUME Types, NEW n \in Names, Command(n), Fetched'
  PROVE  InPlace' /\ Chained(frames, job.arg)' /\ Complete'
<1>1. NoJob.op = "none" /\ NoJob \in Job
  BY NoJobFacts
<1>2. ASSUME NEW op \in Ops, SimpleStart(op, n) PROVE FALSE
  BY <1>2 DEF SimpleStart, Fetched, Fetching, Copying
<1>3. ASSUME NEW m \in Names, com_rename(n, m) PROVE FALSE
  BY <1>3 DEF com_rename, Fetched, Fetching, Copying
<1>4. ~com_put(n) /\ ~com_view(n)
  BY DEF com_put, com_view, Fetched, Fetching, Copying
<1>5. ASSUME com_get(n) PROVE FALSE
  <2>1. job'.op = "get"
    BY <1>5 DEF com_get, GetFile, NoJob
  <2>2. QED
    BY <2>1 DEF Fetched
<1>6. CASE com_get_r(n)
  <2>1. PICK p \in Seq(Names), b \in Seq(LocalNames), l \in Seq(LocalNames) :
          p = ServerPath(n) /\ b = Append(lcwd, n) /\ l = lcwd
    BY PathFacts
  <2>2. PICK j : j = [NoJob EXCEPT !.op = "getr", !.start = l, !.arg = p, !.base = b]
    OBVIOUS
  <2>3. j \in Job /\ j.arg = p /\ j.base = b
    BY <1>1, <2>1, <2>2 DEF Job, AllOps
  <2>4. EnterDir(<<>>, j, p, n) /\ remote' = remote
    BY <1>6, <2>1, <2>2 DEF com_get_r
  <2>5. QED
    BY <2>1, <2>3, <2>4, TopWalks
<1>7. QED
  BY <1>2, <1>3, <1>4, <1>5, <1>6 DEF Command

LEMMA NextWalks ==
  Types /\ HomeInv /\ GetInv /\ WalkInv /\ [Next]_vars => WalkInv'
<1> SUFFICES ASSUME Types, HomeInv, GetInv, WalkInv, [Next]_vars, Fetched'
             PROVE  InPlace' /\ Chained(frames, job.arg)' /\ Complete'
  BY DEF WalkInv
<1>1. CASE UNCHANGED <<remote, local, lcwd, pc, frames, job>>
  BY <1>1 DEF WalkInv, Fetched, InPlace, Chained, Complete, Due, Copied, Copy, InList, Unlisted,
              InHand
<1>2. CASE UNCHANGED vars \/ ServerCloses
  BY <1>1, <1>2 DEF vars, ServerCloses, place
<1>3. CASE StartAlone \/ cmdline_server_startup
  <2>1. pc = "startup" /\ pc' \in {"ready", "leaving", "start"}
        /\ (pc' = "ready" => job' = job \/ job' = NoJob)
    BY <1>3 DEF StartAlone, cmdline_server_startup
  <2>2. job.op # "getr" /\ NoJob.op # "getr"
    BY <2>1, NoJobFacts DEF GetInv, Fetching, Copying
  <2>3. QED
    BY <2>1, <2>2 DEF Fetched, Fetching, Copying
<1>4. CASE com_connect \/ com_disconnect \/ CdStart
  <2>1. job' = NoJob \/ \E l, p : job' = [NoJob EXCEPT !.op = "cd", !.start = l, !.arg = p]
    BY <1>4 DEF com_connect, com_disconnect, CdStart
  <2>2. job'.op # "getr"
    BY <2>1, NoJobFacts DEF Job
  <2>3. QED
    BY <2>2 DEF Fetched
<1>5. ~Quit /\ ~Crash
  BY DEF Quit, Crash, Fetched, Fetching, Copying
<1>6. ASSUME NEW n \in Names, Command(n)
      PROVE  InPlace' /\ Chained(frames, job.arg)' /\ Complete'
  BY <1>6, CommandWalks
<1>7. ASSUME NEW ok \in BOOLEAN, Request(ok)
      PROVE  InPlace' /\ Chained(frames, job.arg)' /\ Complete'
  BY <1>7, RequestWalks
<1>8. CASE GetDirEntry
  BY <1>8, EntryWalks
<1>9. ASSUME NEW n \in Names, Other(Append(curdir, n)) PROVE FALSE
  <2>1. job' = [job EXCEPT !.excuses = @ \cup {"other"}] /\ job \in Job
    BY <1>9 DEF Other, Types, JobOK
  <2>2. job'.excuses # {}
    BY <2>1 DEF Job
  <2>3. QED
    BY <2>2 DEF Fetched
<1>10. QED
  BY <1>2, <1>3, <1>4, <1>5, <1>6, <1>7, <1>8, <1>9 DEF Next

LEMMA InitGets == Init => GetInv /\ WalkInv
BY NoJobFacts DEF Init, GetInv, WalkInv, Fetched, Fetching, Copying

\* What get has fetched is there whole, when nobody interfered, and so is every
\* directory that get -r has fetched, with all that is in it.
THEOREM CopiesAreRight == Spec => []CopiesAreWhole
<1>1. Init => Types /\ HomeInv /\ GetInv /\ WalkInv
  <2>1. Init => HomeInv
    BY DEF Init, HomeInv, NoJob
  <2>2. QED
    BY <2>1, InitTypes, InitGets
<1>2. Types /\ HomeInv /\ GetInv /\ WalkInv /\ [Next]_vars
        => (Types /\ HomeInv /\ GetInv /\ WalkInv)'
  BY NextTypes, NextHome, NextGets, NextWalks
<1>3. Types /\ HomeInv /\ GetInv /\ WalkInv => CopiesAreWhole
  <2> SUFFICES ASSUME Types, HomeInv, GetInv, WalkInv, Undisturbed PROVE CopiesAreWhole
    BY DEF CopiesAreWhole
  <2>1. ASSUME job.op = "get", Has(remote, job.arg, "file")
        PROVE  Has(local, job.base, "file") /\ local[job.base].data = remote[job.arg].data
    BY <2>1 DEF GetInv, IsCopied, Undisturbed
  <2>2. ASSUME job.op = "getr", Has(remote, job.arg, "dir"), NEW p \in Under(remote, job.arg),
               remote[p].kind = "dir" \/ Plain(Last(p))
        PROVE  /\ job.base \o Rest(job.arg, p) \in DOMAIN local
               /\ local[job.base \o Rest(job.arg, p)] = remote[p]
    <3>1. Complete /\ pc = "ready"
      BY <2>2 DEF WalkInv, Fetched, Undisturbed
    <3>2. frames = <<>>
      BY <3>1, FramesIdle DEF Types, Fetching, Copying
    <3>3. ~InList(frames, p) /\ ~Unlisted(p) /\ ~InHand(p)
      BY <3>1, <3>2 DEF InList, Unlisted, InHand, Copying
    <3>4. p \in DOMAIN remote /\ Due(p)
      BY <2>2 DEF Under, Due
    <3>5. Copied(p)
      BY <3>1, <3>3, <3>4 DEF Complete
    <3>6. QED
      BY <3>5 DEF Copied, Copy
  <2>3. QED
    BY <2>1, <2>2 DEF CopiesAreWhole
<1>4. QED
  BY <1>1, <1>2, <1>3, PTL DEF Spec
=============================================================================
