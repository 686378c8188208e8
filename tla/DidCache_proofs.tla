--------------------------- MODULE DidCache_proofs ---------------------------
(***************************************************************************)
(* Theorems about the cache of directory ids, for any number of threads,   *)
(* directories and names, any depth and any timeout.                       *)
(***************************************************************************)
EXTENDS DidCache, SequenceTheorems, WellFoundedInduction, TLAPS

LEMMA LeastOf ==
  ASSUME NEW S, S \subseteq Nat, S # {}
  PROVE  \E x \in S : \A y \in S : x <= y
<1> DEFINE R == OpToRel(<, Nat)
<1>1. PICK x \in S : \A y \in S : ~ (<<y, x>> \in R)
  <2>1. IsWellFoundedOn(R, Nat)
    BY NatLessThanWellFounded
  <2> HIDE DEF R
  <2> QED
    BY <2>1, WFMin
<1>2. \A y \in S : ~(y < x)
  BY <1>1 DEF OpToRel
<1> QED
  BY <1>2

\* What holds of 0 and of each number after one of which it holds, as far as m,
\* holds as far as m: H is the set of the numbers it holds of.
LEMMA AsFarAs ==
  ASSUME NEW m \in Nat, NEW H, 0 \in H, \A n \in 1..m : n - 1 \in H => n \in H
  PROVE  m \in H
<1> DEFINE T == {n \in 0..m : n \notin H}
<1>1. T \subseteq Nat
  OBVIOUS
<1>2. T = {}
  <2> SUFFICES ASSUME T # {} PROVE FALSE
    OBVIOUS
  <2>1. PICK n \in T : \A j \in T : n <= j
    <3> HIDE DEF T
    <3> QED
      BY <1>1, LeastOf
  <2>2. n \in 1..m /\ n \notin H
    <3>1. n # 0
      OBVIOUS
    <3> QED
      BY <3>1
  <2>3. n - 1 \in 0..m /\ n - 1 \notin H
    BY <2>2
  <2>4. n - 1 \in T
    BY <2>3
  <2>5. ~(n <= n - 1)
    BY <2>2
  <2> HIDE DEF T
  <2> QED
    BY <2>1, <2>4, <2>5
<1> QED
  BY <1>2

-----------------------------------------------------------------------------
(* Paths, and where they lead *)

AllPaths == Paths \cup {<<>>}

LEMMA PathsAre ==
  /\ \A p : p \in Paths <=> p \in Seq(Names) /\ Len(p) \in 1..Depth
  /\ <<>> \notin Paths
<1>1. ASSUME NEW p, p \in Seq(Names), Len(p) \in 1..Depth PROVE p \in Paths
  <2>1. p \in [1..Len(p) -> Names]
    BY <1>1, LenProperties
  <2> QED
    BY <1>1, <2>1 DEF Paths
<1>2. ASSUME NEW p \in Paths PROVE p \in Seq(Names) /\ Len(p) \in 1..Depth
  <2>1. PICK k \in 1..Depth : p \in [1..k -> Names]
    BY DEF Paths
  <2>2. k \in Nat
    BY <2>1, DidConstants
  <2>3. p \in Seq(Names)
    BY <2>1, <2>2, SeqDef
  <2>4. DOMAIN p = 1..k /\ DOMAIN p = 1..Len(p) /\ Len(p) \in Nat
    BY <2>1, <2>3, LenProperties
  <2> QED
    BY <2>2, <2>3, <2>4
<1>3. Len(<<>>) = 0 /\ 0 \notin 1..Depth
  OBVIOUS
<1> QED
  BY <1>1, <1>2, <1>3

LEMMA PathIs ==
  \A p : p \in AllPaths <=> p \in Seq(Names) /\ Len(p) \in 0..Depth
<1>1. <<>> \in Seq(Names) /\ Len(<<>>) = 0
  OBVIOUS
<1>2. \A p \in Seq(Names) : Len(p) = 0 => p = <<>>
  BY EmptySeq
<1>3. \A n \in 0..Depth : n = 0 \/ n \in 1..Depth
  BY DidConstants
<1>4. 0 \in 0..Depth /\ 1..Depth \subseteq 0..Depth
  BY DidConstants
<1> QED
  BY <1>1, <1>2, <1>3, <1>4, PathsAre DEF AllPaths

\* The first k names of a path
LEMMA Prefix ==
  ASSUME NEW p \in AllPaths, NEW k \in 0..Len(p)
  PROVE  /\ SubSeq(p, 1, k) \in AllPaths
         /\ Len(SubSeq(p, 1, k)) = k
         /\ \A i \in 1..k : SubSeq(p, 1, k)[i] = p[i]
         /\ k > 0 => SubSeq(p, 1, k) \in Paths
<1>1. p \in Seq(Names) /\ Len(p) \in 0..Depth
  BY PathIs
<1>2. k \in Int /\ k >= 0 /\ k <= Depth
  BY <1>1, DidConstants
<1>3. \A i \in 1..k : p[i] \in Names
  BY <1>1, ElementOfSeq
<1>4. /\ SubSeq(p, 1, k) \in Seq(Names)
      /\ Len(SubSeq(p, 1, k)) = IF 1 <= k THEN k - 1 + 1 ELSE 0
      /\ \A i \in 1..k - 1 + 1 : SubSeq(p, 1, k)[i] = p[1 + i - 1]
  BY <1>2, <1>3, SubSeqProperties
<1>5. Len(SubSeq(p, 1, k)) = k
  BY <1>2, <1>4
<1>6. \A i \in 1..k : SubSeq(p, 1, k)[i] = p[i]
  BY <1>2, <1>4
<1>7. k \in 0..Depth /\ (k > 0 => k \in 1..Depth)
  BY <1>1, <1>2
<1> QED
  BY <1>4, <1>5, <1>6, <1>7, PathIs, PathsAre

LEMMA FrontOfPath ==
  ASSUME NEW p \in AllPaths, p # <<>>
  PROVE  /\ Front(p) \in AllPaths /\ Len(p) \in 1..Depth
         /\ Len(Front(p)) = Len(p) - 1
<1>1. p \in Seq(Names) /\ Len(p) \in 0..Depth
  BY PathIs
<1>2. Len(p) # 0
  BY <1>1, EmptySeq
<1>3. Len(p) - 1 \in 0..Len(p) /\ Len(p) \in 1..Depth
  BY <1>1, <1>2, DidConstants
<1> QED
  BY <1>3, Prefix DEF Front

LEMMA FrontOfPrefix ==
  ASSUME NEW p \in AllPaths, NEW k \in 0..Len(p) - 1
  PROVE  /\ SubSeq(p, 1, k + 1) # <<>>
         /\ Front(SubSeq(p, 1, k + 1)) = SubSeq(p, 1, k)
         /\ Last(SubSeq(p, 1, k + 1)) = p[k + 1]
<1> DEFINE q == SubSeq(p, 1, k + 1)
<1>1. Len(p) \in Nat /\ k \in Nat
  BY PathIs
<1>2. k \in 0..Len(p) /\ k + 1 \in 0..Len(p) /\ k \in 0..k + 1
  BY <1>1
<1>3. q \in AllPaths /\ Len(q) = k + 1 /\ \A i \in 1..k + 1 : q[i] = p[i]
  BY <1>2, Prefix
<1>4. SubSeq(p, 1, k) \in AllPaths /\ Len(SubSeq(p, 1, k)) = k
      /\ \A i \in 1..k : SubSeq(p, 1, k)[i] = p[i]
  BY <1>2, Prefix
<1>5. SubSeq(q, 1, k) \in AllPaths /\ Len(SubSeq(q, 1, k)) = k
      /\ \A i \in 1..k : SubSeq(q, 1, k)[i] = q[i]
  BY <1>2, <1>3, Prefix
<1>6. SubSeq(q, 1, k) = SubSeq(p, 1, k)
  <2>1. SubSeq(q, 1, k) \in Seq(Names) /\ SubSeq(p, 1, k) \in Seq(Names)
    BY <1>4, <1>5, PathIs
  <2>2. \A i \in 1..k : SubSeq(q, 1, k)[i] = SubSeq(p, 1, k)[i]
    BY <1>1, <1>3, <1>4, <1>5
  <2> HIDE DEF q
  <2> QED
    BY <1>4, <1>5, <2>1, <2>2, SeqEqual
<1>7. q # <<>>
  BY <1>1, <1>3
<1>8. Len(q) - 1 = k /\ q[Len(q)] = p[k + 1]
  BY <1>1, <1>3
<1> HIDE DEF q
<1>9. Front(q) = SubSeq(q, 1, k) /\ Last(q) = p[k + 1]
  BY <1>8 DEF Front, Last
<1> QED
  BY <1>6, <1>7, <1>9 DEF q

\* The paths as far as n names, and a function that says where they lead
AsLongAs(n) == {p \in AllPaths : Len(p) <= n}

WalkedFor(t, f, n) ==
  f = [p \in AsLongAs(n) |-> IF p = <<>> THEN Root ELSE ChildIn(t, f[Front(p)], Last(p))]

LEMMA WalkExists ==
  ASSUME NEW t
  PROVE  \E f : WalkedFor(t, f, Depth)
<1> DEFINE H == {n \in Nat : \E f : WalkedFor(t, f, n)}
<1>1. 0 \in H
  <2> DEFINE f == [p \in AsLongAs(0) |-> Root]
  <2>1. \A p \in AsLongAs(0) : p = <<>>
    BY PathIs, EmptySeq DEF AsLongAs
  <2>2. WalkedFor(t, f, 0)
    BY <2>1 DEF WalkedFor
  <2> QED
    BY <2>2
<1>2. ASSUME NEW n \in 1..Depth, n - 1 \in H PROVE n \in H
  <2>1. PICK f : WalkedFor(t, f, n - 1)
    BY <1>2
  <2> DEFINE to(p) == IF p = <<>> THEN Root ELSE ChildIn(t, f[Front(p)], Last(p))
             g == [p \in AsLongAs(n) |-> to(p)]
  <2>2. \A p \in AsLongAs(n - 1) : p \in AsLongAs(n) /\ f[p] = to(p)
    <3>1. \A p \in AsLongAs(n - 1) : p \in AsLongAs(n)
      BY PathIs, DidConstants DEF AsLongAs
    <3>2. f = [p \in AsLongAs(n - 1) |-> to(p)]
      BY <2>1 DEF WalkedFor
    <3> HIDE DEF to
    <3> QED
      BY <3>1, <3>2
  <2>3. ASSUME NEW p \in AsLongAs(n), p # <<>>
        PROVE  Front(p) \in AsLongAs(n - 1)
    <3>1. /\ Front(p) \in AllPaths /\ Len(p) \in 1..Depth /\ Len(p) <= n
          /\ Len(Front(p)) = Len(p) - 1
      BY <2>3, FrontOfPath DEF AsLongAs
    <3> QED
      BY <3>1, DidConstants DEF AsLongAs
  <2>4. \A p \in AsLongAs(n) : p # <<>> => g[Front(p)] = f[Front(p)]
    <3> HIDE DEF to
    <3> QED
      BY <2>2, <2>3
  <2>5. \A p \in AsLongAs(n) :
          to(p) = IF p = <<>> THEN Root ELSE ChildIn(t, g[Front(p)], Last(p))
    BY <2>4
  <2>6. WalkedFor(t, g, n)
    <3> HIDE DEF to
    <3> QED
      BY <2>5 DEF WalkedFor
  <2>7. n \in Nat
    BY DidConstants
  <2> QED
    BY <2>6, <2>7
<1>3. Depth \in H
  <2> HIDE DEF H
  <2> QED
    BY <1>1, <1>2, AsFarAs, DidConstants
<1> QED
  BY <1>3

\* A path leads where the directory before its last name says.
LEMMA LeadsIs ==
  ASSUME NEW t, NEW p \in AllPaths
  PROVE  Leads(t)[p] = IF p = <<>> THEN Root ELSE ChildIn(t, Leads(t)[Front(p)], Last(p))
<1>1. AsLongAs(Depth) = AllPaths
  BY PathIs, DidConstants DEF AsLongAs
<1>2. \E f : f = [q \in AllPaths |->
                   IF q = <<>> THEN Root ELSE ChildIn(t, f[Front(q)], Last(q))]
  BY <1>1, WalkExists, Zenon DEF WalkedFor
<1>3. Leads(t) = [q \in AllPaths |->
                    IF q = <<>> THEN Root ELSE ChildIn(t, Leads(t)[Front(q)], Last(q))]
  BY <1>2, Zenon DEF Leads, AllPaths
<1> QED
  BY <1>3

LEMMA Deeper ==
  ASSUME NEW p \in AllPaths, NEW k \in 0..Len(p) - 1
  PROVE  Resolve(SubSeq(p, 1, k + 1)) = Child(Resolve(SubSeq(p, 1, k)), p[k + 1])
<1>1. k + 1 \in 0..Len(p)
  BY PathIs
<1>2. SubSeq(p, 1, k + 1) \in AllPaths
  BY <1>1, Prefix
<1> QED
  BY <1>2, LeadsIs, FrontOfPrefix DEF Resolve, Child

-----------------------------------------------------------------------------
(* A pass through the cache *)

Acc == [kept : Seq(Entry), first : BOOLEAN, skip : BOOLEAN, stop : BOOLEAN,
        did : Dids \cup {Root, Null}]

NoneVisited == [kept |-> <<>>, first |-> TRUE, skip |-> FALSE, stop |-> FALSE, did |-> Null]

PassedBy(path, f, n) ==
  f = [i \in 0..n |-> IF i = 0 THEN NoneVisited ELSE Visit(f[i - 1], cache[i], path)]

LEMMA PassExists ==
  ASSUME NEW path, NEW m \in Nat
  PROVE  \E f : PassedBy(path, f, m)
<1> DEFINE H == {n \in Nat : \E f : PassedBy(path, f, n)}
<1>1. 0 \in H
  <2> DEFINE f == [i \in 0..0 |-> NoneVisited]
  <2>1. PassedBy(path, f, 0)
    BY DEF PassedBy
  <2> QED
    BY <2>1
<1>2. ASSUME NEW n \in 1..m, n - 1 \in H PROVE n \in H
  <2>1. PICK f : PassedBy(path, f, n - 1)
    BY <1>2
  <2> DEFINE step(i) == IF i = 0 THEN NoneVisited ELSE Visit(f[i - 1], cache[i], path)
             g == [i \in 0..n |-> step(i)]
  <2>2. \A i \in 0..n - 1 : i \in 0..n /\ f[i] = step(i)
    <3>1. f = [i \in 0..n - 1 |-> step(i)]
      BY <2>1 DEF PassedBy
    <3> HIDE DEF step
    <3> QED
      BY <3>1
  <2>3. \A i \in 0..n : i # 0 => i - 1 \in 0..n - 1
    OBVIOUS
  <2>4. \A i \in 0..n : i # 0 => g[i - 1] = f[i - 1]
    <3> HIDE DEF step
    <3> QED
      BY <2>2, <2>3
  <2>5. \A i \in 0..n : step(i) = IF i = 0 THEN NoneVisited ELSE Visit(g[i - 1], cache[i], path)
    <3> HIDE DEF g
    <3> QED
      BY <2>4
  <2>6. PassedBy(path, g, n)
    <3> HIDE DEF step
    <3> QED
      BY <2>5 DEF PassedBy
  <2> QED
    BY <2>6
<1>3. m \in H
  <2> HIDE DEF H
  <2> QED
    BY <1>1, <1>2, AsFarAs
<1> QED
  BY <1>3

\* What one visit does to what was found so far
VisitLeads(acc, e, path, r) ==
  /\ r \in Acc
  /\ r.kept \in {<<>>, acc.kept, Append(acc.kept, e)}
  /\ \/ r.did \in {acc.did, Null}
     \/ r.did = e.did /\ e.path = path /\ ~Expired(e)

LEMMA VisitIs ==
  ASSUME NEW acc \in Acc, NEW e \in Entry, NEW path
  PROVE  VisitLeads(acc, e, path, Visit(acc, e, path))
<1>0. /\ acc.kept \in Seq(Entry) /\ Append(acc.kept, e) \in Seq(Entry) /\ <<>> \in Seq(Entry)
      /\ e.did \in Dids \cup {Root} /\ acc.first \in BOOLEAN
      /\ (e.path = path) \in BOOLEAN /\ (acc.kept = <<>>) \in BOOLEAN
  BY AppendProperties DEF Acc, Entry
<1>1. CASE acc.stop
  <2>1. PICK r : r = [acc EXCEPT !.kept = Append(acc.kept, e)]
    OBVIOUS
  <2>2. Visit(acc, e, path) = r
    BY <1>1, <2>1 DEF Visit
  <2> QED
    BY <1>0, <2>1, <2>2 DEF Acc, VisitLeads
<1>2. CASE ~acc.stop /\ acc.skip
  <2>1. PICK q : q = [acc EXCEPT !.kept = Append(acc.kept, e)]
    OBVIOUS
  <2>2. PICK r : r = [q EXCEPT !.skip = FALSE]
    OBVIOUS
  <2>3. Visit(acc, e, path) = r
    BY <1>2, <2>1, <2>2 DEF Visit
  <2> QED
    BY <1>0, <2>1, <2>2, <2>3 DEF Acc, VisitLeads
<1>3. CASE ~acc.stop /\ ~acc.skip /\ Expired(e) /\ ~acc.first
  <2>1. Visit(acc, e, path) = acc
    BY <1>3 DEF Visit
  <2> QED
    BY <1>0, <2>1 DEF Acc, VisitLeads
<1>4. CASE ~acc.stop /\ ~acc.skip /\ Expired(e) /\ acc.first
  <2>1. PICK p : p = [acc EXCEPT !.kept = <<>>]
    OBVIOUS
  <2>2. PICK q : q = [p EXCEPT !.skip = TRUE]
    OBVIOUS
  <2>3. PICK r : r = [q EXCEPT !.stop = e.path = path]
    OBVIOUS
  <2>4. Visit(acc, e, path) = r
    BY <1>4, <2>1, <2>2, <2>3 DEF Visit
  <2> QED
    BY <1>0, <2>1, <2>2, <2>3, <2>4 DEF Acc, VisitLeads
<1>5. CASE ~acc.stop /\ ~acc.skip /\ ~Expired(e)
  <2>1. PICK p : p = [acc EXCEPT !.kept = Append(acc.kept, e)]
    OBVIOUS
  <2>2. PICK q : q = [p EXCEPT !.first = acc.kept = <<>>]
    OBVIOUS
  <2>3. PICK o : o = [q EXCEPT !.stop = e.path = path]
    OBVIOUS
  <2>4. PICK r : r = [o EXCEPT !.did = IF e.path = path THEN e.did ELSE Null]
    OBVIOUS
  <2>5. Visit(acc, e, path) = r
    BY <1>5, <2>1, <2>2, <2>3, <2>4 DEF Visit
  <2> QED
    BY <1>0, <1>5, <2>1, <2>2, <2>3, <2>4, <2>5 DEF Acc, VisitLeads
<1> QED
  BY <1>1, <1>2, <1>3, <1>4, <1>5

\* Of the entries for a path all but the newest have expired.
OneAlive(c) ==
  \A i, j \in 1..Len(c) : i < j /\ c[i].path = c[j].path => Expired(c[j])

\* What a pass has found when it has visited i entries
PassSoFar(acc, i, path) ==
  /\ acc \in Acc
  /\ \A m \in 1..Len(acc.kept) : \E j \in 1..i : acc.kept[m] = cache[j]
  /\ OneAlive(cache) => OneAlive(acc.kept)
  /\ acc.did # Null =>
       \E j \in 1..i : cache[j].path = path /\ ~Expired(cache[j]) /\ acc.did = cache[j].did

LEMMA VisitKeeps ==
  ASSUME cache \in Seq(Entry), NEW i \in 1..Len(cache), NEW path, NEW acc,
         PassSoFar(acc, i - 1, path)
  PROVE  PassSoFar(Visit(acc, cache[i], path), i, path)
<1> DEFINE e == cache[i]
<1>1. PICK r : r = Visit(acc, e, path)
  OBVIOUS
<1>2. e \in Entry /\ acc \in Acc /\ acc.kept \in Seq(Entry) /\ Len(acc.kept) \in Nat
  BY ElementOfSeq DEF PassSoFar, Acc
<1>3. VisitLeads(acc, e, path, r)
  <2> HIDE DEF e
  <2> QED
    BY <1>1, <1>2, VisitIs
<1>4. i \in Nat /\ i > 0 /\ i <= Len(cache) /\ i \in 1..i /\ (\A j \in 1..i - 1 : j \in 1..i /\ j < i)
      /\ \A j \in 1..i : j \in 1..Len(cache)
  OBVIOUS
<1>5. \A m \in 1..Len(acc.kept) : \E j \in 1..i - 1 : acc.kept[m] = cache[j]
  BY DEF PassSoFar
<1>6. /\ \A m \in 1..Len(r.kept) : \E j \in 1..i : r.kept[m] = cache[j]
      /\ OneAlive(cache) => OneAlive(r.kept)
  <2>1. CASE r.kept = <<>>
    <3>1. Len(r.kept) = 0
      BY <2>1
    <3> QED
      BY <3>1 DEF OneAlive
  <2>2. CASE r.kept = acc.kept
    BY <1>4, <1>5, <2>2 DEF PassSoFar
  <2>3. CASE r.kept = Append(acc.kept, e)
    <3>1. /\ Len(r.kept) = Len(acc.kept) + 1
          /\ \A m \in 1..Len(acc.kept) : r.kept[m] = acc.kept[m]
          /\ r.kept[Len(acc.kept) + 1] = e
      BY <1>2, <2>3, AppendProperties
    <3>2. \A m \in 1..Len(r.kept) : m \in 1..Len(acc.kept) \/ m = Len(acc.kept) + 1
      BY <1>2, <3>1
    <3>3. \A m \in 1..Len(r.kept) : \E j \in 1..i : r.kept[m] = cache[j]
      BY <1>4, <1>5, <3>1, <3>2
    <3>4. ASSUME OneAlive(cache), NEW m \in 1..Len(r.kept), NEW n \in 1..Len(r.kept),
                 m < n, r.kept[m].path = r.kept[n].path
          PROVE  Expired(r.kept[n])
      <4>1. m \in 1..Len(acc.kept)
        BY <1>2, <3>1, <3>4
      <4>2. CASE n \in 1..Len(acc.kept)
        <5>1. OneAlive(acc.kept)
          BY <3>4 DEF PassSoFar
        <5> QED
          BY <3>1, <3>4, <4>1, <4>2, <5>1 DEF OneAlive
      <4>3. CASE n = Len(acc.kept) + 1
        <5>1. PICK j \in 1..i - 1 : acc.kept[m] = cache[j]
          BY <1>5, <4>1
        <5>2. j < i /\ j \in 1..Len(cache) /\ cache[j].path = cache[i].path
          BY <1>4, <3>1, <3>4, <4>1, <4>3, <5>1
        <5>3. Expired(cache[i])
          BY <3>4, <5>2 DEF OneAlive
        <5> QED
          BY <3>1, <4>3, <5>3
      <4> QED
        BY <3>2, <4>2, <4>3
    <3> QED
      BY <3>3, <3>4 DEF OneAlive
  <2> QED
    BY <1>3, <2>1, <2>2, <2>3 DEF VisitLeads
<1>7. r.did # Null =>
        \E j \in 1..i : cache[j].path = path /\ ~Expired(cache[j]) /\ r.did = cache[j].did
  BY <1>3, <1>4 DEF VisitLeads, PassSoFar
<1>8. r \in Acc
  BY <1>3 DEF VisitLeads
<1> QED
  BY <1>1, <1>6, <1>7, <1>8 DEF PassSoFar

LEMMA SearchIs ==
  ASSUME cache \in Seq(Entry), NEW path
  PROVE  PassSoFar(Search(path), Len(cache), path)
<1>1. Len(cache) \in Nat
  OBVIOUS
<1>2. PICK f : /\ PassedBy(path, f, Len(cache))
               /\ Search(path) = f[Len(cache)]
  <2>1. \E f : f = [i \in 0..Len(cache) |->
                      IF i = 0 THEN NoneVisited ELSE Visit(f[i - 1], cache[i], path)]
    BY <1>1, PassExists DEF PassedBy
  <2> DEFINE pass == CHOOSE f : f = [i \in 0..Len(cache) |->
                      IF i = 0 THEN NoneVisited ELSE Visit(f[i - 1], cache[i], path)]
  <2>2. pass = [i \in 0..Len(cache) |->
                  IF i = 0 THEN NoneVisited ELSE Visit(pass[i - 1], cache[i], path)]
    BY <2>1, Zenon
  <2>3. Search(path) = pass[Len(cache)]
    BY Zenon DEF Search, NoneVisited
  <2> HIDE DEF pass
  <2> QED
    BY <2>2, <2>3 DEF PassedBy
<1>3. \A i \in 0..Len(cache) : f[i] = IF i = 0 THEN NoneVisited ELSE Visit(f[i - 1], cache[i], path)
  BY <1>2 DEF PassedBy
<1> DEFINE H == {i \in 0..Len(cache) : PassSoFar(f[i], i, path)}
<1>4. 0 \in H
  <2>1. f[0] = NoneVisited /\ 0 \in 0..Len(cache)
    BY <1>1, <1>3
  <2>2. NoneVisited \in Acc /\ Len(NoneVisited.kept) = 0 /\ NoneVisited.did = Null
    BY DEF NoneVisited, Acc
  <2>3. PassSoFar(NoneVisited, 0, path)
    BY <2>2 DEF PassSoFar, OneAlive
  <2> QED
    BY <2>1, <2>3
<1>5. ASSUME NEW i \in 1..Len(cache), i - 1 \in H PROVE i \in H
  <2>1. PassSoFar(f[i - 1], i - 1, path)
    BY <1>5
  <2>2. PassSoFar(Visit(f[i - 1], cache[i], path), i, path)
    BY <2>1, VisitKeeps
  <2>3. i \in 0..Len(cache) /\ f[i] = Visit(f[i - 1], cache[i], path)
    BY <1>1, <1>3
  <2> QED
    BY <2>2, <2>3
<1>6. Len(cache) \in H
  <2> HIDE DEF H
  <2> QED
    BY <1>1, <1>4, <1>5, AsFarAs
<1> QED
  BY <1>2, <1>6

-----------------------------------------------------------------------------
(* Types *)

\* What a step that proceeds makes of the other threads
LEMMA ProceedIs ==
  ASSUME TypeOK, NEW t \in Threads, NEW f \in Frame, NEW c, Proceed(t, f, c)
  PROVE  /\ cache' = c /\ th' \in [Threads -> Frame] /\ th'[t] = f
         /\ \A u \in Threads \ {t} :
              \/ th'[u] = th[u]
              \/ th[u].pc = "find" /\ th'[u] = [th[u] EXCEPT !.moved = TRUE]
<1>1. th \in [Threads -> Frame] /\ Threads = DOMAIN th
  BY DEF TypeOK
<1>2. \A u \in Threads : [th[u] EXCEPT !.moved = TRUE] \in Frame
  BY <1>1 DEF Frame
<1> QED
  BY <1>1, <1>2 DEF Proceed

LEMMA MovedLocated ==
  ASSUME NEW g \in Frame, g.pc = "find", Located(g)
  PROVE  Located([g EXCEPT !.moved = TRUE])
BY DEF Frame, Located

LEMMA ProceedTypes ==
  ASSUME TypeOK, NEW t \in Threads, NEW f \in Frame, NEW c \in Seq(Entry), Located(f),
         Proceed(t, f, c), tree' \in [Dids -> Places \cup {Null}], freed' \in BOOLEAN,
         now' \in 0..MaxTime, changed' \in 0..MaxTime, changes' \in 0..MaxChanges,
         races' \subseteq RaceKinds
  PROVE  TypeOK'
<1>1. th \in [Threads -> Frame] /\ \A u \in Threads : Located(th[u])
  BY DEF TypeOK
<1>2. /\ cache' = c /\ th' \in [Threads -> Frame] /\ th'[t] = f
      /\ \A u \in Threads \ {t} :
           \/ th'[u] = th[u]
           \/ th[u].pc = "find" /\ th'[u] = [th[u] EXCEPT !.moved = TRUE]
  BY ProceedIs
<1>3. \A u \in Threads : Located(th'[u])
  BY <1>1, <1>2, MovedLocated
<1> QED
  BY <1>2, <1>3 DEF TypeOK, Located

LEMMA IdleTypes == Idle \in Frame /\ Located(Idle)
<1>1. Idle \in Frame
  BY DidConstants DEF Idle, Frame, PCs
<1> QED
  BY <1>1 DEF Located, Idle

\* A thread begins with a path.
LEMMA BeginTypes ==
  ASSUME NEW p \in Paths
  PROVE  /\ [Idle EXCEPT !.pc = "base", !.path = p, !.k = Len(p)] \in Frame
         /\ Located([Idle EXCEPT !.pc = "base", !.path = p, !.k = Len(p)])
         /\ [Idle EXCEPT !.pc = "invalidate", !.path = p] \in Frame
         /\ Located([Idle EXCEPT !.pc = "invalidate", !.path = p])
<1>1. Len(p) \in 1..Depth /\ Len(p) \in 0..Depth
  BY PathsAre, DidConstants
<1>2. 0 \in 0..Depth /\ 0 \in 0..MaxTime
  BY DidConstants
<1>3. PICK f : f = [Idle EXCEPT !.pc = "base", !.path = p, !.k = Len(p)]
  OBVIOUS
<1>4. f = [pc |-> "base", path |-> p, k |-> Len(p), did |-> Null, isdir |-> FALSE,
           fileid |-> Null, time |-> 0, moved |-> FALSE]
  BY <1>3 DEF Idle
<1>5. f \in Frame /\ Located(f)
  BY <1>1, <1>2, <1>4 DEF Frame, PCs, Located
<1>6. PICK g : g = [Idle EXCEPT !.pc = "invalidate", !.path = p]
  OBVIOUS
<1>7. g = [pc |-> "invalidate", path |-> p, k |-> 0, did |-> Null, isdir |-> FALSE,
           fileid |-> Null, time |-> 0, moved |-> FALSE]
  BY <1>6 DEF Idle
<1>8. g \in Frame /\ Located(g)
  BY <1>1, <1>2, <1>7 DEF Frame, PCs, Located
<1> QED
  BY <1>3, <1>5, <1>6, <1>8

\* The frame g with all but its path replaced
FrameOf(g, pc, k, did, isdir, fileid, time, moved) ==
  [pc |-> pc, path |-> g.path, k |-> k, did |-> did, isdir |-> isdir,
   fileid |-> fileid, time |-> time, moved |-> moved]

LEMMA FrameOfType ==
  ASSUME NEW g \in Frame, NEW pc \in PCs, NEW k \in 0..Depth, NEW did \in Dids \cup {Root, Null},
         NEW isdir \in BOOLEAN, NEW fileid \in Dids \cup {Root, Null}, NEW time \in 0..MaxTime,
         NEW moved \in BOOLEAN
  PROVE  FrameOf(g, pc, k, did, isdir, fileid, time, moved) \in Frame
BY DEF Frame, FrameOf

\* The frames that the steps of a lookup leave
Led(g, d, pc) == [g EXCEPT !.did = d, !.pc = pc]
Gone(g, pc, k, d) == [g EXCEPT !.pc = pc, !.k = k, !.did = d]
Answered(g, id, n) == [g EXCEPT !.pc = "add", !.isdir = TRUE, !.fileid = id, !.time = n]

LEMMA Steps ==
  ASSUME NEW g \in Frame
  PROVE  /\ [g EXCEPT !.pc = "find", !.moved = FALSE] =
              FrameOf(g, "find", g.k, g.did, g.isdir, g.fileid, g.time, FALSE)
         /\ \A d, pc : Led(g, d, pc) =
              FrameOf(g, pc, g.k, d, g.isdir, g.fileid, g.time, g.moved)
         /\ \A k : [g EXCEPT !.pc = "base", !.k = k] =
              FrameOf(g, "base", k, g.did, g.isdir, g.fileid, g.time, g.moved)
         /\ \A pc, k, d : Gone(g, pc, k, d) =
              FrameOf(g, pc, k, d, g.isdir, g.fileid, g.time, g.moved)
         /\ \A id, n : Answered(g, id, n) =
              FrameOf(g, "add", g.k, g.did, TRUE, id, n, g.moved)
         /\ [g EXCEPT !.pc = "done"] =
              FrameOf(g, "done", g.k, g.did, g.isdir, g.fileid, g.time, g.moved)
<1>1. [g EXCEPT !.pc = "find", !.moved = FALSE] = FrameOf(g, "find", g.k, g.did, g.isdir, g.fileid, g.time, FALSE)
  <2>1. PICK h1 : h1 = [g EXCEPT !.pc = "find"]
    OBVIOUS
  <2>2. PICK h2 : h2 = [h1 EXCEPT !.moved = FALSE]
    OBVIOUS
  <2>3. [g EXCEPT !.pc = "find", !.moved = FALSE] = h2
    BY <2>1, <2>2
  <2>4. h2 = FrameOf(g, "find", g.k, g.did, g.isdir, g.fileid, g.time, FALSE)
    BY <2>1, <2>2 DEF Frame, FrameOf
  <2> QED
    BY <2>3, <2>4
<1>2. ASSUME NEW d, NEW pc
      PROVE  Led(g, d, pc) = FrameOf(g, pc, g.k, d, g.isdir, g.fileid, g.time, g.moved)
  <2>1. PICK h1 : h1 = [g EXCEPT !.did = d]
    OBVIOUS
  <2>2. PICK h2 : h2 = [h1 EXCEPT !.pc = pc]
    OBVIOUS
  <2>3. Led(g, d, pc) = h2
    BY <2>1, <2>2 DEF Led
  <2>4. h2 = FrameOf(g, pc, g.k, d, g.isdir, g.fileid, g.time, g.moved)
    BY <2>1, <2>2 DEF Frame, FrameOf
  <2> QED
    BY <2>3, <2>4
<1>3. ASSUME NEW k
      PROVE  [g EXCEPT !.pc = "base", !.k = k] = FrameOf(g, "base", k, g.did, g.isdir, g.fileid, g.time, g.moved)
  <2>1. PICK h1 : h1 = [g EXCEPT !.pc = "base"]
    OBVIOUS
  <2>2. PICK h2 : h2 = [h1 EXCEPT !.k = k]
    OBVIOUS
  <2>3. [g EXCEPT !.pc = "base", !.k = k] = h2
    BY <2>1, <2>2
  <2>4. h2 = FrameOf(g, "base", k, g.did, g.isdir, g.fileid, g.time, g.moved)
    BY <2>1, <2>2 DEF Frame, FrameOf
  <2> QED
    BY <2>3, <2>4
<1>4. ASSUME NEW pc, NEW k, NEW d
      PROVE  Gone(g, pc, k, d) = FrameOf(g, pc, k, d, g.isdir, g.fileid, g.time, g.moved)
  <2>1. PICK h1 : h1 = [g EXCEPT !.pc = pc]
    OBVIOUS
  <2>2. PICK h2 : h2 = [h1 EXCEPT !.k = k]
    OBVIOUS
  <2>3. PICK h3 : h3 = [h2 EXCEPT !.did = d]
    OBVIOUS
  <2>4. Gone(g, pc, k, d) = h3
    BY <2>1, <2>2, <2>3 DEF Gone
  <2>5. h3 = FrameOf(g, pc, k, d, g.isdir, g.fileid, g.time, g.moved)
    BY <2>1, <2>2, <2>3 DEF Frame, FrameOf
  <2> QED
    BY <2>4, <2>5
<1>5. ASSUME NEW id, NEW n
      PROVE  Answered(g, id, n) = FrameOf(g, "add", g.k, g.did, TRUE, id, n, g.moved)
  <2>1. PICK h1 : h1 = [g EXCEPT !.pc = "add"]
    OBVIOUS
  <2>2. PICK h2 : h2 = [h1 EXCEPT !.isdir = TRUE]
    OBVIOUS
  <2>3. PICK h3 : h3 = [h2 EXCEPT !.fileid = id]
    OBVIOUS
  <2>4. PICK h4 : h4 = [h3 EXCEPT !.time = n]
    OBVIOUS
  <2>5. Answered(g, id, n) = h4
    BY <2>1, <2>2, <2>3, <2>4 DEF Answered
  <2>6. h4 = FrameOf(g, "add", g.k, g.did, TRUE, id, n, g.moved)
    BY <2>1, <2>2, <2>3, <2>4 DEF Frame, FrameOf
  <2> QED
    BY <2>5, <2>6
<1>6. [g EXCEPT !.pc = "done"] = FrameOf(g, "done", g.k, g.did, g.isdir, g.fileid, g.time, g.moved)
  <2>1. PICK h1 : h1 = [g EXCEPT !.pc = "done"]
    OBVIOUS
  <2>2. h1 = FrameOf(g, "done", g.k, g.did, g.isdir, g.fileid, g.time, g.moved)
    BY <2>1 DEF Frame, FrameOf
  <2> QED
    BY <2>1, <2>2
<1> QED
  BY <1>1, <1>2, <1>3, <1>4, <1>5, <1>6

\* What a thread that searched has found
FoundBy(t, f) ==
  /\ f.path = th[t].path
  /\ \/ f.pc = "base"
     \/ f.pc = "ask" /\ f.k = 0 /\ f.did = Root
     \/ /\ f.k \in 1..Len(f.path)
        /\ f.pc = IF f.k = Len(f.path) THEN "done" ELSE "ask"
        /\ \E j \in 1..Len(cache) : /\ cache[j].path = SubSeq(f.path, 1, f.k)
                                    /\ ~Expired(cache[j]) /\ f.did = cache[j].did

LEMMA FindIs ==
  ASSUME TypeOK, NEW t \in Threads, Find(t)
  PROVE  \E f, c : /\ Proceed(t, f, c) /\ UNCHANGED <<tree, world>>
                   /\ f \in Frame /\ Located(f) /\ c \in Seq(Entry)
                   /\ races \subseteq races' /\ races' \subseteq RaceKinds
                   /\ \/ races' # {}
                      \/ FoundBy(t, f) /\ (OneAlive(cache) => OneAlive(c))
                         /\ \A m \in 1..Len(c) : \E j \in 1..Len(cache) : c[m] = cache[j]
<1> DEFINE g == th[t]
           Result(f, c) == /\ Proceed(t, f, c) /\ UNCHANGED <<tree, world>>
                           /\ f \in Frame /\ Located(f) /\ c \in Seq(Entry)
                           /\ races \subseteq races' /\ races' \subseteq RaceKinds
                           /\ \/ races' # {}
                              \/ FoundBy(t, f) /\ (OneAlive(cache) => OneAlive(c))
                                 /\ \A m \in 1..Len(c) : \E j \in 1..Len(cache) : c[m] = cache[j]
<1>1. /\ g \in Frame /\ Located(g) /\ cache \in Seq(Entry) /\ g.pc = "find" /\ races \subseteq RaceKinds
      /\ UNCHANGED <<tree, world>>
  BY DEF TypeOK, Find, At
<1>2. g.path \in Paths /\ g.k \in 1..Len(g.path) /\ Len(g.path) \in 1..Depth /\ g.path \in AllPaths
  BY <1>1, PathsAre DEF Located, AllPaths
<1>3. Depth \in Nat /\ g.k \in 1..Depth /\ g.k \in 0..Depth /\ g.k - 1 \in 0..Depth /\ 0 \in 0..Depth
  BY <1>2, DidConstants
<1>11. /\ g.did \in Dids \cup {Root, Null} /\ g.isdir \in BOOLEAN /\ g.moved \in BOOLEAN
       /\ g.fileid \in Dids \cup {Root, Null} /\ g.time \in 0..MaxTime
  BY <1>1 DEF Frame
<1>12. "base" \in PCs /\ "ask" \in PCs /\ "done" \in PCs
  BY DEF PCs
<1>4. PICK found : found = Search(SubSeq(g.path, 1, g.k))
  OBVIOUS
<1>5. PassSoFar(found, Len(cache), SubSeq(g.path, 1, g.k))
  BY <1>1, <1>4, SearchIs
<1>6. /\ found.kept \in Seq(Entry) /\ found.did \in Dids \cup {Root, Null}
      /\ \A m \in 1..Len(found.kept) : \E j \in 1..Len(cache) : found.kept[m] = cache[j]
      /\ OneAlive(cache) => OneAlive(found.kept)
  BY <1>5 DEF PassSoFar, Acc
<1>7. CASE Proceed(t, Idle, cache) /\ races' \in {races \cup {"stale_prev"}, races \cup {"freed_entries"}}
  <2>1. races' # {} /\ races \subseteq races' /\ races' \subseteq RaceKinds
    BY <1>1, <1>7 DEF RaceKinds
  <2>2. Result(Idle, cache)
    BY <1>1, <1>7, <2>1, IdleTypes
  <2> QED
    BY <2>2
<1>8. CASE /\ UNCHANGED races /\ found.did # Null
           /\ Proceed(t, [g EXCEPT !.did = found.did,
                                   !.pc = IF g.k = Len(g.path) THEN "done" ELSE "ask"], found.kept)
  <2>1. PICK pc : pc = IF g.k = Len(g.path) THEN "done" ELSE "ask"
    OBVIOUS
  <2>2. PICK f : f = FrameOf(g, pc, g.k, found.did, g.isdir, g.fileid, g.time, g.moved)
    OBVIOUS
  <2>3. Proceed(t, f, found.kept)
    <3>1. Led(g, found.did, pc) = f
      <4> HIDE DEF g
      <4>1. \A d, x : Led(g, d, x) = FrameOf(g, x, g.k, d, g.isdir, g.fileid, g.time, g.moved)
        BY <1>1, Steps
      <4> QED
        BY <2>2, <4>1
    <3> QED
      BY <1>8, <2>1, <3>1, Zenon DEF Led
  <2>4. pc \in PCs
    BY <1>12, <2>1
  <2>5. f \in Frame
    <3> HIDE DEF g
    <3> QED
      BY <1>1, <1>3, <1>6, <1>11, <2>2, <2>4, FrameOfType
  <2>6. f.pc = pc /\ f.path = g.path /\ f.k = g.k /\ f.did = found.did
    BY <2>2 DEF FrameOf
  <2>7. Located(f)
    <3>1. f.pc = "ask" => f.k < Len(f.path) /\ f.did # Null
      BY <1>2, <1>8, <2>1, <2>6
    <3> QED
      BY <1>2, <2>1, <2>6, <3>1 DEF Located
  <2>8. FoundBy(t, f)
    BY <1>2, <1>5, <1>8, <2>1, <2>6 DEF FoundBy, PassSoFar
  <2>9. Result(f, found.kept)
    BY <1>1, <1>6, <1>8, <2>3, <2>5, <2>7, <2>8
  <2> QED
    BY <2>9
<1>9. CASE /\ UNCHANGED races /\ g.k > 1
           /\ Proceed(t, [g EXCEPT !.pc = "base", !.k = g.k - 1], found.kept)
  <2>2. PICK f : f = FrameOf(g, "base", g.k - 1, g.did, g.isdir, g.fileid, g.time, g.moved)
    OBVIOUS
  <2>3. Proceed(t, f, found.kept)
    <3>1. [g EXCEPT !.pc = "base", !.k = g.k - 1] = f
      <4> HIDE DEF g
      <4> QED
        BY <1>1, <2>2, Steps
    <3> QED
      BY <1>9, <3>1, Zenon
  <2>5. f \in Frame
    <3>1. Root \in Dids \cup {Root, Null}
      OBVIOUS
    <3> HIDE DEF g
    <3> QED
      BY <1>1, <1>3, <1>11, <1>12, <2>2, <3>1, FrameOfType
  <2>6. f.pc = "base" /\ f.path = g.path /\ f.k = g.k - 1
    BY <2>2 DEF FrameOf
  <2>7. Located(f)
    BY <1>2, <1>9, <2>6 DEF Located
  <2>8. FoundBy(t, f)
    BY <2>6 DEF FoundBy
  <2>9. Result(f, found.kept)
    BY <1>1, <1>6, <1>9, <2>3, <2>5, <2>7, <2>8
  <2> QED
    BY <2>9
<1>10. CASE /\ UNCHANGED races
            /\ Proceed(t, [g EXCEPT !.pc = "ask", !.k = 0, !.did = Root], found.kept)
  <2>2. PICK f : f = FrameOf(g, "ask", 0, Root, g.isdir, g.fileid, g.time, g.moved)
    OBVIOUS
  <2>3. Proceed(t, f, found.kept)
    <3>1. Gone(g, "ask", 0, Root) = f
      <4> HIDE DEF g
      <4>1. \A x, k, d : Gone(g, x, k, d) = FrameOf(g, x, k, d, g.isdir, g.fileid, g.time, g.moved)
        BY <1>1, Steps
      <4> QED
        BY <2>2, <4>1
    <3> QED
      BY <1>10, <3>1, Zenon DEF Gone
  <2>5. f \in Frame
    <3>1. Root \in Dids \cup {Root, Null}
      OBVIOUS
    <3> HIDE DEF g
    <3> QED
      BY <1>1, <1>3, <1>11, <1>12, <2>2, <3>1, FrameOfType
  <2>6. f.pc = "ask" /\ f.path = g.path /\ f.k = 0 /\ f.did = Root
    BY <2>2 DEF FrameOf
  <2>7. Located(f)
    BY <1>2, <2>6, DidConstants DEF Located
  <2>8. FoundBy(t, f)
    BY <2>6 DEF FoundBy
  <2>9. Result(f, found.kept)
    BY <1>1, <1>6, <1>10, <2>3, <2>5, <2>7, <2>8
  <2> QED
    BY <2>9
<1> HIDE DEF Result
<1> QED
  BY <1>4, <1>7, <1>8, <1>9, <1>10, Zenon DEF Find

\* What the server answered to a thread
AnswerIs(t, f) ==
  /\ f.path = th[t].path /\ f.pc = "add" /\ f.k = th[t].k /\ f.time = now
  /\ f.fileid = Child(th[t].did, th[t].path[th[t].k + 1])

LEMMA ChildIs == \A d, n : Child(d, n) \in Dids \cup {Null}
<1> SUFFICES ASSUME NEW d, NEW n PROVE Child(d, n) \in Dids \cup {Null}
  OBVIOUS
<1>1. CASE \E c \in Dids : tree[c] = <<d, n>>
  <2>1. (CHOOSE c \in Dids : tree[c] = <<d, n>>) \in Dids
    BY <1>1
  <2> QED
    BY <1>1, <2>1 DEF Child, ChildIn
<1>2. CASE ~\E c \in Dids : tree[c] = <<d, n>>
  BY <1>2 DEF Child, ChildIn
<1> QED
  BY <1>1, <1>2

\* A thread that takes id for the answer, or gives up
LEMMA AnswerTypes ==
  ASSUME TypeOK, NEW t \in Threads, th[t].pc = "ask", NEW id \in Dids \cup {Root}
  PROVE  /\ Answered(th[t], id, now) \in Frame /\ Located(Answered(th[t], id, now))
         /\ Answered(th[t], id, now).path = th[t].path /\ Answered(th[t], id, now).pc = "add"
         /\ Answered(th[t], id, now).k = th[t].k /\ Answered(th[t], id, now).time = now
         /\ Answered(th[t], id, now).fileid = id
         /\ [th[t] EXCEPT !.pc = "done"] \in Frame /\ Located([th[t] EXCEPT !.pc = "done"])
<1>1. PICK g : g = th[t]
  OBVIOUS
<1>2. g \in Frame /\ Located(g) /\ g.pc = "ask" /\ now \in 0..MaxTime
  BY <1>1 DEF TypeOK
<1>3. /\ g.did \in Dids \cup {Root, Null} /\ g.isdir \in BOOLEAN /\ g.moved \in BOOLEAN
      /\ g.fileid \in Dids \cup {Root, Null} /\ g.time \in 0..MaxTime /\ g.k \in 0..Depth
      /\ "add" \in PCs /\ "done" \in PCs /\ TRUE \in BOOLEAN /\ id \in Dids \cup {Root, Null}
      /\ id # Null
  BY <1>2, DidConstants DEF Frame, PCs
<1>4. /\ \A x, n : Answered(g, x, n) = FrameOf(g, "add", g.k, g.did, TRUE, x, n, g.moved)
      /\ [g EXCEPT !.pc = "done"] =
           FrameOf(g, "done", g.k, g.did, g.isdir, g.fileid, g.time, g.moved)
  BY <1>2, Steps
<1>5. PICK f : f = FrameOf(g, "add", g.k, g.did, TRUE, id, now, g.moved)
  OBVIOUS
<1>6. Answered(g, id, now) = f
  BY <1>4, <1>5
<1>7. f \in Frame
  BY <1>2, <1>3, <1>5, FrameOfType
<1>8. /\ f.path = g.path /\ f.pc = "add" /\ f.k = g.k /\ f.time = now /\ f.fileid = id
      /\ f.did = g.did
  BY <1>5 DEF FrameOf
<1>9. Located(f)
  BY <1>2, <1>3, <1>8 DEF Located
<1>10. PICK h : h = FrameOf(g, "done", g.k, g.did, g.isdir, g.fileid, g.time, g.moved)
  OBVIOUS
<1>11. h \in Frame
  BY <1>2, <1>3, <1>10, FrameOfType
<1>12. Located(h)
  BY <1>2, <1>10 DEF Located, FrameOf
<1> QED
  BY <1>1, <1>4, <1>6, <1>7, <1>8, <1>9, <1>10, <1>11, <1>12

LEMMA AskIs ==
  ASSUME TypeOK, NEW t \in Threads, Ask(t)
  PROVE  \E f : /\ Proceed(t, f, cache) /\ UNCHANGED <<tree, world>>
                /\ f \in Frame /\ Located(f)
                /\ races \subseteq races' /\ races' \subseteq RaceKinds
                /\ races' # {} \/ AnswerIs(t, f)
<1> DEFINE next(isdir, id) == IF isdir THEN Answered(th[t], id, now)
                              ELSE [th[t] EXCEPT !.pc = "done"]
           answer == Child(th[t].did, th[t].path[th[t].k + 1])
<1>1. th[t].pc = "ask" /\ races \subseteq RaceKinds /\ UNCHANGED <<tree, world>>
  BY DEF Ask, At, TypeOK
<1>2. \/ answer # Null /\ Proceed(t, next(TRUE, answer), cache) /\ UNCHANGED races
      \/ races' = races \cup {"no_answer"}
         /\ IF th[t].fileid = Null
            THEN \E isdir \in BOOLEAN, id \in Dids : Proceed(t, next(isdir, id), cache)
            ELSE Proceed(t, next(th[t].isdir, th[t].fileid), cache)
  BY Zenon DEF Ask, Answered
<1> HIDE DEF next, answer
<1>3. ASSUME NEW isdir, NEW id \in Dids \cup {Root}
      PROVE  next(isdir, id) \in Frame /\ Located(next(isdir, id))
  BY <1>1, AnswerTypes DEF next
<1>4. CASE answer # Null /\ Proceed(t, next(TRUE, answer), cache) /\ UNCHANGED races
  <2>1. answer \in Dids \cup {Root}
    BY <1>4, ChildIs DEF answer
  <2>2. AnswerIs(t, Answered(th[t], answer, now))
    BY <1>1, <2>1, AnswerTypes DEF AnswerIs, answer
  <2>3. AnswerIs(t, next(TRUE, answer))
    BY <2>2 DEF next
  <2> QED
    BY <1>1, <1>3, <1>4, <2>1, <2>3
<1>5. CASE races' = races \cup {"no_answer"}
         /\ IF th[t].fileid = Null
            THEN \E isdir \in BOOLEAN, id \in Dids : Proceed(t, next(isdir, id), cache)
            ELSE Proceed(t, next(th[t].isdir, th[t].fileid), cache)
  <2>1. PICK isdir \in BOOLEAN, id \in Dids \cup {Root} : Proceed(t, next(isdir, id), cache)
    <3>1. CASE th[t].fileid = Null
      BY <1>5, <3>1
    <3>2. CASE th[t].fileid # Null
      <4>1. th[t].fileid \in Dids \cup {Root} /\ th[t].isdir \in BOOLEAN
        BY <3>2 DEF TypeOK, Frame
      <4> QED
        BY <1>5, <3>2, <4>1
    <3> QED
      BY <3>1, <3>2
  <2>2. races' # {} /\ races \subseteq races' /\ races' \subseteq RaceKinds
    BY <1>1, <1>5 DEF RaceKinds
  <2> QED
    BY <1>1, <1>3, <2>1, <2>2
<1> QED
  BY <1>2, <1>4, <1>5

\* What a thread adds to the cache
AddIsOf(t, f, c) ==
  LET k == th[t].k + 1 IN
  /\ f.path = th[t].path /\ f.k = k /\ f.did = th[t].fileid
  /\ f.pc = IF k = Len(f.path) THEN "done" ELSE "ask"
  /\ Len(c) = Len(cache) + 1
  /\ c[1] = [path |-> SubSeq(f.path, 1, k), did |-> th[t].fileid, time |-> th[t].time]
  /\ \A i \in 1..Len(cache) : c[i + 1] = cache[i]

LEMMA AddIs ==
  ASSUME TypeOK, NEW t \in Threads, Add(t)
  PROVE  \E f, c : /\ Proceed(t, f, c) /\ UNCHANGED <<tree, world>>
                   /\ f \in Frame /\ Located(f) /\ c \in Seq(Entry)
                   /\ races \subseteq races' /\ races' \subseteq RaceKinds
                   /\ AddIsOf(t, f, c)
                   /\ races' # {} \/ (OneAlive(cache) => OneAlive(c))
<1>1. PICK g : g = th[t]
  OBVIOUS
<1>2. /\ g \in Frame /\ Located(g) /\ cache \in Seq(Entry) /\ g.pc = "add" /\ races \subseteq RaceKinds
      /\ UNCHANGED <<tree, world>>
  BY <1>1 DEF TypeOK, Add, At
<1>3. PICK k : k = g.k + 1
  OBVIOUS
<1>4. /\ g.path \in Paths /\ g.path \in AllPaths /\ Len(g.path) \in 1..Depth /\ g.k \in 0..Depth
      /\ g.k < Len(g.path)
  BY <1>2, PathsAre DEF Located, AllPaths, Frame
<1>5. k \in 1..Len(g.path) /\ k \in 0..Len(g.path) /\ k \in 0..Depth
  BY <1>3, <1>4, DidConstants
<1>6. PICK e : e = [path |-> SubSeq(g.path, 1, k), did |-> g.fileid, time |-> g.time]
  OBVIOUS
<1>7. e \in Entry
  <2>1. SubSeq(g.path, 1, k) \in Paths
    BY <1>4, <1>5, Prefix
  <2>2. g.fileid \in Dids \cup {Root} /\ g.time \in 0..MaxTime
    BY <1>2 DEF Located, Frame
  <2> QED
    BY <1>6, <2>1, <2>2 DEF Entry
<1>8. PICK pc : pc = IF k = Len(g.path) THEN "done" ELSE "ask"
  OBVIOUS
<1>9. PICK f : f = FrameOf(g, pc, k, g.fileid, g.isdir, g.fileid, g.time, g.moved)
  OBVIOUS
<1>10. Gone(g, pc, k, g.fileid) = f
  <2>1. \A x, n, d : Gone(g, x, n, d) = FrameOf(g, x, n, d, g.isdir, g.fileid, g.time, g.moved)
    BY <1>2, Steps
  <2> QED
    BY <1>9, <2>1
<1>11. PICK c : c = <<e>> \o cache
  OBVIOUS
<1>12. /\ Proceed(t, f, c)
       /\ races' = races \cup {x \in {"added_twice"} :
                      \E d \in ToSet(cache) : d.path = SubSeq(g.path, 1, k) /\ ~Expired(d)}
  BY <1>1, <1>3, <1>6, <1>8, <1>10, <1>11, Zenon DEF Add, Gone
<1>13. /\ c \in Seq(Entry) /\ Len(c) = Len(cache) + 1 /\ c[1] = e
       /\ \A i \in 1..Len(cache) : c[i + 1] = cache[i]
  <2>1. <<e>> \in Seq(Entry) /\ Len(<<e>>) = 1 /\ <<e>>[1] = e /\ Len(cache) \in Nat
    BY <1>2, <1>7
  <2>2. /\ c \in Seq(Entry) /\ Len(c) = 1 + Len(cache)
        /\ \A i \in 1..1 + Len(cache) : c[i] = IF i <= 1 THEN <<e>>[i] ELSE cache[i - 1]
    BY <1>2, <1>11, <2>1, ConcatProperties
  <2>3. \A i \in 1..Len(cache) : i + 1 \in 1..1 + Len(cache) /\ ~(i + 1 <= 1) /\ i + 1 - 1 = i
    BY <2>1
  <2>4. 1 \in 1..1 + Len(cache)
    BY <2>1
  <2> QED
    BY <2>1, <2>2, <2>3, <2>4
<1>14. f \in Frame
  <2>1. /\ g.isdir \in BOOLEAN /\ g.moved \in BOOLEAN /\ pc \in PCs
        /\ g.fileid \in Dids \cup {Root, Null} /\ g.time \in 0..MaxTime
    BY <1>2, <1>8 DEF Frame, PCs
  <2> QED
    BY <1>2, <1>5, <1>9, <2>1, FrameOfType
<1>15. f.pc = pc /\ f.path = g.path /\ f.k = k /\ f.did = g.fileid
  BY <1>9 DEF FrameOf
<1>16. Located(f)
  <2>1. f.pc = "ask" => f.k < Len(f.path) /\ f.did # Null
    BY <1>2, <1>4, <1>5, <1>8, <1>15 DEF Located
  <2>2. f.pc \in {"ask", "done"}
    BY <1>8, <1>15
  <2> QED
    BY <1>4, <1>15, <2>1, <2>2 DEF Located
<1>17. AddIsOf(t, f, c)
  BY <1>1, <1>3, <1>6, <1>8, <1>13, <1>15 DEF AddIsOf
<1>18. ASSUME races' = {}, OneAlive(cache), NEW i \in 1..Len(c), NEW j \in 1..Len(c), i < j,
              c[i].path = c[j].path
       PROVE  Expired(c[j])
  <2>1. j - 1 \in 1..Len(cache) /\ c[j] = cache[j - 1]
    <3>1. j - 1 \in 1..Len(cache) /\ j - 1 + 1 = j
      BY <1>2, <1>13, <1>18
    <3> QED
      BY <1>13, <3>1
  <2>2. CASE i = 1
    <3>1. cache[j - 1].path = SubSeq(g.path, 1, k)
      BY <1>6, <1>13, <1>18, <2>1, <2>2
    <3>2. cache[j - 1] \in ToSet(cache)
      BY <1>2, <2>1 DEF ToSet
    <3> QED
      BY <1>12, <1>18, <2>1, <3>1, <3>2
  <2>3. CASE i # 1
    <3>1. i - 1 \in 1..Len(cache) /\ i - 1 + 1 = i /\ i - 1 < j - 1
      BY <1>2, <1>13, <1>18, <2>3
    <3>2. c[i] = cache[i - 1]
      BY <1>13, <3>1
    <3> QED
      BY <1>18, <2>1, <3>1, <3>2 DEF OneAlive
  <2> QED
    BY <2>2, <2>3
<1>19. races' # {} \/ (OneAlive(cache) => OneAlive(c))
  BY <1>18 DEF OneAlive
<1>20. races \subseteq races' /\ races' \subseteq RaceKinds
  BY <1>2, <1>12 DEF RaceKinds
<1> QED
  BY <1>2, <1>12, <1>13, <1>14, <1>16, <1>17, <1>19, <1>20

LEMMA RemoveAtFacts ==
  ASSUME NEW S, NEW s \in Seq(S), NEW i \in 1..Len(s)
  PROVE  /\ RemoveAt(s, i) \in Seq(S)
         /\ Len(RemoveAt(s, i)) = Len(s) - 1
         /\ \A j \in 1..(Len(s) - 1) : RemoveAt(s, i)[j] = IF j < i THEN s[j] ELSE s[j + 1]
<1> DEFINE a == SubSeq(s, 1, i - 1)
           b == SubSeq(s, i + 1, Len(s))
<1>1. Len(s) \in Nat /\ \A j \in 1..Len(s) : s[j] \in S
  BY LenProperties, ElementOfSeq
<1>2. /\ a \in Seq(S) /\ Len(a) = i - 1
      /\ \A j \in 1..(i - 1) : a[j] = s[j]
  <2>1. i - 1 \in Int /\ \A j \in 1..(i - 1) : s[j] \in S
    BY <1>1
  <2>2. QED
    BY <1>1, <2>1, SubSeqProperties
<1>3. /\ b \in Seq(S) /\ Len(b) = Len(s) - i
      /\ \A j \in 1..(Len(s) - i) : b[j] = s[i + j]
  <2>1. i + 1 \in Int /\ Len(s) \in Int /\ \A j \in (i + 1)..Len(s) : s[j] \in S
    BY <1>1
  <2>2. QED
    BY <1>1, <2>1, SubSeqProperties
<1>4. /\ a \o b \in Seq(S)
      /\ Len(a \o b) = Len(a) + Len(b)
      /\ \A j \in 1..(Len(a) + Len(b)) : (a \o b)[j] = IF j <= Len(a) THEN a[j] ELSE b[j - Len(a)]
  BY <1>2, <1>3, ConcatProperties
<1>5. RemoveAt(s, i) = a \o b
  BY DEF RemoveAt
<1> HIDE DEF a, b
<1>6. ASSUME NEW j \in 1..(Len(s) - 1)
      PROVE  (a \o b)[j] = IF j < i THEN s[j] ELSE s[j + 1]
  <2>1. j \in 1..(Len(a) + Len(b)) /\ i \in Nat
    BY <1>1, <1>2, <1>3
  <2>2. CASE j < i
    BY <1>1, <1>2, <1>4, <2>1, <2>2
  <2>3. CASE ~(j < i)
    <3>1. (a \o b)[j] = b[j - (i - 1)] /\ j - (i - 1) \in 1..(Len(s) - i)
      BY <1>1, <1>2, <1>4, <2>1, <2>3
    <3>2. b[j - (i - 1)] = s[i + (j - (i - 1))]
      BY <1>3, <3>1
    <3>3. i + (j - (i - 1)) = j + 1
      BY <2>1
    <3>4. QED
      BY <2>3, <3>1, <3>2, <3>3
  <2>4. QED
    BY <2>2, <2>3
<1>7. Len(a \o b) = Len(s) - 1
  BY <1>1, <1>2, <1>3, <1>4
<1>8. QED
  BY <1>4, <1>5, <1>6, <1>7, Zenon

LEMMA InvalidateIs ==
  ASSUME TypeOK, NEW t \in Threads, Invalidate(t)
  PROVE  \E c : /\ Proceed(t, Idle, c) /\ UNCHANGED <<tree, world>> /\ c \in Seq(Entry)
                /\ races \subseteq races' /\ races' \subseteq RaceKinds
                /\ \A m \in 1..Len(c) : \E j \in 1..Len(cache) : c[m] = cache[j]
                /\ OneAlive(cache) =>
                     /\ OneAlive(c)
                     /\ \A m \in 1..Len(c) : c[m].path = th[t].path => Expired(c[m])
<1> DEFINE hits == {i \in 1..Len(cache) : cache[i].path = th[t].path}
<1>1. /\ cache \in Seq(Entry) /\ Len(cache) \in Nat /\ UNCHANGED <<tree, world>>
      /\ races \subseteq races' /\ races' \subseteq RaceKinds
  <2>1. cache \in Seq(Entry) /\ races \subseteq RaceKinds
    BY DEF TypeOK
  <2>2. UNCHANGED <<tree, world>> /\ races' = races \cup {x \in {"freed_entries"} : freed /\ hits = {}}
    BY Zenon DEF Invalidate
  <2> HIDE DEF hits
  <2>3. {x \in {"freed_entries"} : freed /\ hits = {}} \subseteq RaceKinds
    BY DEF RaceKinds
  <2>4. races \subseteq races' /\ races' \subseteq RaceKinds
    BY <2>1, <2>2, <2>3
  <2> QED
    BY <2>1, <2>2, <2>4, LenProperties
<1>2. CASE hits = {}
  <2>1. Proceed(t, Idle, cache)
    BY <1>2 DEF Invalidate
  <2>2. \A m \in 1..Len(cache) : cache[m].path # th[t].path
    BY <1>2
  <2> QED
    BY <1>1, <2>1, <2>2
<1>3. CASE hits # {}
  <2> DEFINE i == CHOOSE i \in hits : \A j \in hits : i <= j
  <2>1. i \in hits /\ \A j \in hits : i <= j
    <3>1. hits \subseteq Nat
      OBVIOUS
    <3> HIDE DEF hits
    <3> QED
      BY <1>3, <3>1, LeastOf
  <2>2. Proceed(t, Idle, RemoveAt(cache, i))
    BY <1>3 DEF Invalidate
  <2>3. PICK c : c = RemoveAt(cache, i)
    OBVIOUS
  <2> HIDE DEF i
  <2>4. /\ i \in 1..Len(cache) /\ cache[i].path = th[t].path
        /\ \A j \in 1..Len(cache) : cache[j].path = th[t].path => i <= j
    BY <2>1
  <2>5. /\ c \in Seq(Entry) /\ Len(c) = Len(cache) - 1
        /\ \A j \in 1..(Len(cache) - 1) : c[j] = IF j < i THEN cache[j] ELSE cache[j + 1]
    BY <1>1, <2>3, <2>4, RemoveAtFacts
  <2> DEFINE was(m) == IF m < i THEN m ELSE m + 1
  <2>6. \A m \in 1..Len(c) : was(m) \in 1..Len(cache) /\ c[m] = cache[was(m)] /\ was(m) # i
    BY <1>1, <2>4, <2>5
  <2>7. \A m, n \in 1..Len(c) : m < n => was(m) < was(n)
    BY <1>1, <2>4, <2>5
  <2> HIDE DEF was, hits
  <2>8. OneAlive(cache) => OneAlive(c)
    BY <2>6, <2>7 DEF OneAlive
  <2>9. ASSUME OneAlive(cache), NEW m \in 1..Len(c), c[m].path = th[t].path
        PROVE  Expired(c[m])
    <3>1. was(m) \in 1..Len(cache) /\ i < was(m) /\ cache[was(m)].path = cache[i].path
      BY <2>4, <2>6, <2>9
    <3> QED
      BY <2>4, <2>6, <2>9, <3>1 DEF OneAlive
  <2> QED
    BY <1>1, <2>2, <2>3, <2>5, <2>6, <2>8, <2>9
<1> QED
  BY <1>2, <1>3

-----------------------------------------------------------------------------
(* How long the cache can be wrong *)

\* An entry for k names is right if it was made more than k - 1 timeouts after the
\* tree changed: what it was looked up below was then right.
EntryRight(e) ==
  /\ e.time <= now
  /\ e.time > changed + (Len(e.path) - 1) * Timeout => e.did = Resolve(e.path)

\* So is what a lookup has after k names, a timeout later.
LookupRight(f) ==
  /\ f.pc = "ask" /\ now > changed + f.k * Timeout => f.did = Resolve(SubSeq(f.path, 1, f.k))
  /\ f.pc = "add" =>
       /\ f.time = now
       /\ now > changed + f.k * Timeout => f.fileid = Resolve(SubSeq(f.path, 1, f.k + 1))
  /\ f.pc = "done" /\ now > changed + Len(f.path) * Timeout => f.did = Resolve(f.path)

Sound ==
  /\ \A i \in 1..Len(cache) : EntryRight(cache[i])
  /\ \A t \in Threads : LookupRight(th[t])
  /\ OneAlive(cache)

Inv == TypeOK /\ (races = {} => Sound)

LEMMA Times ==
  /\ \A k \in Nat : k * Timeout \in Nat /\ (k + 1) * Timeout = k * Timeout + Timeout
  /\ \A j, k \in Nat : j <= k => j * Timeout <= k * Timeout
<1>1. Timeout \in Nat
  BY DidConstants
<1> QED
  BY <1>1

LEMMA NothingKnown ==
  ASSUME NEW f, f.pc \in {"idle", "base", "find", "invalidate"}
  PROVE  LookupRight(f)
BY DEF LookupRight

\* A step of a lookup, under a tree that does not change
LEMMA LookupInv ==
  ASSUME Inv, NEW t \in Threads, NEW f \in Frame, NEW c \in Seq(Entry), Located(f),
         Proceed(t, f, c), UNCHANGED <<tree, world>>, races \subseteq races', races' \subseteq RaceKinds,
         races' = {} => /\ \A i \in 1..Len(c) : EntryRight(c[i])
                        /\ LookupRight(f) /\ OneAlive(c)
  PROVE  Inv'
<1>1. TypeOK /\ tree' = tree /\ freed' = freed /\ now' = now /\ changed' = changed /\ changes' = changes
  BY DEF Inv, world
<1>2. TypeOK'
  BY <1>1, ProceedTypes DEF TypeOK
<1>3. /\ cache' = c /\ th' \in [Threads -> Frame] /\ th'[t] = f
      /\ \A u \in Threads \ {t} :
           \/ th'[u] = th[u]
           \/ th[u].pc = "find" /\ th'[u] = [th[u] EXCEPT !.moved = TRUE]
  BY <1>1, ProceedIs
<1>4. ASSUME races' = {} PROVE Sound'
  <2>1. races = {} /\ Sound
    BY <1>4 DEF Inv
  <2>2. \A e : EntryRight(e)' <=> EntryRight(e)
    BY <1>1 DEF EntryRight, Resolve
  <2>3. \A g : LookupRight(g)' <=> LookupRight(g)
    BY <1>1 DEF LookupRight, Resolve
  <2>4. ASSUME NEW u \in Threads PROVE LookupRight(th'[u])
    <3>1. CASE u = t
      BY <1>3, <1>4, <3>1
    <3>2. CASE u # t /\ th'[u] = th[u]
      BY <2>1, <3>2 DEF Sound
    <3>3. CASE u # t /\ th[u].pc = "find" /\ th'[u] = [th[u] EXCEPT !.moved = TRUE]
      <4>1. th[u] \in Frame
        BY <1>1 DEF TypeOK
      <4>2. th'[u].pc = "find"
        BY <3>3, <4>1 DEF Frame
      <4> QED
        BY <4>2, NothingKnown
    <3> QED
      BY <1>3, <3>1, <3>2, <3>3
  <2>5. \A i \in 1..Len(cache') : EntryRight(cache'[i])
    BY <1>3, <1>4
  <2>6. OneAlive(cache)'
    BY <1>1, <1>3, <1>4 DEF OneAlive, Expired
  <2>7. (\A u \in Threads : LookupRight(th[u]))'
    BY <1>1, <2>4 DEF LookupRight, Resolve
  <2>8. (\A i \in 1..Len(cache) : EntryRight(cache[i]))'
    BY <1>1, <2>5 DEF EntryRight, Resolve
  <2> QED
    BY <2>6, <2>7, <2>8 DEF Sound
<1> QED
  BY <1>2, <1>4 DEF Inv

\* What was found in the cache is right for a timeout more than the entry.
LEMMA FoundRight ==
  ASSUME TypeOK, NEW t \in Threads, NEW f \in Frame, Located(f), FoundBy(t, f),
         \A i \in 1..Len(cache) : EntryRight(cache[i])
  PROVE  LookupRight(f)
<1>1. CASE f.pc = "base"
  BY <1>1, NothingKnown
<1>2. CASE f.pc = "ask" /\ f.k = 0 /\ f.did = Root
  <2>1. SubSeq(f.path, 1, 0) = <<>> /\ <<>> \in AllPaths
    BY SubSeqEmpty DEF AllPaths
  <2>2. Resolve(<<>>) = Root
    BY <2>1, LeadsIs DEF Resolve
  <2> QED
    BY <1>2, <2>1, <2>2 DEF LookupRight
<1>3. ASSUME f.k \in 1..Len(f.path), f.pc = IF f.k = Len(f.path) THEN "done" ELSE "ask",
             NEW j \in 1..Len(cache), cache[j].path = SubSeq(f.path, 1, f.k), ~Expired(cache[j]),
             f.did = cache[j].did
      PROVE  LookupRight(f)
  <2>1. f.path \in Paths /\ f.path \in AllPaths /\ f.path \in Seq(Names) /\ Len(f.path) \in Nat
    BY <1>3, PathsAre DEF Located, AllPaths
  <2>2. Len(SubSeq(f.path, 1, f.k)) = f.k /\ f.k \in Nat /\ f.k - 1 \in Nat /\ f.k - 1 + 1 = f.k
    BY <1>3, <2>1, Prefix
  <2>3. PICK e : e = cache[j]
    OBVIOUS
  <2>4. e.time \in Nat /\ now \in Nat /\ changed \in Nat /\ Timeout \in Nat
    <3>1. e \in Entry
      BY <2>3, ElementOfSeq DEF TypeOK
    <3> QED
      BY <3>1, DidConstants DEF TypeOK, Entry
  <2>5. (f.k - 1) * Timeout \in Nat /\ f.k * Timeout = (f.k - 1) * Timeout + Timeout
    BY <2>2, Times
  <2>6. now <= e.time + Timeout
    BY <1>3, <2>3, <2>4 DEF Expired
  <2>7. e.time > changed + (f.k - 1) * Timeout => e.did = Resolve(SubSeq(f.path, 1, f.k))
    BY <1>3, <2>2, <2>3 DEF EntryRight
  <2>8. now > changed + f.k * Timeout => f.did = Resolve(SubSeq(f.path, 1, f.k))
    <3>1. PICK x, y : x = f.k * Timeout /\ y = (f.k - 1) * Timeout
      OBVIOUS
    <3>2. y \in Nat /\ x = y + Timeout
      BY <2>5, <3>1
    <3>3. now > changed + x => e.time > changed + y
      BY <2>4, <2>6, <3>2
    <3> QED
      BY <1>3, <2>3, <2>7, <3>1, <3>3, Zenon
  <2>9. f.k = Len(f.path) => SubSeq(f.path, 1, f.k) = f.path
    BY <2>1, SubSeqFull
  <2> QED
    BY <1>3, <2>8, <2>9 DEF LookupRight
<1> QED
  BY <1>1, <1>2, <1>3 DEF FoundBy

\* The answer about a name of a directory that is right is right.
LEMMA AnswerRight ==
  ASSUME TypeOK, NEW t \in Threads, th[t].pc = "ask", NEW f \in Frame, AnswerIs(t, f),
         LookupRight(th[t])
  PROVE  LookupRight(f)
<1>1. PICK g : g = th[t]
  OBVIOUS
<1>2. g \in Frame /\ Located(g) /\ g.pc = "ask" /\ LookupRight(g)
  BY <1>1 DEF TypeOK
<1>3. /\ f.path = g.path /\ f.pc = "add" /\ f.k = g.k /\ f.time = now
      /\ f.fileid = Child(g.did, g.path[g.k + 1])
  BY <1>1 DEF AnswerIs
<1>4. g.path \in AllPaths /\ g.k \in 0..Len(g.path) - 1
  <2>1. g.path \in Paths /\ g.k \in 0..Depth /\ g.k < Len(g.path) /\ Len(g.path) \in 1..Depth
    BY <1>2, PathsAre DEF Located, Frame
  <2> QED
    BY <2>1, DidConstants DEF AllPaths
<1>5. Resolve(SubSeq(g.path, 1, g.k + 1)) = Child(Resolve(SubSeq(g.path, 1, g.k)), g.path[g.k + 1])
  BY <1>4, Deeper
<1>6. now > changed + g.k * Timeout => g.did = Resolve(SubSeq(g.path, 1, g.k))
  BY <1>2 DEF LookupRight
<1> QED
  BY <1>3, <1>5, <1>6 DEF LookupRight

\* What is added is as right as what was answered.
LEMMA AddRight ==
  ASSUME TypeOK, NEW t \in Threads, th[t].pc = "add", NEW f \in Frame, NEW c, AddIsOf(t, f, c),
         LookupRight(th[t]), \A i \in 1..Len(cache) : EntryRight(cache[i])
  PROVE  LookupRight(f) /\ \A i \in 1..Len(c) : EntryRight(c[i])
<1>1. PICK g : g = th[t]
  OBVIOUS
<1>2. PICK k : k = g.k + 1
  OBVIOUS
<1>3. PICK q : q = SubSeq(g.path, 1, k)
  OBVIOUS
<1>4. g \in Frame /\ Located(g) /\ g.pc = "add" /\ LookupRight(g)
  BY <1>1 DEF TypeOK
<1>5. /\ f.path = g.path /\ f.k = k /\ f.did = g.fileid
      /\ f.pc = IF k = Len(g.path) THEN "done" ELSE "ask"
      /\ Len(c) = Len(cache) + 1 /\ c[1] = [path |-> q, did |-> g.fileid, time |-> g.time]
      /\ \A i \in 1..Len(cache) : c[i + 1] = cache[i]
  BY <1>1, <1>2, <1>3 DEF AddIsOf
<1>6. g.path \in AllPaths /\ g.path \in Seq(Names) /\ Len(g.path) \in Nat /\ g.k \in Nat /\ g.k < Len(g.path)
  <2>1. g.path \in Paths /\ g.k \in 0..Depth /\ g.k < Len(g.path) /\ Len(g.path) \in 1..Depth
        /\ g.path \in Seq(Names)
    BY <1>4, PathsAre DEF Located, Frame
  <2> QED
    BY <2>1, DidConstants DEF AllPaths
<1>7. k \in 0..Len(g.path) /\ Len(q) = k
  BY <1>2, <1>3, <1>6, Prefix
<1>8. g.time = now /\ (now > changed + g.k * Timeout => g.fileid = Resolve(q))
  BY <1>2, <1>3, <1>4 DEF LookupRight
<1>9. now \in Nat /\ changed \in Nat /\ Timeout \in Nat
  BY DidConstants DEF TypeOK
<1>10. now > changed + k * Timeout => now > changed + g.k * Timeout
  <2>1. PICK x, y : x = k * Timeout /\ y = g.k * Timeout
    OBVIOUS
  <2>2. y \in Nat /\ x = y + Timeout
    BY <1>2, <1>6, <2>1, Times
  <2>3. now > changed + x => now > changed + y
    BY <1>9, <2>2
  <2> QED
    BY <2>1, <2>3, Zenon
<1>11. k = Len(g.path) => q = g.path
  BY <1>3, <1>6, SubSeqFull
<1>12. LookupRight(f)
  BY <1>3, <1>5, <1>8, <1>10, <1>11 DEF LookupRight
<1>13. EntryRight(c[1])
  <2>1. k - 1 = g.k
    BY <1>2, <1>6
  <2>2. PICK e : e = c[1]
    OBVIOUS
  <2>3. e.path = q /\ e.did = g.fileid /\ e.time = now
    BY <1>5, <1>8, <2>2
  <2> QED
    BY <1>7, <1>8, <1>9, <2>1, <2>2, <2>3 DEF EntryRight
<1>14. ASSUME NEW i \in 1..Len(c), i # 1 PROVE EntryRight(c[i])
  <2>1. i - 1 \in 1..Len(cache) /\ i - 1 + 1 = i
    BY <1>5, <1>14, LenProperties DEF TypeOK
  <2> QED
    BY <1>5, <2>1
<1> QED
  BY <1>12, <1>13, <1>14

\* A change of the tree: nothing was made after it.
LEMMA ChangedInv ==
  ASSUME Inv, TypeOK', cache' = cache, now' = now, changed' = now, races' = races,
         \A t \in Threads : th'[t] = th[t] \/ th'[t].pc \in {"idle", "base", "find", "invalidate"}
  PROVE  Inv'
<1>1. now \in Nat /\ cache \in Seq(Entry) /\ cache' \in Seq(Entry)
  BY DidConstants DEF Inv, TypeOK
<1>2. ASSUME races' = {} PROVE Sound'
  <2>1. Sound
    BY <1>2 DEF Inv
  <2>2. \A i \in 1..Len(cache) : cache[i].time \in Nat /\ cache[i].time <= now
        /\ (Len(cache[i].path) - 1) * Timeout \in Nat
    <3> SUFFICES ASSUME NEW i \in 1..Len(cache)
                 PROVE  cache[i].time \in Nat /\ cache[i].time <= now
                        /\ (Len(cache[i].path) - 1) * Timeout \in Nat
      OBVIOUS
    <3>1. cache[i] \in Entry
      BY <1>1, ElementOfSeq
    <3>2. Len(cache[i].path) - 1 \in Nat /\ cache[i].time \in Nat
      BY <3>1, PathsAre, DidConstants DEF Entry
    <3> QED
      BY <2>1, <3>2, Times DEF Sound, EntryRight
  <2>3. (\A i \in 1..Len(cache) : EntryRight(cache[i]))'
    BY <1>1, <2>2 DEF EntryRight
  <2>4. ASSUME NEW t \in Threads PROVE LookupRight(th[t])'
    <3>1. CASE th'[t] = th[t]
      <4>1. th[t] \in Frame /\ Located(th[t])
        BY DEF Inv, TypeOK
      <4>2. /\ th[t].k \in Nat
            /\ th[t].pc # "idle" => Len(th[t].path) \in Nat
        BY <4>1, PathsAre, DidConstants DEF Frame, Located
      <4>3. /\ th[t].k * Timeout \in Nat
            /\ th[t].pc # "idle" => Len(th[t].path) * Timeout \in Nat
        BY <4>2, Times
      <4>4. ~(now > now + th[t].k * Timeout)
            /\ (th[t].pc # "idle" => ~(now > now + Len(th[t].path) * Timeout))
        BY <1>1, <4>3
      <4>5. th[t].pc = "add" => th[t].time = now
        BY <2>1 DEF Sound, LookupRight
      <4> QED
        BY <3>1, <4>4, <4>5 DEF LookupRight
    <3>2. CASE th'[t].pc \in {"idle", "base", "find", "invalidate"}
      BY <3>2 DEF LookupRight
    <3> QED
      BY <3>1, <3>2
  <2>5. OneAlive(cache)'
    BY <2>1 DEF Sound, OneAlive, Expired
  <2> QED
    BY <2>3, <2>4, <2>5 DEF Sound
<1> QED
  BY <1>2 DEF Inv

LEMMA TreeChangeInv ==
  ASSUME Inv
  PROVE  /\ \A d \in Dids : Change(d) => Inv'
         /\ \A t \in Threads, p \in Paths : Rmdir(t, p) => Inv'
<1>0. TypeOK /\ now \in 0..MaxTime /\ changes \in 0..MaxChanges /\ MaxChanges \in Nat
      /\ tree \in [Dids -> Places \cup {Null}]
  BY DidConstants DEF Inv, TypeOK
<1>1. ASSUME NEW d \in Dids, Change(d) PROVE Inv'
  <2>1. PICK place \in Places \cup {Null} : tree' = [tree EXCEPT ![d] = place]
    BY <1>1 DEF Change
  <2>2. tree' \in [Dids -> Places \cup {Null}]
    BY <1>0, <2>1
  <2>3. changes' \in 0..MaxChanges /\ changed' = now /\ UNCHANGED <<cache, freed, now, th, races>>
    BY <1>0, <1>1 DEF Change
  <2>4. TypeOK'
    BY <1>0, <2>2, <2>3 DEF TypeOK, Located
  <2> QED
    BY <2>3, <2>4, ChangedInv
<1>2. ASSUME NEW t \in Threads, NEW p \in Paths, Rmdir(t, p) PROVE Inv'
  <2>1. PICK f : f = [Idle EXCEPT !.pc = "invalidate", !.path = p]
    OBVIOUS
  <2>2. f \in Frame /\ Located(f) /\ f.pc = "invalidate"
    BY <2>1, BeginTypes DEF Idle
  <2>3. /\ Proceed(t, f, cache) /\ changed' = now /\ changes < MaxChanges /\ changes' = changes + 1
        /\ UNCHANGED <<freed, now, races>>
    BY <1>2, <2>1, Zenon DEF Rmdir
  <2>4. tree' \in [Dids -> Places \cup {Null}]
    <3>1. tree' = [tree EXCEPT ![Resolve(p)] = Null]
      BY <1>2 DEF Rmdir
    <3> QED
      BY <1>0, <3>1
  <2>5. changes' \in 0..MaxChanges
    BY <1>0, <2>3
  <2>6. cache \in Seq(Entry) /\ races \subseteq RaceKinds /\ freed \in BOOLEAN
    BY <1>0 DEF TypeOK
  <2>7. TypeOK'
    BY <1>0, <2>2, <2>3, <2>4, <2>5, <2>6, ProceedTypes
  <2>8. /\ cache' = cache
        /\ \A u \in Threads : th'[u] = th[u] \/ th'[u].pc \in {"idle", "base", "find", "invalidate"}
    <3>1. /\ cache' = cache /\ th'[t] = f
          /\ \A u \in Threads \ {t} :
               \/ th'[u] = th[u]
               \/ th[u].pc = "find" /\ th'[u] = [th[u] EXCEPT !.moved = TRUE]
      BY <1>0, <2>2, <2>3, ProceedIs
    <3>2. ASSUME NEW u \in Threads, th[u].pc = "find", th'[u] = [th[u] EXCEPT !.moved = TRUE]
          PROVE  th'[u].pc = "find"
      BY <1>0, <3>2 DEF TypeOK, Frame
    <3> QED
      BY <2>2, <3>1, <3>2
  <2> QED
    BY <2>3, <2>7, <2>8, ChangedInv
<1> QED
  BY <1>1, <1>2

LEMMA UnmountInv == Inv /\ Unmount => Inv'
<1> SUFFICES ASSUME Inv, Unmount PROVE Inv'
  OBVIOUS
<1>1. TypeOK /\ th \in [Threads -> Frame] /\ races \subseteq RaceKinds
  BY DEF Inv, TypeOK
<1>2. /\ cache' = <<>> /\ UNCHANGED <<tree, now, changed, changes>>
      /\ th' = [t \in Threads |-> IF At(t, "find") /\ cache # <<>> THEN [th[t] EXCEPT !.moved = TRUE]
                                  ELSE th[t]]
  BY DEF Unmount
<1>3. freed' \in BOOLEAN
  BY <1>1 DEF Unmount, TypeOK
<1>4. races \subseteq races' /\ races' \subseteq RaceKinds
  BY <1>1 DEF Unmount, RaceKinds
<1>5. \A t \in Threads :
        /\ th'[t] \in Frame
        /\ \/ th'[t] = th[t]
           \/ th[t].pc = "find" /\ th'[t] = [th[t] EXCEPT !.moved = TRUE]
  <2>1. \A t \in Threads : th[t] \in Frame /\ [th[t] EXCEPT !.moved = TRUE] \in Frame
    BY <1>1 DEF Frame
  <2> QED
    BY <1>2, <2>1 DEF At
<1>6. TypeOK'
  <2>1. \A t \in Threads : Located(th[t])
    BY <1>1 DEF TypeOK
  <2>2. \A t \in Threads : Located(th'[t])
    <3> SUFFICES ASSUME NEW t \in Threads PROVE Located(th'[t])
      OBVIOUS
    <3>1. CASE th'[t] = th[t]
      BY <2>1, <3>1
    <3>2. CASE th[t].pc = "find" /\ th'[t] = [th[t] EXCEPT !.moved = TRUE]
      <4>1. th[t] \in Frame /\ Located(th[t])
        BY <1>1, <2>1
      <4> QED
        BY <3>2, <4>1, MovedLocated
    <3> QED
      BY <1>5, <3>1, <3>2
  <2>3. th' \in [Threads -> Frame]
    BY <1>2, <1>5
  <2>4. cache' \in Seq(Entry)
    BY <1>2
  <2> QED
    BY <1>1, <1>2, <1>3, <1>4, <2>2, <2>3, <2>4 DEF TypeOK, Located
<1>7. ASSUME races' = {} PROVE Sound'
  <2>1. races = {} /\ Sound
    BY <1>4, <1>7 DEF Inv
  <2>2. Len(cache') = 0
    BY <1>2
  <2>3. ASSUME NEW t \in Threads PROVE LookupRight(th'[t])
    <3>1. CASE th'[t] = th[t]
      BY <2>1, <3>1 DEF Sound
    <3>2. CASE th[t].pc = "find" /\ th'[t] = [th[t] EXCEPT !.moved = TRUE]
      <4>1. th[t] \in Frame
        BY <1>1
      <4>2. th'[t].pc = "find"
        BY <3>2, <4>1 DEF Frame
      <4> QED
        BY <4>2, NothingKnown
    <3> QED
      BY <1>5, <3>1, <3>2
  <2>4. (\A t \in Threads : LookupRight(th[t]))'
    BY <1>2, <2>3 DEF LookupRight, Resolve
  <2>5. OneAlive(cache)' /\ (\A i \in 1..Len(cache) : EntryRight(cache[i]))'
    BY <2>2 DEF OneAlive
  <2> QED
    BY <2>4, <2>5 DEF Sound
<1> QED
  BY <1>6, <1>7 DEF Inv

\* When a second passes nobody is looking anything up.
LEMMA TickInv == Inv /\ Tick => Inv'
<1> SUFFICES ASSUME Inv, Tick PROVE Inv'
  OBVIOUS
<1>1. /\ TypeOK /\ now \in Nat /\ MaxTime \in Nat /\ now < MaxTime /\ now' = now + 1
      /\ UNCHANGED <<tree, cache, freed, changed, changes, th, races>>
      /\ \A t \in Threads : th[t].pc = "idle"
  BY DidConstants DEF Inv, TypeOK, Tick, At
<1>2. TypeOK'
  <2>1. now' \in 0..MaxTime
    BY <1>1
  <2> QED
    BY <1>1, <2>1 DEF TypeOK, Located
<1>3. ASSUME races' = {} PROVE Sound'
  <2>1. Sound
    BY <1>1, <1>3 DEF Inv
  <2>2. \A i \in 1..Len(cache) : cache[i].time \in Nat
    <3>1. cache \in Seq(Entry)
      BY <1>1 DEF TypeOK
    <3>2. \A i \in 1..Len(cache) : cache[i] \in Entry
      BY <3>1, ElementOfSeq
    <3> QED
      BY <1>1, <3>2 DEF Entry
  <2>3. (\A i \in 1..Len(cache) : EntryRight(cache[i]))'
    <3> SUFFICES ASSUME NEW i \in 1..Len(cache) PROVE EntryRight(cache[i])'
      BY <1>1
    <3>1. cache[i].time <= now'
      BY <1>1, <2>1, <2>2 DEF Sound, EntryRight
    <3> QED
      BY <1>1, <2>1, <3>1 DEF Sound, EntryRight, Resolve
  <2>4. (\A t \in Threads : LookupRight(th[t]))'
    BY <1>1 DEF LookupRight
  <2>5. OneAlive(cache)'
    <3>1. \A i \in 1..Len(cache) : Expired(cache[i]) => now' > cache[i].time + Timeout
      BY <1>1, <2>2, DidConstants DEF Expired
    <3> QED
      BY <1>1, <2>1, <3>1 DEF Sound, OneAlive, Expired
  <2> QED
    BY <2>3, <2>4, <2>5 DEF Sound
<1> QED
  BY <1>2, <1>3 DEF Inv

LEMMA InitInv == Init => Inv
<1> SUFFICES ASSUME Init PROVE Inv
  OBVIOUS
<1>1. TypeOK
  <2>1. th \in [Threads -> Frame] /\ \A t \in Threads : Located(th[t])
    BY IdleTypes DEF Init
  <2>2. tree \in [Dids -> Places \cup {Null}] /\ cache \in Seq(Entry)
    BY DEF Init
  <2> QED
    <3>1. now = 0 /\ changed = 0 /\ changes = 0 /\ freed = FALSE /\ races = {}
      BY DEF Init
    <3>2. 0 \in 0..MaxTime /\ 0 \in 0..MaxChanges
      BY DidConstants
    <3> QED
      BY <2>1, <2>2, <3>1, <3>2 DEF TypeOK
<1>2. Sound
  <2>1. Len(cache) = 0
    BY DEF Init
  <2>2. \A t \in Threads : LookupRight(th[t])
    BY NothingKnown DEF Init, Idle
  <2> QED
    BY <2>1, <2>2 DEF Sound, OneAlive
<1> QED
  BY <1>1, <1>2 DEF Inv

LEMMA NextInv == Inv /\ [Next]_vars => Inv'
<1> SUFFICES ASSUME Inv, [Next]_vars PROVE Inv'
  OBVIOUS
<1>1. /\ TypeOK /\ cache \in Seq(Entry) /\ races \subseteq RaceKinds
      /\ th \in [Threads -> Frame]
  BY DEF Inv, TypeOK
<1>2. ASSUME races' = {}, races \subseteq races'
      PROVE  /\ \A i \in 1..Len(cache) : EntryRight(cache[i])
             /\ \A u \in Threads : LookupRight(th[u])
             /\ OneAlive(cache)
  BY <1>2 DEF Inv, Sound
\* A step that is not about the tree, and after which nothing is known
<1>3. ASSUME NEW t \in Threads, NEW f \in Frame, Located(f), f.pc \in {"idle", "base", "find"},
             Proceed(t, f, cache), UNCHANGED <<tree, world, races>>
      PROVE  Inv'
  <2>1. LookupRight(f)
    BY <1>3, NothingKnown
  <2> QED
    BY <1>1, <1>2, <1>3, <2>1, LookupInv
<1>4. ASSUME NEW t \in Threads, NEW p \in Paths, Start(t, p) PROVE Inv'
  <2>1. PICK f : f = [Idle EXCEPT !.pc = "base", !.path = p, !.k = Len(p)]
    OBVIOUS
  <2>2. f \in Frame /\ Located(f) /\ f.pc = "base"
    BY <2>1, BeginTypes DEF Idle
  <2>3. Proceed(t, f, cache) /\ UNCHANGED <<tree, world, races>>
    BY <1>4, <2>1, Zenon DEF Start
  <2> QED
    BY <1>3, <2>2, <2>3
<1>5. ASSUME NEW t \in Threads, ReadBase(t) PROVE Inv'
  <2>1. PICK g : g = th[t]
    OBVIOUS
  <2>2. g \in Frame /\ Located(g) /\ g.pc = "base"
    BY <1>1, <1>5, <2>1 DEF TypeOK, ReadBase, At
  <2>3. PICK f : f = FrameOf(g, "find", g.k, g.did, g.isdir, g.fileid, g.time, FALSE)
    OBVIOUS
  <2>4. [g EXCEPT !.pc = "find", !.moved = FALSE] = f
    BY <2>2, <2>3, Steps
  <2>5. Proceed(t, f, cache) /\ UNCHANGED <<tree, world, races>>
    BY <1>5, <2>1, <2>4, Zenon DEF ReadBase
  <2>6. f.pc = "find" /\ f.path = g.path /\ f.k = g.k
    BY <2>3 DEF FrameOf
  <2>7. f \in Frame
    <3>1. /\ g.k \in 0..Depth /\ g.did \in Dids \cup {Root, Null} /\ g.isdir \in BOOLEAN
          /\ g.fileid \in Dids \cup {Root, Null} /\ g.time \in 0..MaxTime /\ FALSE \in BOOLEAN
          /\ "find" \in PCs
      BY <2>2 DEF Frame, PCs
    <3> QED
      BY <2>2, <2>3, <3>1, FrameOfType
  <2>8. Located(f)
    BY <2>2, <2>6 DEF Located
  <2> QED
    BY <1>3, <2>5, <2>6, <2>7, <2>8
<1>6. ASSUME NEW t \in Threads, Find(t) PROVE Inv'
  <2>1. PICK f, c : /\ Proceed(t, f, c) /\ UNCHANGED <<tree, world>>
                    /\ f \in Frame /\ Located(f) /\ c \in Seq(Entry)
                    /\ races \subseteq races' /\ races' \subseteq RaceKinds
                    /\ \/ races' # {}
                       \/ FoundBy(t, f) /\ (OneAlive(cache) => OneAlive(c))
                          /\ \A m \in 1..Len(c) : \E j \in 1..Len(cache) : c[m] = cache[j]
    BY <1>1, <1>6, FindIs
  <2>2. ASSUME races' = {}
        PROVE  (\A i \in 1..Len(c) : EntryRight(c[i])) /\ LookupRight(f) /\ OneAlive(c)
    BY <1>1, <1>2, <2>1, <2>2, FoundRight
  <2> QED
    BY <2>1, <2>2, LookupInv
<1>7. ASSUME NEW t \in Threads, Ask(t) PROVE Inv'
  <2>1. PICK f : /\ Proceed(t, f, cache) /\ UNCHANGED <<tree, world>>
                 /\ f \in Frame /\ Located(f)
                 /\ races \subseteq races' /\ races' \subseteq RaceKinds
                 /\ races' # {} \/ AnswerIs(t, f)
    BY <1>1, <1>7, AskIs
  <2>2. th[t].pc = "ask"
    BY <1>7 DEF Ask, At
  <2>3. ASSUME races' = {} PROVE LookupRight(f)
    BY <1>1, <1>2, <2>1, <2>2, <2>3, AnswerRight
  <2> QED
    BY <1>1, <1>2, <2>1, <2>3, LookupInv
<1>8. ASSUME NEW t \in Threads, Add(t) PROVE Inv'
  <2>1. PICK f, c : /\ Proceed(t, f, c) /\ UNCHANGED <<tree, world>>
                    /\ f \in Frame /\ Located(f) /\ c \in Seq(Entry)
                    /\ races \subseteq races' /\ races' \subseteq RaceKinds
                    /\ AddIsOf(t, f, c)
                    /\ races' # {} \/ (OneAlive(cache) => OneAlive(c))
    BY <1>1, <1>8, AddIs
  <2>2. th[t].pc = "add"
    BY <1>8 DEF Add, At
  <2>3. ASSUME races' = {}
        PROVE  LookupRight(f) /\ \A i \in 1..Len(c) : EntryRight(c[i])
    BY <1>1, <1>2, <2>1, <2>2, <2>3, AddRight
  <2> QED
    BY <1>2, <2>1, <2>3, LookupInv
<1>9. ASSUME NEW t \in Threads, Return(t) PROVE Inv'
  <2>1. Proceed(t, Idle, cache) /\ UNCHANGED <<tree, world, races>>
    BY <1>9 DEF Return
  <2>2. Idle.pc = "idle"
    BY DEF Idle
  <2> QED
    BY <1>3, <2>1, <2>2, IdleTypes
<1>10. ASSUME NEW t \in Threads, Invalidate(t) PROVE Inv'
  <2>1. PICK c : /\ Proceed(t, Idle, c) /\ UNCHANGED <<tree, world>> /\ c \in Seq(Entry)
                 /\ races \subseteq races' /\ races' \subseteq RaceKinds
                 /\ \A m \in 1..Len(c) : \E j \in 1..Len(cache) : c[m] = cache[j]
                 /\ OneAlive(cache) => OneAlive(c)
    BY <1>1, <1>10, InvalidateIs
  <2>2. LookupRight(Idle)
    BY NothingKnown DEF Idle
  <2>3. ASSUME races' = {}
        PROVE  (\A i \in 1..Len(c) : EntryRight(c[i])) /\ OneAlive(c)
    BY <1>2, <2>1, <2>3
  <2> QED
    BY <2>1, <2>2, <2>3, IdleTypes, LookupInv
<1>11. CASE UNCHANGED vars
  BY <1>11 DEF vars, world, Inv, TypeOK, Sound, Located, EntryRight, LookupRight, OneAlive, Expired,
               Resolve
<1> QED
  BY <1>4, <1>5, <1>6, <1>7, <1>8, <1>9, <1>10, <1>11, TreeChangeInv, UnmountInv, TickInv DEF Next

\* Types: the cache of lib/did.c holds entries, and each lookup is within its path.
THEOREM CacheTypes == Spec => []TypeOK
<1>1. Inv => TypeOK
  BY DEF Inv
<1> QED
  BY <1>1, InitInv, NextInv, PTL DEF Spec

\* get_dirid() of lib/did.c is wrong about a path for a timeout per level after
\* the tree last changed, and no longer, however lookups were interleaved.
THEOREM WrongForABoundedTime == Spec => []StaleForABoundedTime
<1>1. Inv => StaleForABoundedTime
  <2> SUFFICES ASSUME Inv, races = {}, NEW t \in Threads, At(t, "done"), now > changed + Depth * Timeout
               PROVE  th[t].did = Resolve(th[t].path)
    BY DEF StaleForABoundedTime
  <2>1. LookupRight(th[t]) /\ th[t].pc = "done" /\ Located(th[t])
    BY DEF Inv, Sound, TypeOK, At
  <2>2. Len(th[t].path) \in 1..Depth
    BY <2>1, PathsAre DEF Located
  <2>3. /\ Len(th[t].path) * Timeout \in Nat /\ Depth * Timeout \in Nat
        /\ Len(th[t].path) * Timeout <= Depth * Timeout
    <3>1. Len(th[t].path) \in Nat /\ Depth \in Nat /\ Len(th[t].path) <= Depth
      BY <2>2, DidConstants
    <3> QED
      BY <3>1, Times
  <2>4. now > changed + Len(th[t].path) * Timeout
    <3>1. PICK x, y : x = Len(th[t].path) * Timeout /\ y = Depth * Timeout
      OBVIOUS
    <3>2. now \in Nat /\ changed \in Nat
      BY DidConstants DEF Inv, TypeOK
    <3>3. now > changed + x
      BY <2>3, <3>1, <3>2
    <3> QED
      BY <3>1, <3>3, Zenon
  <2> QED
    BY <2>1, <2>4 DEF LookupRight
<1> QED
  BY <1>1, InitInv, NextInv, PTL DEF Spec

\* After remove_did_entry() of lib/did.c only expired entries are left for the path
\* of the directory removed, even while other threads look it up.
THEOREM RemovedIsNotCached == Spec => NotCachedAfterRmdir
<1>1. Inv /\ [Next]_vars =>
        [\A t \in Threads : races = {} /\ At(t, "invalidate") /\ At(t, "idle")'
           => \A e \in ToSet(cache') : e.path # th[t].path \/ Expired(e)]_vars
  <2> SUFFICES ASSUME Inv, Next, NEW t \in Threads, races = {}, At(t, "invalidate"), At(t, "idle")',
                      NEW e \in ToSet(cache'), e.path = th[t].path
               PROVE  Expired(e)
    BY Zenon
  <2>1. TypeOK /\ OneAlive(cache) /\ th \in [Threads -> Frame]
    BY DEF Inv, Sound, TypeOK
  <2>2. CASE Invalidate(t)
    <3>1. PICK c : /\ Proceed(t, Idle, c) /\ c \in Seq(Entry)
                   /\ \A m \in 1..Len(c) : c[m].path = th[t].path => Expired(c[m])
      BY <2>1, <2>2, InvalidateIs
    <3>2. cache' = c
      BY <3>1 DEF Proceed
    <3> QED
      BY <3>1, <3>2 DEF ToSet
  <2>3. th'[t] = th[t] \/ th'[t] = [th[t] EXCEPT !.moved = TRUE] => th'[t].pc = "invalidate"
    BY <2>1 DEF At, Frame
  <2>4. ASSUME NEW u \in Threads \ {t}, NEW f, NEW c, Proceed(u, f, c) PROVE FALSE
    <3>1. th'[t] = th[t] \/ th'[t] = [th[t] EXCEPT !.moved = TRUE]
      BY <2>1, <2>4 DEF Proceed
    <3> QED
      BY <2>3, <3>1 DEF At
  <2>5. ASSUME NEW u \in Threads, u # t,
               \/ \E p \in Paths : Start(u, p) \/ Rmdir(u, p)
               \/ ReadBase(u) \/ Find(u) \/ Ask(u) \/ Add(u) \/ Return(u) \/ Invalidate(u)
        PROVE  FALSE
    BY <2>4, <2>5, Zenon DEF Start, Rmdir, ReadBase, Find, Ask, Add, Return, Invalidate
  <2>6. ~(\E p \in Paths : Start(t, p) \/ Rmdir(t, p))
        /\ ~(ReadBase(t) \/ Find(t) \/ Ask(t) \/ Add(t) \/ Return(t))
    BY DEF At, Start, Rmdir, ReadBase, Find, Ask, Add, Return
  <2>7. ~(\E d \in Dids : Change(d)) /\ ~Tick
    BY DEF At, Change, Tick
  <2>8. ~Unmount
    BY <2>1, <2>3 DEF At, Unmount
  <2> QED
    BY <2>2, <2>5, <2>6, <2>7, <2>8 DEF Next
<1> QED
  BY <1>1, InitInv, NextInv, PTL DEF Spec, NotCachedAfterRmdir
=============================================================================
