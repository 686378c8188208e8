-------------------------- MODULE ServerList_proofs --------------------------
(***************************************************************************)
(* Theorems about the list of servers, for any number of command threads,  *)
(* heap blocks, addresses and volumes.                                     *)
(***************************************************************************)
EXTENDS ServerList, FiniteSetTheorems, WellFoundedInduction, TLAPS

-----------------------------------------------------------------------------
(* The walk of the list *)

LEMMA LeastOf ==
  ASSUME NEW S, S \subseteq Nat, S # {}
  PROVE  \E x \in S : \A y \in S : x <= y
<1> DEFINE R == OpToRel(<, Nat)
<1>1. PICK x \in S : \A y \in S : ~ (<<y, x>> \in R)
  <2>1. IsWellFoundedOn(R, Nat)
    BY NatLessThanWellFounded
  <2> HIDE DEF R
  <2> QED
    BY <2>1, WFMin
<1>2. \A y \in S : ~(y < x)
  BY <1>1 DEF OpToRel
<1> QED
  BY <1>2

WalkOf(f, first, nx, m) ==
  f = [n \in 0..m |-> IF n = 0 THEN first ELSE IF f[n-1] = Null THEN Null ELSE nx[f[n-1]]]

\* The function that Node is defined as: a shortest walk that could not be made
\* could be made from one that is a step shorter.
LEMMA WalkExists ==
  ASSUME NEW first, NEW nx, NEW m \in Nat
  PROVE  \E f : WalkOf(f, first, nx, m)
<1> DEFINE Step(x) == IF x = Null THEN Null ELSE nx[x]
           Walk(f, k) == /\ f = [n \in 0..k |-> f[n]]
                         /\ f[0] = first
                         /\ \A n \in 1..k : f[n] = Step(f[n-1])
           T == {k \in Nat : ~\E f : Walk(f, k)}
<1>1. T = {}
  <2> SUFFICES ASSUME T # {} PROVE FALSE
    OBVIOUS
  <2>1. PICK k \in T : \A j \in T : k <= j
    <3>1. T \subseteq Nat
      OBVIOUS
    <3> HIDE DEF T
    <3> QED
      BY <3>1, LeastOf
  <2>2. k \in Nat /\ ~\E f : Walk(f, k)
    BY <2>1
  <2>3. k # 0
    <3> DEFINE g == [n \in 0..0 |-> first]
    <3>1. Walk(g, 0)
      OBVIOUS
    <3> QED
      BY <2>2, <3>1
  <2>4. k - 1 \in Nat /\ ~(k <= k - 1)
    BY <2>2, <2>3
  <2>5. k - 1 \notin T
    <3> HIDE DEF T
    <3> QED
      BY <2>1, <2>4
  <2>6. PICK f : Walk(f, k - 1)
    BY <2>4, <2>5
  <2> DEFINE g == [n \in 0..k |-> IF n = k THEN Step(f[k-1]) ELSE f[n]]
  <2>7. Walk(g, k)
    <3>1. g = [n \in 0..k |-> g[n]]
      OBVIOUS
    <3>2. g[0] = first
      BY <2>2, <2>3, <2>6
    <3>3. ASSUME NEW n \in 1..k PROVE g[n] = Step(g[n-1])
      <4>1. n \in 0..k /\ n - 1 \in 0..k /\ n - 1 # k
        BY <2>2
      <4>2. g[n-1] = f[n-1]
        BY <4>1
      <4>3. CASE n = k
        BY <4>1, <4>2, <4>3
      <4>4. CASE n # k
        <5>1. n \in 1..(k-1)
          BY <2>2, <4>4
        <5>2. g[n] = f[n]
          BY <4>1, <4>4
        <5> QED
          BY <2>6, <4>2, <5>1, <5>2
      <4> QED
        BY <4>3, <4>4
    <3> QED
      BY <3>1, <3>2, <3>3
  <2> QED
    BY <2>2, <2>7
<1>2. m \notin T
  <2> HIDE DEF T
  <2> QED
    BY <1>1
<1>3. PICK f : Walk(f, m)
  BY <1>2
<1>4. \A n \in 0..m : f[n] = IF n = 0 THEN first ELSE IF f[n-1] = Null THEN Null ELSE nx[f[n-1]]
  <2> SUFFICES ASSUME NEW n \in 0..m
               PROVE  f[n] = IF n = 0 THEN first ELSE IF f[n-1] = Null THEN Null ELSE nx[f[n-1]]
    OBVIOUS
  <2>1. n = 0 \/ n \in 1..m
    OBVIOUS
  <2>2. f[0] = first /\ \A i \in 1..m : f[i] = Step(f[i-1])
    BY <1>3
  <2>3. n \in 1..m => n # 0 /\ f[n] = Step(f[n-1])
    BY <2>2
  <2> HIDE DEF Walk, T
  <2> QED
    BY <2>1, <2>2, <2>3
<1>5. f = [n \in 0..m |-> IF n = 0 THEN first ELSE IF f[n-1] = Null THEN Null ELSE nx[f[n-1]]]
  BY <1>3, <1>4
<1> QED
  BY <1>5 DEF WalkOf

LEMMA NodeIs ==
  /\ Bound \in Nat
  /\ Node[0] = base
  /\ \A n \in 1..Bound : Node[n] = IF Node[n-1] = Null THEN Null ELSE next[Node[n-1]]
<1>1. Bound \in Nat
  BY FS_CardinalityType, ServersConstants DEF Bound
<1>2. \E f : WalkOf(f, base, next, Bound)
  BY <1>1, WalkExists
<1>3. Node = [n \in 0..Bound |-> IF n = 0 THEN base
                                 ELSE IF Node[n-1] = Null THEN Null ELSE next[Node[n-1]]]
  BY <1>2 DEF WalkOf, Node
<1> QED
  BY <1>1, <1>3

-----------------------------------------------------------------------------
(* The list as a chain of n servers, each once *)

IsChain(f, n, first, nx) ==
  /\ n \in Nat /\ f \in [1..n -> Blocks]
  /\ \A i, j \in 1..n : f[i] = f[j] => i = j
  /\ first = IF n = 0 THEN Null ELSE f[1]
  /\ \A i \in 1..n : nx[f[i]] = IF i = n THEN Null ELSE f[i+1]

Whole == \E n, f : IsChain(f, n, base, next)

LEMMA ChainFits ==
  ASSUME NEW f, NEW n, NEW first, NEW nx, IsChain(f, n, first, nx)
  PROVE  n \in Nat /\ n <= Bound
<1>1. n \in Nat /\ f \in [1..n -> Blocks] /\ \A i, j \in 1..n : f[i] = f[j] => i = j
  BY DEF IsChain
<1>2. f \in Injection(1..n, Blocks)
  BY <1>1 DEF Injection, IsInjective
<1>3. IsFiniteSet(1..n) /\ Cardinality(1..n) = n
  <2>1. 1 \in Int /\ n \in Int
    BY <1>1
  <2>2. IsFiniteSet(1..n) /\ Cardinality(1..n) = IF 1 > n THEN 0 ELSE n - 1 + 1
    BY <2>1, FS_Interval
  <2> QED
    BY <1>1, <2>2
<1>4. Cardinality(1..n) <= Cardinality(Blocks)
  BY <1>2, <1>3, FS_Injection, ServersConstants
<1> QED
  BY <1>1, <1>3, <1>4 DEF Bound

\* Walking along a chain
LEMMA ChainNodes ==
  \A f, n : IsChain(f, n, base, next) =>
    \A i \in 0..Bound : Node[i] = IF i < n THEN f[i+1] ELSE Null
<1> SUFFICES ASSUME NEW f, NEW n, IsChain(f, n, base, next)
             PROVE  \A i \in 0..Bound : Node[i] = IF i < n THEN f[i+1] ELSE Null
  OBVIOUS
<1> DEFINE T == {i \in 0..Bound : ~(Node[i] = IF i < n THEN f[i+1] ELSE Null)}
<1>1. Bound \in Nat /\ n \in Nat
  BY NodeIs, ChainFits
<1>2. T = {}
  <2> SUFFICES ASSUME T # {} PROVE FALSE
    OBVIOUS
  <2>1. PICK k \in T : \A j \in T : k <= j
    <3>1. T \subseteq Nat
      BY <1>1
    <3> HIDE DEF T
    <3> QED
      BY <3>1, LeastOf
  <2>2. k \in 0..Bound /\ ~(Node[k] = IF k < n THEN f[k+1] ELSE Null)
    BY <2>1
  <2>3. k # 0
    BY <1>1, <2>2, NodeIs DEF IsChain
  <2>4. k - 1 \in 0..Bound /\ k \in 1..Bound /\ k - 1 \notin T
    <3>1. k - 1 \in 0..Bound /\ k \in 1..Bound /\ ~(k <= k - 1)
      BY <1>1, <2>2, <2>3
    <3> HIDE DEF T
    <3> QED
      BY <2>1, <3>1
  <2>5. Node[k-1] = IF k - 1 < n THEN f[k-1+1] ELSE Null
    BY <2>4
  <2>6. Node[k] = IF Node[k-1] = Null THEN Null ELSE next[Node[k-1]]
    BY <2>4, NodeIs
  <2>7. k - 1 + 1 = k
    BY <2>4, <1>1
  <2>8. CASE k - 1 < n
    <3>1. k \in 1..n /\ Node[k-1] = f[k]
      BY <1>1, <2>4, <2>5, <2>7, <2>8
    <3>2. f[k] \in Blocks /\ f[k] # Null
      BY <3>1, ServersConstants DEF IsChain
    <3>3. next[f[k]] = IF k = n THEN Null ELSE f[k+1]
      BY <3>1 DEF IsChain
    <3>4. (k < n) <=> (k # n)
      BY <1>1, <3>1
    <3> HIDE DEF T
    <3> QED
      BY <2>2, <2>6, <3>1, <3>2, <3>3, <3>4
  <2>9. CASE ~(k - 1 < n)
    <3>1. ~(k < n)
      BY <1>1, <2>4, <2>9
    <3> HIDE DEF T
    <3> QED
      BY <2>2, <2>5, <2>6, <2>9, <3>1
  <2> QED
    BY <2>8, <2>9
<1> QED
  BY <1>2

\* A whole list ends, and the servers on it are those of the chain.
LEMMA ChainListed ==
  \A f, n : IsChain(f, n, base, next) => Listed = {f[i] : i \in 1..n} /\ ~Cyclic
<1> SUFFICES ASSUME NEW f, NEW n, IsChain(f, n, base, next)
             PROVE  Listed = {f[i] : i \in 1..n} /\ ~Cyclic
  OBVIOUS
<1>1. n \in Nat /\ n <= Bound /\ Bound \in Nat
  BY ChainFits, NodeIs
<1>2. \A i \in 0..Bound : Node[i] = IF i < n THEN f[i+1] ELSE Null
  BY ChainNodes
<1>3. \A i \in 1..n : f[i] # Null
  BY ServersConstants DEF IsChain
<1>4. ASSUME NEW b \in Listed PROVE b \in {f[i] : i \in 1..n}
  <2>1. PICK m \in 0..Bound : b = Node[m] /\ b # Null
    BY DEF Listed
  <2>2. m < n /\ b = f[m+1]
    BY <1>2, <2>1
  <2>3. m + 1 \in 1..n
    BY <1>1, <2>1, <2>2
  <2> QED
    BY <2>2, <2>3
<1>5. ASSUME NEW i \in 1..n PROVE f[i] \in Listed
  <2>1. i - 1 \in 0..Bound /\ i - 1 < n /\ i - 1 + 1 = i
    BY <1>1
  <2>2. Node[i-1] = f[i]
    BY <1>2, <2>1
  <2> QED
    BY <1>3, <2>1, <2>2 DEF Listed
<1>6. ~Cyclic
  <2>1. Bound \in 0..Bound /\ ~(Bound < n)
    BY <1>1
  <2> QED
    BY <1>2, <2>1 DEF Cyclic
<1> QED
  BY <1>4, <1>5, <1>6

LEMMA WholeEnds == Whole => ~Cyclic /\ Listed \subseteq Blocks /\ (base = Null => Listed = {})
<1> SUFFICES ASSUME Whole PROVE ~Cyclic /\ Listed \subseteq Blocks /\ (base = Null => Listed = {})
  OBVIOUS
<1>1. PICK n, f : IsChain(f, n, base, next)
  BY DEF Whole
<1>2. Listed = {f[i] : i \in 1..n} /\ ~Cyclic
  BY <1>1, ChainListed
<1>3. \A i \in 1..n : f[i] \in Blocks
  BY <1>1 DEF IsChain
<1>4. base = Null => n = 0
  <2>1. n \in Nat /\ (n # 0 => 1 \in 1..n)
    BY <1>1 DEF IsChain
  <2> QED
    BY <1>1, <1>3, <2>1, ServersConstants DEF IsChain
<1> QED
  BY <1>2, <1>3, <1>4

\* What the searches of the list find
LEMMA FirstIs ==
  ASSUME NEW S, S \subseteq Blocks
  PROVE  /\ First(S) = Null => S \cap Listed = {}
         /\ First(S) # Null => First(S) \in S /\ First(S) \in Listed
<1> DEFINE N == {n \in 0..Bound : Node[n] \in S}
<1>1. CASE S \cap Listed = {}
  BY <1>1 DEF First
<1>2. CASE S \cap Listed # {}
  <2>1. N \subseteq Nat /\ N # {}
    <3>1. Bound \in Nat
      BY NodeIs
    <3> QED
      BY <1>2, <3>1 DEF Listed
  <2>2. First(S) = Node[Min(N)]
    BY <1>2 DEF First
  <2> HIDE DEF N
  <2>3. Min(N) \in N
    BY <2>1, LeastOf DEF Min
  <2>4. Node[Min(N)] \in S /\ Min(N) \in 0..Bound
    BY <2>3 DEF N
  <2>5. Node[Min(N)] # Null
    BY <2>4, ServersConstants
  <2> QED
    BY <2>2, <2>4, <2>5 DEF Listed
<1> QED
  BY <1>1, <1>2

Grown(g, f, n, first, nx, s) ==
  /\ IsChain(g, n + 1, s, [nx EXCEPT ![s] = first])
  /\ {g[i] : i \in 1..(n+1)} = {f[i] : i \in 1..n} \cup {s}

Shrunk(g, f, n, first, nx, k) ==
  /\ IsChain(g, n - 1, IF k = 1 THEN nx[f[1]] ELSE first,
             IF k = 1 THEN nx ELSE [nx EXCEPT ![f[k-1]] = nx[f[k]]])
  /\ {g[i] : i \in 1..(n-1)} = {f[i] : i \in 1..n} \ {f[k]}

\* A server put before a chain
LEMMA ChainGrows ==
  ASSUME NEW f, NEW n, NEW first, NEW nx \in [Blocks -> Blocks \cup {Null}],
         IsChain(f, n, first, nx), NEW s \in Blocks, \A i \in 1..n : f[i] # s
  PROVE  \E g : Grown(g, f, n, first, nx, s)
<1> DEFINE g == [i \in 1..(n+1) |-> IF i = 1 THEN s ELSE f[i-1]]
           ny == [nx EXCEPT ![s] = first]
<1>1. n \in Nat /\ n + 1 \in Nat /\ n + 1 # 0 /\ 1 \in 1..(n+1)
  BY DEF IsChain
<1>2. \A i \in 1..(n+1) : i # 1 => i - 1 \in 1..n
  BY <1>1
<1>3. g \in [1..(n+1) -> Blocks]
  BY <1>2 DEF IsChain
<1>4. \A i, j \in 1..(n+1) : g[i] = g[j] => i = j
  <2> SUFFICES ASSUME NEW i \in 1..(n+1), NEW j \in 1..(n+1), g[i] = g[j] PROVE i = j
    OBVIOUS
  <2>1. CASE i = 1 \/ j = 1
    BY <1>2, <2>1
  <2>2. CASE i # 1 /\ j # 1
    <3>1. f[i-1] = f[j-1] /\ i - 1 \in 1..n /\ j - 1 \in 1..n
      BY <1>2, <2>2
    <3>2. i - 1 = j - 1
      BY <3>1 DEF IsChain
    <3> QED
      BY <1>1, <3>2
  <2> QED
    BY <2>1, <2>2
<1>5. \A i \in 1..(n+1) : ny[g[i]] = IF i = n + 1 THEN Null ELSE g[i+1]
  <2> SUFFICES ASSUME NEW i \in 1..(n+1) PROVE ny[g[i]] = IF i = n + 1 THEN Null ELSE g[i+1]
    OBVIOUS
  <2>1. CASE i = 1
    <3>1. ny[g[i]] = first
      BY <2>1
    <3>2. n # 0 => 2 \in 1..(n+1) /\ g[2] = f[1] /\ i + 1 = 2
      BY <1>1, <2>1
    <3>3. (i = n + 1) <=> (n = 0)
      BY <1>1, <2>1
    <3> HIDE DEF g, ny
    <3> QED
      BY <3>1, <3>2, <3>3 DEF IsChain
  <2>2. CASE i # 1
    <3>1. i - 1 \in 1..n /\ g[i] = f[i-1] /\ f[i-1] # s /\ f[i-1] \in Blocks
      BY <1>2, <2>2 DEF IsChain
    <3>2. ny[g[i]] = nx[f[i-1]]
      BY <3>1
    <3>3. nx[f[i-1]] = IF i - 1 = n THEN Null ELSE f[i-1+1]
      BY <3>1 DEF IsChain
    <3>4. /\ (i = n + 1) <=> (i - 1 = n)
          /\ i # n + 1 => i + 1 \in 1..(n+1) /\ i + 1 # 1 /\ g[i+1] = f[i+1-1] /\ i + 1 - 1 = i - 1 + 1
      BY <1>1, <2>2
    <3> HIDE DEF g, ny
    <3> QED
      BY <3>2, <3>3, <3>4
  <2> QED
    BY <2>1, <2>2
<1>6. g[1] = s
  BY <1>1
<1>7. {g[i] : i \in 1..(n+1)} = {f[i] : i \in 1..n} \cup {s}
  <2>1. \A i \in 1..(n+1) : g[i] \in {f[j] : j \in 1..n} \cup {s}
    BY <1>2
  <2>2. \A j \in 1..n : j + 1 \in 1..(n+1) /\ g[j+1] = f[j]
    <3> SUFFICES ASSUME NEW j \in 1..n PROVE j + 1 \in 1..(n+1) /\ g[j+1] = f[j]
      OBVIOUS
    <3>1. j + 1 \in 1..(n+1) /\ j + 1 # 1 /\ j + 1 - 1 = j
      BY <1>1
    <3> QED
      BY <3>1
  <2> HIDE DEF g
  <2> QED
    BY <1>1, <1>6, <2>1, <2>2
<1>8. IsChain(g, n + 1, s, ny)
  <2> HIDE DEF g, ny
  <2> QED
    BY <1>1, <1>3, <1>4, <1>5, <1>6 DEF IsChain
<1>9. Grown(g, f, n, first, nx, s)
  BY <1>7, <1>8 DEF Grown
<1> QED
  BY <1>9, Zenon

\* The k-th server taken out of a chain
LEMMA ChainShrinks ==
  ASSUME NEW f, NEW n, NEW first, NEW nx \in [Blocks -> Blocks \cup {Null}],
         IsChain(f, n, first, nx), NEW k \in 1..n
  PROVE  \E g : Shrunk(g, f, n, first, nx, k)
<1> DEFINE m == n - 1
           g == [i \in 1..m |-> IF i < k THEN f[i] ELSE f[i+1]]
           ny == IF k = 1 THEN nx ELSE [nx EXCEPT ![f[k-1]] = nx[f[k]]]
<1>1. n \in Nat /\ k \in Nat /\ m \in Nat /\ 1 <= k /\ k <= n /\ m = n - 1
  BY DEF IsChain
<1> HIDE DEF m
<1>2. /\ \A i \in 1..n : f[i] \in Blocks
      /\ \A i, j \in 1..n : f[i] = f[j] => i = j
      /\ \A i \in 1..n : nx[f[i]] = IF i = n THEN Null ELSE f[i+1]
      /\ first = IF n = 0 THEN Null ELSE f[1]
  BY DEF IsChain
<1>3. \A i \in 1..m : i \in 1..n /\ i + 1 \in 1..n /\ i \in Nat
  BY <1>1
<1>4. \A i \in 1..m : g[i] = IF i < k THEN f[i] ELSE f[i+1]
  OBVIOUS
<1>5. g \in [1..m -> Blocks]
  BY <1>2, <1>3
<1> HIDE DEF g
<1>6. \A i, j \in 1..m : g[i] = g[j] => i = j
  <2> SUFFICES ASSUME NEW i \in 1..m, NEW j \in 1..m, g[i] = g[j] PROVE i = j
    OBVIOUS
  <2>1. CASE i < k /\ j < k
    BY <1>2, <1>3, <1>4, <2>1
  <2>2. CASE ~(i < k) /\ ~(j < k)
    <3>1. i + 1 = j + 1
      BY <1>2, <1>3, <1>4, <2>2
    <3> QED
      BY <1>3, <3>1
  <2>3. CASE i < k /\ ~(j < k)
    <3>1. i = j + 1
      BY <1>2, <1>3, <1>4, <2>3
    <3> QED
      BY <1>1, <1>3, <2>3, <3>1
  <2>4. CASE ~(i < k) /\ j < k
    <3>1. i + 1 = j
      BY <1>2, <1>3, <1>4, <2>4
    <3> QED
      BY <1>1, <1>3, <2>4, <3>1
  <2> QED
    BY <2>1, <2>2, <2>3, <2>4
<1>7. ny \in [Blocks -> Blocks \cup {Null}]
  <2>1. k # 1 => nx[f[k]] \in Blocks \cup {Null}
    BY <1>2
  <2> QED
    BY <2>1
<1>8. \A i \in 1..m : ny[g[i]] = IF i = m THEN Null ELSE g[i+1]
  <2> SUFFICES ASSUME NEW i \in 1..m PROVE ny[g[i]] = IF i = m THEN Null ELSE g[i+1]
    OBVIOUS
  <2>0. k \in 1..n /\ (k # 1 => k - 1 \in 1..n)
    BY <1>1
  <2>1. i + 1 \in 1..n /\ i \in 1..n /\ (i # m => i + 1 \in 1..m) /\ i + 1 + 1 = i + 2
        /\ (i = m <=> i + 1 = n) /\ i # n
    BY <1>1, <1>3
  <2>2. CASE i + 1 < k
    <3>1. g[i] = f[i] /\ i # m /\ g[i+1] = f[i+1]
      BY <1>1, <1>3, <1>4, <2>1, <2>2
    <3>2. k # 1 /\ f[i] # f[k-1]
      <4>1. k # 1 /\ i # k - 1
        BY <1>1, <1>3, <2>2
      <4> QED
        BY <1>2, <2>0, <2>1, <4>1
    <3>3. ny[f[i]] = nx[f[i]]
      BY <1>2, <2>1, <3>2
    <3> HIDE DEF ny
    <3> QED
      BY <1>2, <2>1, <3>1, <3>3
  <2>3. CASE i + 1 = k
    <3>1. g[i] = f[i] /\ k # 1 /\ k - 1 = i /\ ~(i + 1 < k)
      BY <1>1, <1>3, <1>4, <2>3
    <3>2. ny[f[i]] = nx[f[k]]
      BY <1>2, <2>0, <2>1, <3>1
    <3>3. nx[f[k]] = IF k = n THEN Null ELSE f[k+1]
      BY <1>2, <2>0
    <3>4. i # m => g[i+1] = f[k+1]
      BY <1>4, <2>1, <2>3, <3>1
    <3> HIDE DEF ny
    <3> QED
      BY <2>1, <2>3, <3>1, <3>2, <3>3, <3>4
  <2>4. CASE ~(i < k)
    <3>1. g[i] = f[i+1] /\ ~(i + 1 < k)
      BY <1>1, <1>3, <1>4, <2>4
    <3>2. k # 1 => f[i+1] # f[k-1]
      <4>1. i + 1 # k - 1
        BY <1>1, <1>3, <2>4
      <4> QED
        BY <1>2, <2>0, <2>1, <4>1
    <3>3. ny[f[i+1]] = nx[f[i+1]]
      BY <1>2, <2>1, <3>2
    <3>4. i # m => g[i+1] = f[i+1+1]
      BY <1>4, <2>1, <3>1
    <3> HIDE DEF ny
    <3> QED
      BY <1>2, <2>1, <3>1, <3>3, <3>4
  <2>5. i + 1 < k \/ i + 1 = k \/ ~(i < k)
    BY <1>1, <1>3
  <2> QED
    BY <2>2, <2>3, <2>4, <2>5
<1>9. (IF k = 1 THEN nx[f[1]] ELSE first) = IF m = 0 THEN Null ELSE g[1]
  <2>1. CASE k = 1
    <3>1. 1 \in 1..n /\ (m = 0 <=> n = 1) /\ (m # 0 => 1 \in 1..m /\ ~(1 < k)) /\ 1 + 1 = 2
      BY <1>1, <2>1
    <3>2. nx[f[1]] = IF n = 1 THEN Null ELSE f[2]
      BY <1>2, <3>1
    <3>3. m # 0 => g[1] = f[2]
      BY <1>4, <3>1
    <3> QED
      BY <2>1, <3>1, <3>2, <3>3
  <2>2. CASE k # 1
    <3>1. 1 \in 1..m /\ 1 < k /\ m # 0 /\ n # 0
      BY <1>1, <2>2
    <3>2. g[1] = f[1]
      BY <1>4, <3>1
    <3> QED
      BY <1>2, <2>2, <3>1, <3>2
  <2> QED
    BY <2>1, <2>2
<1>10. {g[i] : i \in 1..m} = {f[i] : i \in 1..n} \ {f[k]}
  <2>1. ASSUME NEW i \in 1..m PROVE g[i] \in {f[j] : j \in 1..n} \ {f[k]}
    <3>2. CASE i < k
      <4>1. i # k /\ i \in 1..n /\ k \in 1..n
        BY <1>1, <1>3, <3>2
      <4>2. g[i] = f[i] /\ f[i] # f[k]
        BY <1>2, <1>4, <3>2, <4>1
      <4> QED
        BY <4>1, <4>2
    <3>3. CASE ~(i < k)
      <4>1. i + 1 # k /\ i + 1 \in 1..n /\ k \in 1..n
        BY <1>1, <1>3, <3>3
      <4>2. g[i] = f[i+1] /\ f[i+1] # f[k]
        BY <1>2, <1>4, <3>3, <4>1
      <4> QED
        BY <4>1, <4>2
    <3> QED
      BY <3>2, <3>3
  <2>2. ASSUME NEW j \in 1..n, f[j] # f[k] PROVE f[j] \in {g[i] : i \in 1..m}
    <3>1. j # k
      BY <2>2
    <3>2. CASE j < k
      <4>1. j \in 1..m
        BY <1>1, <3>2
      <4> QED
        BY <1>4, <3>2, <4>1
    <3>3. CASE ~(j < k)
      <4>1. j - 1 \in 1..m /\ ~(j - 1 < k) /\ j - 1 + 1 = j
        BY <1>1, <3>1, <3>3
      <4>2. g[j-1] = f[j]
        BY <1>4, <4>1
      <4> QED
        BY <4>1, <4>2
    <3> QED
      BY <3>2, <3>3
  <2> QED
    BY <2>1, <2>2
<1>11. IsChain(g, m, IF k = 1 THEN nx[f[1]] ELSE first, ny)
  <2> HIDE DEF ny
  <2> QED
    BY <1>1, <1>5, <1>6, <1>8, <1>9 DEF IsChain
<1>12. Shrunk(g, f, n, first, nx, k)
  BY <1>1, <1>10, <1>11 DEF Shrunk
<1> QED
  BY <1>12, Zenon

-----------------------------------------------------------------------------
(* The inductive invariants *)

\* Of the types: where a reconnect returns to, and that a volume is named
TypeInv ==
  /\ TypeOK
  /\ \A t \in Actors : /\ th[t].back \in CallPCs \cup {"idle"}
                       /\ th[t].pc # "resumed" => th[t].back = "idle"
                       /\ th[t].pc = "volopen" \/ th[t].back = "volopen" => th[t].v \in Vols

Untouched == races \cap {"readded", "freed_in_use"} = {}

\* A server that is not on the list yet, and on which one thread works
Making == {"probe", "connect"}

ListPlaces ==
  \A t \in Actors : /\ th[t].pc # "resumed"
                    /\ th[t].pc = "reconnect" => th[t].s \in Listed
                    /\ th[t].pc \in Making => srv[th[t].s].alloc /\ th[t].s \notin Listed

MadeByOne ==
  \A t, u \in Actors :
    th[t].pc \in Making /\ th[u].pc \in Making /\ th[t].s = th[u].s => t = u

ListedAlloc == \A b \in Listed : srv[b].alloc

ListInv == Untouched => Whole /\ ListedAlloc /\ ListPlaces /\ MadeByOne

\* What a thread that has got to x.pc may rely on
Place(x) ==
  /\ x.pc \in Making => ~srv[x.s].loaded /\ ~srv[x.s].used
  /\ x.pc \in {"getstatus", "drop", "login"} => x.s \in Listed /\ ~srv[x.s].loaded
  /\ x.pc \in {"probe", "getstatus", "drop", "connect", "login", "publish"} => srv[x.s].host = x.h
  /\ x.pc = "drop" => srv[x.s].sig = Machine(x.h)
  /\ x.pc \in {"find_sig", "connect", "login", "publish"} => x.sig = Machine(x.h)
  /\ x.pc \in {"connect", "login", "publish"} =>
       \A b \in Listed : srv[b].loaded /\ Machine(srv[b].host) = Machine(x.h) => b = x.s
  /\ x.pc \in {"publish", "volopen", "unmount", "volclose", "logout"} =>
       x.s \in Listed /\ srv[x.s].loaded
  /\ x.pc = "attach_error" => x.s \in Listed
  /\ x.pc = "unmount" => x.v \in Vols
  /\ x.pc # "spinning"

ThreadsOnly == ConnectPCs \cup {"volopen", "attach_error", "zzzzz", "reconnect"}

Roles == \A t \in Actors : th[t].pc \in ThreadsOnly => t \in Threads

Places == \A t \in Actors : Place(th[t])

OneConnects == \A t, u \in Actors : th[t].pc \in ConnectPCs /\ th[u].pc \in ConnectPCs => t = u

MountedListed == \A b \in Blocks : Mounted(b) => b \in Listed

EmptiedLeaves ==
  \A b \in Listed :
    srv[b].used /\ ~Mounted(b) => \E t \in Actors : th[t].pc = "logout" /\ th[t].s = b

Published ==
  \A b \in Listed :
    srv[b].loaded => \/ srv[b].sig = Machine(srv[b].host)
                     \/ \E t \in Actors : th[t].pc = "publish" /\ th[t].s = b

OneSession ==
  \A a, b \in Listed :
    srv[a].loaded /\ srv[b].loaded /\ Machine(srv[a].host) = Machine(srv[b].host) => a = b

SessionParts ==
  /\ Roles /\ Places /\ OneConnects
  /\ MountedListed /\ EmptiedLeaves /\ Published /\ OneSession

SessionInv == races = {} => SessionParts

Inv == TypeInv /\ ListInv /\ SessionInv

-----------------------------------------------------------------------------
(* The list operations *)

LEMMA Keeps ==
  UNCHANGED <<base, next>> => Listed' = Listed /\ (Whole <=> Whole') /\ (Cyclic <=> Cyclic')
  BY Zenon DEF Listed, Node, Whole, Cyclic

LEMMA Types == TypeInv => /\ next \in [Blocks -> Blocks \cup {Null}]
                          /\ srv \in [Blocks -> Server]
                          /\ base \in Blocks \cup {Null}
                          /\ th \in [Actors -> Frame]
                          /\ \A t \in Actors : th[t].s = Null <=> th[t].pc \in FreePCs
  BY DEF TypeInv, TypeOK

LEMMA ChainListedNext ==
  \A f, n : IsChain(f, n, base', next') => Listed' = {f[i] : i \in 1..n} /\ ~Cyclic'
<1>1. (\A f, n : IsChain(f, n, base, next) => Listed = {f[i] : i \in 1..n} /\ ~Cyclic)'
  BY ChainListed, PTL
<1> QED
  BY <1>1, Zenon DEF IsChain

LEMMA Adds ==
  ASSUME TypeInv, NEW s \in Blocks, s \notin Listed, Whole, AddServer(s)
  PROVE  Whole' /\ Listed' = Listed \cup {s}
<1>1. PICK n, f : IsChain(f, n, base, next)
  BY DEF Whole
<1>2. Listed = {f[i] : i \in 1..n}
  BY <1>1, ChainListed
<1>3. \A i \in 1..n : f[i] # s
  BY <1>2
<1>4. next' = [next EXCEPT ![s] = base] /\ base' = s
  BY DEF AddServer
<1>5. PICK g : Grown(g, f, n, base, next, s)
  <2>1. next \in [Blocks -> Blocks \cup {Null}]
    BY Types
  <2> QED
    BY <1>1, <1>3, <2>1, ChainGrows, Zenon
<1>6. IsChain(g, n + 1, base', next') /\ {g[i] : i \in 1..(n+1)} = {f[i] : i \in 1..n} \cup {s}
  BY <1>4, <1>5 DEF Grown
<1>7. \A h, m : IsChain(h, m, base', next') => Listed' = {h[i] : i \in 1..m}
  BY ChainListedNext
<1> QED
  BY <1>2, <1>6, <1>7 DEF Whole

LEMMA Unlinks ==
  ASSUME TypeInv, NEW s \in Listed, Whole, Unlink(s)
  PROVE  Whole' /\ Listed' = Listed \ {s}
<1>1. PICK n, f : IsChain(f, n, base, next)
  BY DEF Whole
<1>2. Listed = {f[i] : i \in 1..n}
  BY <1>1, ChainListed
<1>3. PICK k \in 1..n : s = f[k]
  BY <1>2
<1>4. /\ n \in Nat /\ k \in Nat /\ f \in [1..n -> Blocks]
      /\ \A i, j \in 1..n : f[i] = f[j] => i = j
      /\ base = IF n = 0 THEN Null ELSE f[1]
      /\ \A i \in 1..n : next[f[i]] = IF i = n THEN Null ELSE f[i+1]
  BY <1>1 DEF IsChain
<1>5. n # 0 /\ 1 \in 1..n /\ (s = base <=> k = 1)
  BY <1>3, <1>4
<1> DEFINE P == {b \in Blocks : next[b] = s}
<1>6. ASSUME k # 1 PROVE First(P) = f[k-1]
  <2>1. k - 1 \in 1..n /\ k - 1 # n /\ k - 1 + 1 = k /\ k \in 1..n
    BY <1>4, <1>6
  <2>2. next[f[k-1]] = f[k] /\ f[k-1] \in Blocks
    BY <1>4, <2>1
  <2>3. f[k-1] \in P \cap Listed
    BY <1>2, <1>3, <2>1, <2>2
  <2>4. First(P) \in P /\ First(P) \in Listed
    BY <2>3, FirstIs
  <2>5. PICK j \in 1..n : First(P) = f[j]
    BY <1>2, <2>4
  <2>6. next[f[j]] = s
    BY <2>4, <2>5
  <2>7. s # Null
    BY <1>3, <1>4, ServersConstants
  <2>8. j # n /\ f[j+1] = f[k]
    BY <1>3, <1>4, <2>6, <2>7
  <2>9. j + 1 \in 1..n
    BY <1>4, <2>8
  <2>10. j + 1 = k
    BY <1>4, <2>1, <2>8, <2>9
  <2>11. j = k - 1
    BY <1>4, <2>10
  <2> QED
    BY <2>5, <2>11
<1>7. /\ base' = IF k = 1 THEN next[f[1]] ELSE base
      /\ next' = IF k = 1 THEN next ELSE [next EXCEPT ![f[k-1]] = next[f[k]]]
  <2>1. CASE k = 1
    BY <1>3, <1>5, <2>1 DEF Unlink
  <2>2. CASE k # 1
    <3>1. s # base /\ First(P) = f[k-1]
      BY <1>5, <1>6, <2>2
    <3>2. base' = base /\ next' = [next EXCEPT ![First(P)] = next[s]]
      BY <3>1 DEF Unlink
    <3> QED
      BY <1>3, <2>2, <3>1, <3>2
  <2> QED
    BY <2>1, <2>2
<1>8. PICK g : Shrunk(g, f, n, base, next, k)
  <2>1. next \in [Blocks -> Blocks \cup {Null}]
    BY Types
  <2> QED
    BY <1>1, <2>1, ChainShrinks, Zenon
<1>9. IsChain(g, n - 1, base', next') /\ {g[i] : i \in 1..(n-1)} = {f[i] : i \in 1..n} \ {f[k]}
  BY <1>7, <1>8 DEF Shrunk
<1>10. \A h, m : IsChain(h, m, base', next') => Listed' = {h[i] : i \in 1..m}
  BY ChainListedNext
<1> QED
  BY <1>2, <1>3, <1>9, <1>10 DEF Whole

-----------------------------------------------------------------------------
(* Types *)

FrameOK(x) ==
  /\ x \in Frame
  /\ x.s = Null <=> x.pc \in FreePCs
  /\ x.back \in CallPCs \cup {"idle"} /\ (x.pc # "resumed" => x.back = "idle")
  /\ x.pc = "volopen" \/ x.back = "volopen" => x.v \in Vols

FramesOK == th \in [Actors -> Frame] /\ \A t \in Actors : FrameOK(th[t])

RestOK ==
  /\ base \in Blocks \cup {Null}
  /\ next \in [Blocks -> Blocks \cup {Null}]
  /\ srv \in [Blocks -> Server]
  /\ ops \in 0..MaxOps /\ ending \in BOOLEAN
  /\ races \subseteq RaceKinds

LEMMA TypeParts == TypeInv <=> FramesOK /\ RestOK
<1>1. TypeInv => FramesOK /\ RestOK
  BY DEF TypeInv, TypeOK, FramesOK, RestOK, FrameOK
<1>2. FramesOK /\ RestOK => TypeInv
  BY DEF TypeInv, TypeOK, FramesOK, RestOK, FrameOK
<1> QED
  BY <1>1, <1>2

LEMMA TypePartsNext == FramesOK' /\ RestOK' => TypeInv'
<1>1. (TypeInv <=> FramesOK /\ RestOK)'
  BY TypeParts, PTL
<1> QED
  BY <1>1

\* How a step of one thread leaves the others
LEMMA OneMoves ==
  ASSUME FramesOK, NEW t \in Actors, NEW x, FrameOK(x), th' = [th EXCEPT ![t] = x]
  PROVE  FramesOK' /\ th'[t] = x /\ \A u \in Actors : u # t => th'[u] = th[u]
<1>1. x \in Frame
  BY DEF FrameOK
<1>2. th'[t] = x /\ (\A u \in Actors : u # t => th'[u] = th[u]) /\ th' \in [Actors -> Frame]
  BY <1>1 DEF FramesOK
<1>3. \A u \in Actors : FrameOK(th'[u])
  BY <1>2 DEF FramesOK
<1>4. \A u \in Actors : FrameOK(th[u])'
  <2> SUFFICES ASSUME NEW u \in Actors PROVE FrameOK(th[u])'
    OBVIOUS
  <2> QED
    BY <1>3 DEF FrameOK
<1> QED
  BY <1>2, <1>4 DEF FramesOK

LEMMA PCsAre ==
  /\ \A p \in FreePCs \cup CallPCs \cup OtherPCs : p \in PCs
  /\ \A p \in CallPCs \cup OtherPCs : p \notin FreePCs
  BY DEF PCs, FreePCs, CallPCs, OtherPCs

LEMMA FinishMoves ==
  ASSUME FramesOK, NEW t \in Actors, Finish(t)
  PROVE  th' = [th EXCEPT ![t] = Idle] /\ FrameOK(Idle)
<1>1. Idle \in Frame
  <2>1. "idle" \in PCs
    BY DEF PCs, FreePCs
  <2> QED
    BY <2>1 DEF Idle, Frame, Signatures
<1> QED
  BY <1>1 DEF Finish, FrameOK, Idle, FreePCs

LEMMA GotoMoves ==
  ASSUME FramesOK, NEW t \in Actors, NEW p \in PCs, th[t].pc \in FreePCs <=> p \in FreePCs,
         p = "volopen" => th[t].v \in Vols, th[t].pc # "resumed", Goto(t, p)
  PROVE  \E x : /\ th' = [th EXCEPT ![t] = x] /\ FrameOK(x)
                /\ x.pc = p /\ x.s = th[t].s /\ x.h = th[t].h /\ x.v = th[t].v /\ x.sig = th[t].sig
                /\ x.back = th[t].back
<1> DEFINE x == [th[t] EXCEPT !.pc = p]
<1>1. th[t] \in Frame /\ FrameOK(th[t]) /\ th \in [Actors -> Frame]
  BY DEF FramesOK
<1>2. th' = [th EXCEPT ![t] = x]
  BY <1>1 DEF Goto
<1>3. x \in Frame /\ x.pc = p /\ x.s = th[t].s /\ x.h = th[t].h /\ x.v = th[t].v
      /\ x.sig = th[t].sig /\ x.back = th[t].back
  BY <1>1 DEF Frame
<1> HIDE DEF x
<1>4. FrameOK(x)
  BY <1>1, <1>3 DEF FrameOK
<1> QED
  BY <1>2, <1>3, <1>4

LEMMA UseMoves ==
  ASSUME FramesOK, NEW t \in Actors, NEW p \in PCs, p \notin FreePCs, p # "volopen",
         NEW s \in Blocks, th[t].pc # "resumed", Use(t, p, s)
  PROVE  \E x : /\ th' = [th EXCEPT ![t] = x] /\ FrameOK(x)
                /\ x.pc = p /\ x.s = s /\ x.h = th[t].h /\ x.v = th[t].v /\ x.sig = th[t].sig
                /\ x.back = th[t].back
<1> DEFINE x == [th[t] EXCEPT !.pc = p, !.s = s]
<1>1. th[t] \in Frame /\ FrameOK(th[t]) /\ th \in [Actors -> Frame]
  BY DEF FramesOK
<1>2. th' = [th EXCEPT ![t] = x]
  BY <1>1 DEF Use
<1>3. x \in Frame /\ x.pc = p /\ x.s = s /\ x.h = th[t].h /\ x.v = th[t].v
      /\ x.sig = th[t].sig /\ x.back = th[t].back
  BY <1>1 DEF Frame
<1> HIDE DEF x
<1>4. FrameOK(x)
  BY <1>1, <1>3, ServersConstants DEF FrameOK
<1> QED
  BY <1>2, <1>3, <1>4

-----------------------------------------------------------------------------
(* What a step may do to the list *)

\* Only thread t moves, to x.
Moves(t, x) ==
  /\ FramesOK /\ FramesOK' /\ FrameOK(x)
  /\ th'[t] = x /\ \A u \in Actors : u # t => th'[u] = th[u]

LEMMA ListKept ==
  ASSUME ListInv, Untouched, NEW t \in Actors, NEW x, Moves(t, x),
         UNCHANGED <<base, next>>, \A b \in Blocks : srv[b].alloc => srv'[b].alloc,
         x.pc \notin Making, x.pc # "resumed", x.pc = "reconnect" => x.s \in Listed
  PROVE  ListInv'
<1>1. Whole /\ ListedAlloc /\ ListPlaces /\ MadeByOne
  BY DEF ListInv
<1>2. Listed' = Listed /\ Whole' /\ Listed \subseteq Blocks
  BY <1>1, Keeps, WholeEnds
<1>3. ListedAlloc'
  BY <1>1, <1>2 DEF ListedAlloc
<1>4. ListPlaces'
  <2> SUFFICES ASSUME NEW u \in Actors
               PROVE  /\ th'[u].pc # "resumed"
                      /\ th'[u].pc = "reconnect" => th'[u].s \in Listed'
                      /\ th'[u].pc \in Making => srv'[th'[u].s].alloc /\ th'[u].s \notin Listed'
    BY DEF ListPlaces
  <2>1. CASE u = t
    BY <1>2, <2>1 DEF Moves
  <2>2. CASE u # t
    <3>1. th'[u] = th[u] /\ FrameOK(th[u])
      BY <2>2 DEF Moves, FramesOK
    <3>2. th[u].pc \in Making => th[u].s \in Blocks
      BY <3>1 DEF FrameOK, Frame, Making, FreePCs
    <3> QED
      BY <1>1, <1>2, <3>1, <3>2 DEF ListPlaces
  <2> QED
    BY <2>1, <2>2
<1>5. MadeByOne'
  BY <1>1 DEF MadeByOne, Moves
<1> QED
  BY <1>2, <1>3, <1>4, <1>5 DEF ListInv

LEMMA ListLoses ==
  ASSUME ListInv, Untouched, NEW t \in Actors, NEW x, Moves(t, x),
         th[t].s \in Listed, Whole', Listed' = Listed \ {th[t].s},
         \A u \in Actors : u # t => th[u].s # th[t].s,
         \A b \in Blocks : b # th[t].s => srv'[b].alloc = srv[b].alloc,
         x.pc \notin Making, x.pc # "resumed", x.pc # "reconnect"
  PROVE  ListInv'
<1>1. Whole /\ ListedAlloc /\ ListPlaces /\ MadeByOne
  BY DEF ListInv
<1>2. Listed \subseteq Blocks
  BY <1>1, WholeEnds
<1>3. ListedAlloc'
  BY <1>1, <1>2 DEF ListedAlloc
<1>4. ListPlaces'
  <2> SUFFICES ASSUME NEW u \in Actors
               PROVE  /\ th'[u].pc # "resumed"
                      /\ th'[u].pc = "reconnect" => th'[u].s \in Listed'
                      /\ th'[u].pc \in Making => srv'[th'[u].s].alloc /\ th'[u].s \notin Listed'
    BY DEF ListPlaces
  <2>1. CASE u = t
    BY <2>1 DEF Moves
  <2>2. CASE u # t
    <3>1. th'[u] = th[u] /\ FrameOK(th[u]) /\ th[u].s # th[t].s
      BY <2>2 DEF Moves, FramesOK
    <3>2. th[u].pc \in Making => th[u].s \in Blocks
      BY <3>1 DEF FrameOK, Frame, Making, FreePCs
    <3> QED
      BY <1>1, <3>1, <3>2 DEF ListPlaces
  <2> QED
    BY <2>1, <2>2
<1>5. MadeByOne'
  BY <1>1 DEF MadeByOne, Moves
<1> QED
  BY <1>3, <1>4, <1>5 DEF ListInv

LEMMA ListMakes ==
  ASSUME ListInv, Untouched, NEW t \in Actors, NEW x, Moves(t, x),
         UNCHANGED <<base, next>>, x.pc \in Making, ~srv[x.s].alloc, srv'[x.s].alloc,
         \A b \in Blocks : b # x.s => srv'[b].alloc = srv[b].alloc
  PROVE  ListInv'
<1>1. Whole /\ ListedAlloc /\ ListPlaces /\ MadeByOne
  BY DEF ListInv
<1>2. Listed' = Listed /\ Whole' /\ Listed \subseteq Blocks
  BY <1>1, Keeps, WholeEnds
<1>3. x.s \notin Listed
  BY <1>1 DEF ListedAlloc
<1>4. ListedAlloc'
  BY <1>1, <1>2, <1>3 DEF ListedAlloc
<1>5. \A u \in Actors : u # t /\ th[u].pc \in Making => th[u].s # x.s /\ th[u].s \in Blocks
  <2> SUFFICES ASSUME NEW u \in Actors, u # t, th[u].pc \in Making
               PROVE  th[u].s # x.s /\ th[u].s \in Blocks
    OBVIOUS
  <2>1. FrameOK(th[u])
    BY DEF Moves, FramesOK
  <2>2. th[u].s \in Blocks
    BY <2>1 DEF FrameOK, Frame, Making, FreePCs
  <2> QED
    BY <1>1, <2>2 DEF ListPlaces
<1>6. ListPlaces'
  <2> SUFFICES ASSUME NEW u \in Actors
               PROVE  /\ th'[u].pc # "resumed"
                      /\ th'[u].pc = "reconnect" => th'[u].s \in Listed'
                      /\ th'[u].pc \in Making => srv'[th'[u].s].alloc /\ th'[u].s \notin Listed'
    BY DEF ListPlaces
  <2>1. CASE u = t
    <3>1. x.pc # "resumed" /\ x.pc # "reconnect"
      BY DEF Making
    <3> QED
      BY <1>2, <1>3, <2>1, <3>1 DEF Moves
  <2>2. CASE u # t
    <3>1. th'[u] = th[u]
      BY <2>2 DEF Moves
    <3> QED
      BY <1>1, <1>2, <1>5, <2>2, <3>1 DEF ListPlaces
  <2> QED
    BY <2>1, <2>2
<1>7. MadeByOne'
  BY <1>1, <1>5 DEF MadeByOne, Moves
<1> QED
  BY <1>2, <1>4, <1>6, <1>7 DEF ListInv

LEMMA ListGrows ==
  ASSUME ListInv, Untouched, NEW t \in Actors, NEW x, Moves(t, x),
         th[t].pc \in Making, Whole', Listed' = Listed \cup {th[t].s},
         \A b \in Blocks : srv'[b].alloc = srv[b].alloc,
         x.pc \notin Making, x.pc # "resumed", x.pc # "reconnect"
  PROVE  ListInv'
<1>1. Whole /\ ListedAlloc /\ ListPlaces /\ MadeByOne
  BY DEF ListInv
<1>2. Listed \subseteq Blocks
  BY <1>1, WholeEnds
<1>3. \A u \in Actors : th[u].pc \in Making => th[u].s \in Blocks
  <2> SUFFICES ASSUME NEW u \in Actors, th[u].pc \in Making
               PROVE  th[u].s \in Blocks
    OBVIOUS
  <2>1. FrameOK(th[u])
    BY DEF Moves, FramesOK
  <2> QED
    BY <2>1 DEF FrameOK, Frame, Making, FreePCs
<1>4. ListedAlloc'
  BY <1>1, <1>2, <1>3 DEF ListedAlloc, ListPlaces
<1>5. ListPlaces'
  <2> SUFFICES ASSUME NEW u \in Actors
               PROVE  /\ th'[u].pc # "resumed"
                      /\ th'[u].pc = "reconnect" => th'[u].s \in Listed'
                      /\ th'[u].pc \in Making => srv'[th'[u].s].alloc /\ th'[u].s \notin Listed'
    BY DEF ListPlaces
  <2>1. CASE u = t
    BY <2>1 DEF Moves
  <2>2. CASE u # t
    <3>1. th'[u] = th[u] /\ (th[u].pc \in Making => th[u].s # th[t].s)
      BY <1>1, <2>2 DEF Moves, MadeByOne
    <3> QED
      BY <1>1, <1>3, <3>1 DEF ListPlaces
  <2> QED
    BY <2>1, <2>2
<1>6. MadeByOne'
  BY <1>1 DEF MadeByOne, Moves
<1> QED
  BY <1>4, <1>5, <1>6 DEF ListInv

-----------------------------------------------------------------------------
(* What a step may do to the servers *)

\* What a thread that does not connect relies on
LEMMA PlaceOutside ==
  ASSUME NEW x, FrameOK(x), Place(x), x.pc \notin ConnectPCs,
         x.s \in Listed => x.s \in Listed',
         x.s \in Listed /\ srv[x.s].loaded => srv'[x.s].loaded
  PROVE  Place(x)'
<1>1. /\ x.pc \notin Making
      /\ x.pc \notin {"getstatus", "drop", "login"}
      /\ x.pc \notin {"probe", "getstatus", "drop", "connect", "login", "publish"}
      /\ x.pc # "drop" /\ x.pc \notin {"find_sig", "connect", "login", "publish"}
      /\ x.pc \notin {"connect", "login", "publish"}
  BY DEF ConnectPCs, Making
<1> QED
  BY <1>1 DEF Place

\* The servers' identities are as before.
LEMMA PlaceInside ==
  ASSUME NEW x, FrameOK(x), Place(x), Listed \subseteq Blocks, Listed' \subseteq Listed,
         x.s \in Listed => x.s \in Listed',
         \A b \in Blocks : /\ srv'[b].host = srv[b].host /\ srv'[b].sig = srv[b].sig
                           /\ srv'[b].loaded <=> srv[b].loaded,
         \A b \in Blocks : b \notin Listed /\ srv'[b].used => srv[b].used,
         x.pc \in Making => x.s \notin Listed
  PROVE  Place(x)'
<1>1. x.pc \notin FreePCs => x.s \in Blocks
  BY DEF FrameOK, Frame
<1>2. x.pc \in Making => ~srv'[x.s].loaded /\ ~srv'[x.s].used
  <2> SUFFICES ASSUME x.pc \in Making PROVE ~srv'[x.s].loaded /\ ~srv'[x.s].used
    OBVIOUS
  <2>1. x.s \in Blocks
    BY <1>1 DEF Making, FreePCs
  <2>2. ~srv[x.s].loaded /\ ~srv[x.s].used
    BY DEF Place
  <2> QED
    BY <2>1, <2>2
<1>3. x.pc \in {"getstatus", "drop", "login"} => x.s \in Listed' /\ ~srv'[x.s].loaded
  BY DEF Place
<1>4. x.pc \in {"probe", "getstatus", "drop", "connect", "login", "publish"} => srv'[x.s].host = x.h
  <2>1. x.pc \in {"probe", "getstatus", "drop", "connect", "login", "publish"} => x.s \in Blocks
    BY <1>1 DEF FreePCs
  <2> QED
    BY <2>1 DEF Place
<1>5. x.pc = "drop" => srv'[x.s].sig = Machine(x.h)
  <2>1. x.pc = "drop" => x.s \in Blocks
    BY <1>1 DEF FreePCs
  <2> QED
    BY <2>1 DEF Place
<1>6. x.pc \in {"find_sig", "connect", "login", "publish"} => x.sig = Machine(x.h)
  BY DEF Place
<1>7. x.pc \in {"connect", "login", "publish"} =>
        \A b \in Listed' : srv'[b].loaded /\ Machine(srv'[b].host) = Machine(x.h) => b = x.s
  <2> SUFFICES ASSUME x.pc \in {"connect", "login", "publish"}, NEW b \in Listed',
                      srv'[b].loaded, Machine(srv'[b].host) = Machine(x.h)
               PROVE  b = x.s
    OBVIOUS
  <2>1. b \in Listed /\ srv[b].loaded /\ srv[b].host = srv'[b].host
    OBVIOUS
  <2>2. Machine(srv[b].host) = Machine(x.h)
    BY <2>1
  <2> QED
    BY <2>1, <2>2 DEF Place
<1>8. x.pc \in {"publish", "volopen", "unmount", "volclose", "logout"} =>
        x.s \in Listed' /\ srv'[x.s].loaded
  BY DEF Place
<1>9. x.pc = "attach_error" => x.s \in Listed'
  BY DEF Place
<1>10. x.pc # "spinning" /\ (x.pc = "unmount" => x.v \in Vols)
  BY DEF Place
<1> QED
  BY <1>2, <1>3, <1>4, <1>5, <1>6, <1>7, <1>8, <1>9, <1>10 DEF Place, Machine

Joins(t, x) ==
  /\ x.pc \in ThreadsOnly => t \in Threads
  /\ x.pc \in ConnectPCs =>
       th[t].pc \in ConnectPCs \/ \A u \in Actors : th[u].pc \notin ConnectPCs

LEMMA Joined ==
  ASSUME Roles, OneConnects, NEW t \in Actors, NEW x, Moves(t, x), Joins(t, x)
  PROVE  Roles' /\ OneConnects'
<1>1. Roles'
  BY DEF Roles, Moves, Joins
<1>2. OneConnects'
  <2> SUFFICES ASSUME NEW u \in Actors, NEW w \in Actors,
                      th'[u].pc \in ConnectPCs, th'[w].pc \in ConnectPCs
               PROVE  u = w
    BY DEF OneConnects
  <2>1. CASE u = t \/ w = t
    BY <2>1 DEF Moves, Joins, OneConnects
  <2>2. CASE u # t /\ w # t
    BY <2>2 DEF Moves, OneConnects
  <2> QED
    BY <2>1, <2>2
<1> QED
  BY <1>1, <1>2

\* No server changes, though one that is not mounted may be removed.
LEMMA SessionKept ==
  ASSUME SessionParts, ListPlaces, Listed \subseteq Blocks, Listed' \subseteq Listed,
         NEW t \in Actors, NEW x, Moves(t, x), Joins(t, x), Place(x)',
         th[t].pc # "publish",
         th[t].pc = "logout" => th[t].s \notin Listed' \/ Mounted(th[t].s),
         \A u \in Actors : u # t /\ th[u].s \in Listed => th[u].s \in Listed',
         \A b \in Blocks : /\ srv'[b].host = srv[b].host /\ srv'[b].sig = srv[b].sig
                           /\ srv'[b].loaded <=> srv[b].loaded
                           /\ srv'[b].used <=> srv[b].used
                           /\ Mounted(b)' <=> Mounted(b),
         \A b \in Listed : b \notin Listed' => ~Mounted(b)
  PROVE  SessionParts'
<1>1. Roles' /\ OneConnects'
  BY Joined DEF SessionParts
<1>2. Places'
  <2> SUFFICES ASSUME NEW u \in Actors PROVE Place(th[u])'
    BY DEF Places
  <2>1. CASE u = t
    <3>1. th'[u] = x
      BY <2>1 DEF Moves
    <3> QED
      BY <3>1 DEF Place
  <2>2. CASE u # t
    <3>1. th'[u] = th[u] /\ FrameOK(th[u])
      BY <2>2 DEF Moves, FramesOK
    <3>2. Place(th[u]) /\ (th[u].pc \in Making => th[u].s \notin Listed)
      BY DEF SessionParts, Places, ListPlaces
    <3> DEFINE y == th[u]
    <3>3. FrameOK(y) /\ Place(y) /\ (y.pc \in Making => y.s \notin Listed)
          /\ (y.s \in Listed => y.s \in Listed')
      BY <2>2, <3>1, <3>2
    <3>4. PICK z : z = th[u]
      OBVIOUS
    <3>5. FrameOK(z) /\ Place(z) /\ (z.pc \in Making => z.s \notin Listed)
          /\ (z.s \in Listed => z.s \in Listed')
      BY <3>3, <3>4
    <3>6. Place(z)'
      BY <3>5, PlaceInside
    <3> QED
      BY <3>1, <3>4, <3>6 DEF Place
  <2> QED
    BY <2>1, <2>2
<1>3. MountedListed'
  BY DEF SessionParts, MountedListed
<1>4. EmptiedLeaves'
  <2> SUFFICES ASSUME NEW b \in Listed', srv'[b].used, ~Mounted(b)'
               PROVE  \E u \in Actors : th'[u].pc = "logout" /\ th'[u].s = b
    BY DEF EmptiedLeaves
  <2>1. b \in Listed /\ b \in Blocks /\ srv[b].used /\ ~Mounted(b)
    OBVIOUS
  <2>2. PICK u \in Actors : th[u].pc = "logout" /\ th[u].s = b
    BY <2>1 DEF SessionParts, EmptiedLeaves
  <2>3. u # t
    BY <2>1, <2>2
  <2> QED
    BY <2>2, <2>3 DEF Moves
<1>5. Published'
  <2> SUFFICES ASSUME NEW b \in Listed', srv'[b].loaded, srv'[b].sig # Machine(srv'[b].host)
               PROVE  \E u \in Actors : th'[u].pc = "publish" /\ th'[u].s = b
    BY DEF Published, Machine
  <2>1. b \in Listed /\ b \in Blocks /\ srv[b].loaded /\ srv[b].sig # Machine(srv[b].host)
    OBVIOUS
  <2>2. PICK u \in Actors : th[u].pc = "publish" /\ th[u].s = b
    BY <2>1 DEF SessionParts, Published
  <2>3. u # t
    BY <2>2
  <2> QED
    BY <2>2, <2>3 DEF Moves
<1>6. OneSession'
  <2> SUFFICES ASSUME NEW a \in Listed', NEW b \in Listed', srv'[a].loaded, srv'[b].loaded,
                      Machine(srv'[a].host) = Machine(srv'[b].host)
               PROVE  a = b
    BY DEF OneSession, Machine
  <2>1. a \in Listed /\ b \in Listed /\ srv[a].loaded /\ srv[b].loaded
        /\ srv'[a].host = srv[a].host /\ srv'[b].host = srv[b].host
    OBVIOUS
  <2>2. Machine(srv[a].host) = Machine(srv[b].host)
    BY <2>1
  <2> QED
    BY <2>1, <2>2 DEF SessionParts, OneSession
<1> QED
  BY <1>1, <1>2, <1>3, <1>4, <1>5, <1>6 DEF SessionParts

\* The one thread that connects changes one server, s.
LEMMA SessionConnects ==
  ASSUME SessionParts, Listed \subseteq Blocks, NEW s \in Blocks,
         Listed \subseteq Listed', Listed' \subseteq Listed \cup {s},
         NEW t \in Actors, NEW x, Moves(t, x), th[t].pc \in ConnectPCs, Joins(t, x), Place(x)',
         th[t].pc = "publish" => th[t].s = s,
         \A b \in Blocks : b # s => /\ srv'[b].host = srv[b].host /\ srv'[b].sig = srv[b].sig
                                    /\ srv'[b].loaded <=> srv[b].loaded
                                    /\ srv'[b].used <=> srv[b].used
                                    /\ Mounted(b)' <=> Mounted(b),
         s \in Listed /\ srv[s].loaded => srv'[s].loaded,
         Mounted(s)' => s \in Listed',
         s \in Listed' /\ srv'[s].used /\ ~Mounted(s)' => s \in Listed /\ srv[s].used /\ ~Mounted(s),
         s \in Listed' /\ srv'[s].loaded =>
           /\ srv'[s].sig = Machine(srv'[s].host) \/ (x.pc = "publish" /\ x.s = s)
           /\ \A b \in Listed :
                srv[b].loaded /\ Machine(srv[b].host) = Machine(srv'[s].host) => b = s
  PROVE  SessionParts'
<1>1. Roles' /\ OneConnects'
  BY Joined DEF SessionParts
<1>2. \A u \in Actors : u # t => th[u].pc \notin ConnectPCs
  BY DEF SessionParts, OneConnects
<1>3. Places'
  <2> SUFFICES ASSUME NEW u \in Actors PROVE Place(th[u])'
    BY DEF Places
  <2>1. CASE u = t
    <3>1. th'[u] = x
      BY <2>1 DEF Moves
    <3> QED
      BY <3>1 DEF Place
  <2>2. CASE u # t
    <3>1. th'[u] = th[u] /\ FrameOK(th[u])
      BY <2>2 DEF Moves, FramesOK
    <3>2. Place(th[u]) /\ th[u].pc \notin ConnectPCs
      BY <1>2, <2>2 DEF SessionParts, Places
    <3>3. th[u].s \in Listed => th[u].s \in Listed' /\ (srv[th[u].s].loaded => srv'[th[u].s].loaded)
      OBVIOUS
    <3>4. PICK z : z = th[u]
      OBVIOUS
    <3>5. FrameOK(z) /\ Place(z) /\ z.pc \notin ConnectPCs /\ (z.s \in Listed => z.s \in Listed')
          /\ (z.s \in Listed /\ srv[z.s].loaded => srv'[z.s].loaded)
      BY <3>1, <3>2, <3>3, <3>4
    <3>6. Place(z)'
      BY <3>5, PlaceOutside
    <3> QED
      BY <3>1, <3>4, <3>6 DEF Place
  <2> QED
    BY <2>1, <2>2
<1>4. MountedListed'
  BY DEF SessionParts, MountedListed
<1>5. EmptiedLeaves'
  <2> SUFFICES ASSUME NEW b \in Listed', srv'[b].used, ~Mounted(b)'
               PROVE  \E u \in Actors : th'[u].pc = "logout" /\ th'[u].s = b
    BY DEF EmptiedLeaves
  <2>1. b \in Listed /\ srv[b].used /\ ~Mounted(b)
    <3>1. CASE b = s
      BY <3>1
    <3>2. CASE b # s
      BY <3>2
    <3> QED
      BY <3>1, <3>2
  <2>2. PICK u \in Actors : th[u].pc = "logout" /\ th[u].s = b
    BY <2>1 DEF SessionParts, EmptiedLeaves
  <2>3. u # t
    BY <2>2 DEF ConnectPCs
  <2> QED
    BY <2>2, <2>3 DEF Moves
<1>6. Published'
  <2> SUFFICES ASSUME NEW b \in Listed', srv'[b].loaded, srv'[b].sig # Machine(srv'[b].host)
               PROVE  \E u \in Actors : th'[u].pc = "publish" /\ th'[u].s = b
    BY DEF Published, Machine
  <2>1. CASE b = s
    BY <2>1 DEF Moves
  <2>2. CASE b # s
    <3>1. b \in Listed /\ b \in Blocks /\ srv[b].loaded /\ srv[b].sig # Machine(srv[b].host)
      BY <2>2
    <3>2. PICK u \in Actors : th[u].pc = "publish" /\ th[u].s = b
      BY <3>1 DEF SessionParts, Published
    <3>3. u # t
      BY <2>2, <3>2
    <3> QED
      BY <3>2, <3>3 DEF Moves
  <2> QED
    BY <2>1, <2>2
<1>7. OneSession'
  <2> SUFFICES ASSUME NEW a \in Listed', NEW b \in Listed', srv'[a].loaded, srv'[b].loaded,
                      Machine(srv'[a].host) = Machine(srv'[b].host)
               PROVE  a = b
    BY DEF OneSession, Machine
  <2>0. \A c \in Listed' : c # s => c \in Listed /\ srv'[c].host = srv[c].host
                                    /\ (srv'[c].loaded => srv[c].loaded)
    OBVIOUS
  <2>1. CASE a # s /\ b # s
    <3>1. Machine(srv[a].host) = Machine(srv[b].host)
      BY <2>0, <2>1
    <3> QED
      BY <2>0, <2>1, <3>1 DEF SessionParts, OneSession
  <2>2. CASE a = s /\ b # s
    <3>1. Machine(srv[b].host) = Machine(srv'[s].host)
      BY <2>0, <2>2
    <3> QED
      BY <2>0, <2>2, <3>1
  <2>3. CASE a # s /\ b = s
    <3>1. Machine(srv[a].host) = Machine(srv'[s].host)
      BY <2>0, <2>3
    <3> QED
      BY <2>0, <2>3, <3>1
  <2> QED
    BY <2>1, <2>2, <2>3
<1> QED
  BY <1>1, <1>3, <1>4, <1>5, <1>6, <1>7 DEF SessionParts

\* A volume of server s, which stays on the list, is mounted or unmounted.
LEMMA SessionVolume ==
  ASSUME SessionParts, ListPlaces, Listed \subseteq Blocks, Listed' = Listed, NEW s \in Listed,
         NEW t \in Actors, NEW x, Moves(t, x), Joins(t, x), Place(x)',
         th[t].pc \notin {"publish", "logout"},
         \A b \in Blocks : /\ srv'[b].host = srv[b].host /\ srv'[b].sig = srv[b].sig
                           /\ srv'[b].loaded <=> srv[b].loaded,
         \A b \in Blocks : b # s => /\ srv'[b].used <=> srv[b].used
                                    /\ Mounted(b)' <=> Mounted(b),
         Mounted(s)' \/ (x.pc = "logout" /\ x.s = s)
  PROVE  SessionParts'
<1>1. Roles' /\ OneConnects'
  BY Joined DEF SessionParts
<1>2. Places'
  <2> SUFFICES ASSUME NEW u \in Actors PROVE Place(th[u])'
    BY DEF Places
  <2>1. CASE u = t
    <3>1. th'[u] = x
      BY <2>1 DEF Moves
    <3> QED
      BY <3>1 DEF Place
  <2>2. CASE u # t
    <3>1. th'[u] = th[u] /\ FrameOK(th[u])
      BY <2>2 DEF Moves, FramesOK
    <3>2. Place(th[u]) /\ (th[u].pc \in Making => th[u].s \notin Listed)
      BY DEF SessionParts, Places, ListPlaces
    <3>3. PICK z : z = th[u]
      OBVIOUS
    <3>4. FrameOK(z) /\ Place(z) /\ (z.pc \in Making => z.s \notin Listed)
      BY <3>1, <3>2, <3>3
    <3>5. Place(z)'
      BY <3>4, PlaceInside
    <3> QED
      BY <3>1, <3>3, <3>5 DEF Place
  <2> QED
    BY <2>1, <2>2
<1>3. MountedListed'
  BY DEF SessionParts, MountedListed
<1>4. EmptiedLeaves'
  <2> SUFFICES ASSUME NEW b \in Listed', srv'[b].used, ~Mounted(b)'
               PROVE  \E u \in Actors : th'[u].pc = "logout" /\ th'[u].s = b
    BY DEF EmptiedLeaves
  <2>1. CASE b = s
    BY <2>1 DEF Moves
  <2>2. CASE b # s
    <3>1. b \in Listed /\ srv[b].used /\ ~Mounted(b)
      BY <2>2
    <3>2. PICK u \in Actors : th[u].pc = "logout" /\ th[u].s = b
      BY <3>1 DEF SessionParts, EmptiedLeaves
    <3>3. u # t
      BY <3>2
    <3> QED
      BY <3>2, <3>3 DEF Moves
  <2> QED
    BY <2>1, <2>2
<1>5. Published'
  <2> SUFFICES ASSUME NEW b \in Listed', srv'[b].loaded, srv'[b].sig # Machine(srv'[b].host)
               PROVE  \E u \in Actors : th'[u].pc = "publish" /\ th'[u].s = b
    BY DEF Published, Machine
  <2>1. b \in Listed /\ b \in Blocks /\ srv[b].loaded /\ srv[b].sig # Machine(srv[b].host)
    OBVIOUS
  <2>2. PICK u \in Actors : th[u].pc = "publish" /\ th[u].s = b
    BY <2>1 DEF SessionParts, Published
  <2>3. u # t
    BY <2>2
  <2> QED
    BY <2>2, <2>3 DEF Moves
<1>6. OneSession'
  <2> SUFFICES ASSUME NEW a \in Listed', NEW b \in Listed', srv'[a].loaded, srv'[b].loaded,
                      Machine(srv'[a].host) = Machine(srv'[b].host)
               PROVE  a = b
    BY DEF OneSession, Machine
  <2>1. a \in Listed /\ b \in Listed /\ srv[a].loaded /\ srv[b].loaded
        /\ srv'[a].host = srv[a].host /\ srv'[b].host = srv[b].host
    OBVIOUS
  <2>2. Machine(srv[a].host) = Machine(srv[b].host)
    BY <2>1
  <2> QED
    BY <2>1, <2>2 DEF SessionParts, OneSession
<1> QED
  BY <1>1, <1>2, <1>3, <1>4, <1>5, <1>6 DEF SessionParts

-----------------------------------------------------------------------------
(* Steps that leave the list and the servers on it as they are *)

LEMMA Typed ==
  ASSUME TypeInv, NEW t \in Actors, NEW x, FrameOK(x), th' = [th EXCEPT ![t] = x], RestOK'
  PROVE  TypeInv' /\ Moves(t, x)
<1>1. FramesOK
  BY TypeParts
<1>2. FramesOK' /\ th'[t] = x /\ \A u \in Actors : u # t => th'[u] = th[u]
  BY <1>1, OneMoves
<1> QED
  BY <1>1, <1>2, TypePartsNext DEF Moves

LEMMA Whence ==
  ASSUME Inv, races \subseteq races', TypeInv',
         Untouched /\ Untouched' => ListInv',
         Untouched /\ races = {} /\ races' = {} => SessionParts'
  PROVE  Inv'
<1>1. Untouched' => Untouched
  BY DEF Untouched
<1>2. races = {} => Untouched
  BY DEF Untouched
<1>3. ListInv'
  BY <1>1 DEF ListInv
<1>4. SessionInv'
  BY <1>2 DEF SessionInv
<1> QED
  BY <1>3, <1>4 DEF Inv

LEMMA Unspoilt ==
  ASSUME Inv, Untouched
  PROVE  Whole /\ ~Cyclic /\ Listed \subseteq Blocks /\ ListedAlloc /\ ListPlaces /\ MadeByOne
  BY WholeEnds DEF Inv, ListInv

SameServer(b) ==
  /\ srv[b].alloc => srv'[b].alloc
  /\ srv'[b].host = srv[b].host /\ srv'[b].sig = srv[b].sig
  /\ srv'[b].loaded <=> srv[b].loaded
  /\ srv'[b].used <=> srv[b].used
  /\ Mounted(b)' <=> Mounted(b)

LEMMA SameServers ==
  ASSUME UNCHANGED srv
  PROVE  \A b \in Blocks : SameServer(b)
  BY DEF SameServer, Mounted

LEMMA QuietStep ==
  ASSUME Inv, NEW t \in Actors, NEW x, FrameOK(x), th' = [th EXCEPT ![t] = x],
         UNCHANGED <<base, next>>, RestOK', races \subseteq races',
         \A b \in Blocks : SameServer(b),
         Untouched => /\ x.pc \notin Making /\ x.pc # "resumed"
                      /\ x.pc = "reconnect" => x.s \in Listed,
         races = {} => /\ th[t].pc # "publish"
                       /\ th[t].pc = "logout" => Mounted(th[t].s)
                       /\ Joins(t, x) /\ Place(x)
  PROVE  Inv'
<1>1. TypeInv' /\ Moves(t, x)
  BY Typed DEF Inv
<1>2. Untouched => ListInv'
  BY <1>1, ListKept DEF Inv, SameServer
<1>3. Untouched /\ races = {} => SessionParts'
  <2> SUFFICES ASSUME Untouched, races = {} PROVE SessionParts'
    OBVIOUS
  <2>1. SessionParts /\ ListPlaces /\ Listed \subseteq Blocks /\ Listed' = Listed
    BY Unspoilt, Keeps DEF Inv, SessionInv
  <2>2. Place(x)'
    <3>1. \A b \in Blocks : /\ srv'[b].host = srv[b].host /\ srv'[b].sig = srv[b].sig
                            /\ srv'[b].loaded <=> srv[b].loaded
      BY DEF SameServer
    <3>2. \A b \in Blocks : b \notin Listed /\ srv'[b].used => srv[b].used
      BY DEF SameServer
    <3>3. x.pc \notin Making
      OBVIOUS
    <3> QED
      BY <2>1, <3>1, <3>2, <3>3, PlaceInside
  <2>3. \A b \in Blocks : /\ srv'[b].host = srv[b].host /\ srv'[b].sig = srv[b].sig
                          /\ srv'[b].loaded <=> srv[b].loaded
                          /\ srv'[b].used <=> srv[b].used
                          /\ Mounted(b)' <=> Mounted(b)
    BY DEF SameServer
  <2> QED
    BY <1>1, <2>1, <2>2, <2>3, SessionKept
<1> QED
  BY <1>1, <1>2, <1>3, Whence

LEMMA RestKept ==
  ASSUME TypeInv, UNCHANGED <<base, next, srv, races>>, ops' \in 0..MaxOps, ending' \in BOOLEAN
  PROVE  RestOK' /\ races \subseteq races'
<1>1. RestOK
  BY TypeParts
<1> QED
  BY <1>1 DEF RestOK

\* A thread that goes where nothing is assumed of it
LEMMA GoesOff ==
  ASSUME Inv, NEW t \in Actors, NEW x, FrameOK(x), th' = [th EXCEPT ![t] = x],
         UNCHANGED <<base, next>>, RestOK', races \subseteq races',
         \A b \in Blocks : SameServer(b),
         x.pc \in {"idle", "recv", "unmount_all", "ending"} \/ (x.pc = "zzzzz" /\ t \in Threads),
         th[t].pc \notin {"publish", "logout"}
  PROVE  Inv'
<1>1. x.pc \notin Making /\ x.pc # "resumed" /\ x.pc # "reconnect"
  BY DEF Making
<1>2. Joins(t, x)
  BY DEF Joins, ThreadsOnly, ConnectPCs
<1>3. Place(x)
  BY <1>1 DEF Place
<1> QED
  BY <1>1, <1>2, <1>3, QuietStep

-----------------------------------------------------------------------------
(* The clients' commands *)

LEMMA NullBase == base = Null => Listed = {}
<1> SUFFICES ASSUME base = Null, Listed # {} PROVE FALSE
  OBVIOUS
<1> DEFINE T == {n \in 0..Bound : Node[n] # Null}
<1>1. T \subseteq Nat /\ T # {}
  BY NodeIs DEF Listed
<1>2. PICK k \in T : \A j \in T : k <= j
  <2> HIDE DEF T
  <2> QED
    BY <1>1, LeastOf
<1>3. k \in 1..Bound /\ k - 1 \in 0..Bound /\ ~(k <= k - 1)
  BY <1>2, NodeIs
<1>4. Node[k-1] = Null
  BY <1>2, <1>3
<1> QED
  BY <1>2, <1>3, <1>4, NodeIs

LEMMA Searches ==
  /\ \A h : ByName(h) # Null => ByName(h) \in Listed \cap Blocks
  /\ \A h : ByAddress(h) # Null => ByAddress(h) \in Listed \cap Blocks
  /\ \A h : ByUrl(h) # Null => ByUrl(h) \in Listed \cap Blocks
<1>1. ASSUME NEW S, S \subseteq Blocks, First(S) # Null PROVE First(S) \in Listed \cap Blocks
  BY <1>1, FirstIs
<1>2. \A h : ByName(h) # Null => ByName(h) \in Listed \cap Blocks
  BY <1>1 DEF ByName
<1>3. \A h : ByAddress(h) # Null => ByAddress(h) \in Listed \cap Blocks
  BY <1>1 DEF ByAddress
<1>4. \A h : ByUrl(h) # Null => ByUrl(h) \in Listed \cap Blocks
  BY <1>2, <1>3 DEF ByUrl
<1> QED
  BY <1>2, <1>3, <1>4

LEMMA InvParts ==
  ASSUME Inv
  PROVE  /\ TypeInv /\ FramesOK /\ RestOK
         /\ \A t \in Actors : FrameOK(th[t]) /\ th[t] \in Frame
  BY TypeParts DEF Inv, FramesOK, FrameOK

LEMMA Stays ==
  ASSUME Inv, NEW t \in Actors, UNCHANGED <<th, base, next, srv, races, ending>>,
         th[t].pc = "idle", ops' \in 0..MaxOps
  PROVE  Inv'
<1>1. FrameOK(th[t]) /\ th' = [th EXCEPT ![t] = th[t]]
  BY InvParts DEF FramesOK
<1>2. RestOK' /\ races \subseteq races'
  <2>1. ending \in BOOLEAN
    BY InvParts DEF RestOK
  <2> QED
    BY <2>1, RestKept, InvParts
<1>3. \A b \in Blocks : SameServer(b)
  BY SameServers
<1> QED
  BY <1>1, <1>2, <1>3, GoesOff

LEMMA Commands ==
  ASSUME Inv, NEW t, NEW op, Command(t, op)
  PROVE  t \in Threads /\ t \in Actors /\ th[t].pc = "idle" /\ ops' \in 0..MaxOps
<1>1. ops \in 0..MaxOps /\ MaxOps \in Nat
  BY InvParts, ServersConstants DEF RestOK
<1> QED
  BY <1>1 DEF Command, At, Actors

LEMMA SpinStep ==
  ASSUME Inv, NEW t \in Actors, th[t].pc \in FreePCs, Cyclic, Goto(t, "spinning"),
         RestOK', races \subseteq races'
  PROVE  Inv'
<1>1. "spinning" \in PCs /\ "spinning" \in FreePCs /\ th[t].pc # "resumed"
  BY PCsAre DEF FreePCs
<1>2. PICK x : th' = [th EXCEPT ![t] = x] /\ FrameOK(x) /\ x.pc = "spinning"
  BY <1>1, GotoMoves, InvParts
<1>3. ~Untouched
  BY Unspoilt
<1>4. TypeInv'
  BY <1>2, Typed, InvParts
<1> QED
  BY <1>3, <1>4, Whence

\* A search that found s, with a place that needs no more than that
LEMMA FoundStep ==
  ASSUME Inv, NEW t \in Threads, th[t].pc = "idle", ops' \in 0..MaxOps,
         NEW s, s # Null => s \in Listed \cap Blocks,
         NEW p, p \in {"attach_error", "zzzzz", "reconnect"} \/ (p = "unmount" /\ s = Null),
         Found(t, s, p), UNCHANGED <<base, next, srv, races, ending>>
  PROVE  Inv'
<1>1. t \in Actors
  BY DEF Actors
<1>2. RestOK' /\ races \subseteq races'
  <2>1. ending \in BOOLEAN
    BY InvParts DEF RestOK
  <2> QED
    BY <2>1, RestKept, InvParts
<1>3. \A b \in Blocks : SameServer(b)
  BY SameServers
<1>4. CASE s # Null /\ Use(t, p, s)
  <2>1. p \in PCs /\ p \notin FreePCs /\ p # "volopen"
    BY <1>4, PCsAre DEF CallPCs, OtherPCs
  <2>2. PICK x : th' = [th EXCEPT ![t] = x] /\ FrameOK(x) /\ x.pc = p /\ x.s = s
    BY <1>1, <1>4, <2>1, UseMoves, InvParts
  <2>3. x.pc \notin Making /\ x.pc # "resumed" /\ x.s \in Listed
    BY <1>4, <2>2 DEF Making
  <2>4. Joins(t, x)
    BY <1>4, <2>2 DEF Joins, ConnectPCs
  <2>5. Place(x)
    BY <1>4, <2>2, <2>3 DEF Place
  <2> QED
    BY <1>1, <1>2, <1>3, <2>2, <2>3, <2>4, <2>5, QuietStep
<1>5. CASE s = Null /\ ~Cyclic /\ UNCHANGED th
  BY <1>1, <1>5, Stays
<1>6. CASE s = Null /\ Cyclic /\ Goto(t, "spinning")
  <2>1. th[t].pc \in FreePCs
    BY DEF FreePCs
  <2> QED
    BY <1>1, <1>2, <1>6, <2>1, SpinStep
<1> QED
  BY <1>4, <1>5, <1>6 DEF Found

LEMMA ConnectStep ==
  ASSUME Inv, NEW t, NEW h \in Hosts, Connect(t, h), UNCHANGED ending
  PROVE  Inv'
<1>1. t \in Threads /\ t \in Actors /\ th[t].pc = "idle" /\ ops' \in 0..MaxOps
      /\ UNCHANGED <<base, next, srv>>
  BY Commands DEF Connect
<1>2. CASE UNCHANGED <<th, races>>
  BY <1>1, <1>2, Stays
<1>3. CASE Cyclic /\ Goto(t, "spinning") /\ UNCHANGED races
  <2>1. th[t].pc \in FreePCs
    BY <1>1 DEF FreePCs
  <2>2. RestOK' /\ races \subseteq races'
    <3>1. ending \in BOOLEAN
      BY InvParts DEF RestOK
    <3> QED
      BY <1>1, <1>3, <3>1, RestKept, InvParts
  <2> QED
    BY <1>1, <1>3, <2>1, <2>2, SpinStep
<1>4. CASE /\ th' = [th EXCEPT ![t].pc = "lookup", ![t].h = h]
           /\ races' = races \cup {x \in {"overlap"} : \E u \in Threads : th[u].pc \in ConnectPCs}
  <2>0. PICK x : x = [th[t] EXCEPT !.pc = "lookup", !.h = h]
    OBVIOUS
  <2>1. th[t] \in Frame /\ FrameOK(th[t]) /\ th \in [Actors -> Frame]
    BY <1>1, InvParts DEF FramesOK
  <2>2. "lookup" \in PCs /\ "lookup" \in FreePCs /\ "idle" \in FreePCs
    BY PCsAre DEF FreePCs
  <2>3. x \in Frame /\ x.pc = "lookup" /\ x.h = h /\ x.s = th[t].s /\ x.back = th[t].back
        /\ x.v = th[t].v
    BY <2>0, <2>1, <2>2 DEF Frame
  <2>4. th' = [th EXCEPT ![t] = x]
    BY <1>4, <2>0, <2>1
  <2>5. FrameOK(x)
    BY <1>1, <2>1, <2>2, <2>3 DEF FrameOK
  <2>6. RestOK' /\ races \subseteq races'
    <3>1. RestOK
      BY InvParts
    <3> QED
      BY <1>1, <1>4, <3>1 DEF RestOK, RaceKinds
  <2>7. \A b \in Blocks : SameServer(b)
    BY <1>1, SameServers
  <2>8. TypeInv' /\ Moves(t, x)
    BY <1>1, <2>4, <2>5, <2>6, Typed, InvParts
  <2>9. Untouched => ListInv'
    <3>1. x.pc \notin Making /\ x.pc # "resumed" /\ x.pc # "reconnect"
      BY <2>3 DEF Making
    <3> QED
      BY <1>1, <2>7, <2>8, <3>1, ListKept DEF Inv, SameServer
  <2>10. Untouched /\ races = {} /\ races' = {} => SessionParts'
    <3> SUFFICES ASSUME Untouched, races = {}, races' = {} PROVE SessionParts'
      OBVIOUS
    <3>1. SessionParts /\ ListPlaces /\ Listed \subseteq Blocks /\ Listed' = Listed
      BY <1>1, Unspoilt, Keeps DEF Inv, SessionInv
    <3>2. \A u \in Threads : th[u].pc \notin ConnectPCs
      BY <1>4
    <3>3. \A u \in Actors : th[u].pc \notin ConnectPCs
      BY <3>1, <3>2 DEF SessionParts, Roles, ThreadsOnly
    <3>4. Joins(t, x)
      BY <1>1, <3>3 DEF Joins
    <3>5. Place(x)'
      BY <2>3 DEF Place, Making
    <3>6. \A b \in Blocks : /\ srv'[b].host = srv[b].host /\ srv'[b].sig = srv[b].sig
                            /\ srv'[b].loaded <=> srv[b].loaded
                            /\ srv'[b].used <=> srv[b].used
                            /\ Mounted(b)' <=> Mounted(b)
      BY <2>7 DEF SameServer
    <3>7. th[t].pc # "publish" /\ th[t].pc # "logout"
      BY <1>1
    <3>8. Listed' \subseteq Listed
      BY <3>1
    <3> QED
      BY <1>1, <2>8, <3>1, <3>4, <3>5, <3>6, <3>7, <3>8, SessionKept
  <2> QED
    BY <2>6, <2>8, <2>9, <2>10, Whence
<1> QED
  BY <1>2, <1>3, <1>4 DEF Connect

\* A command that goes to work on volume v of a listed server whose volumes
\* have been read
LEMMA VolumeStep ==
  ASSUME Inv, NEW t \in Threads, th[t].pc = "idle", ops' \in 0..MaxOps,
         NEW s \in Listed \cap Blocks, srv[s].loaded, NEW v \in Vols,
         NEW p, p \in {"volopen", "unmount"},
         th' = [th EXCEPT ![t].pc = p, ![t].s = s, ![t].v = v],
         UNCHANGED <<base, next, srv, races, ending>>
  PROVE  Inv'
<1>1. t \in Actors
  BY DEF Actors
<1> DEFINE x == [th[t] EXCEPT !.pc = p, !.s = s, !.v = v]
<1>2. th[t] \in Frame /\ FrameOK(th[t]) /\ th \in [Actors -> Frame]
  BY <1>1, InvParts DEF FramesOK
<1>3. p \in PCs /\ p \notin FreePCs
  BY PCsAre DEF CallPCs, OtherPCs
<1>4. x \in Frame /\ x.pc = p /\ x.s = s /\ x.back = th[t].back /\ x.v = v
  BY <1>2, <1>3 DEF Frame
<1>5. th' = [th EXCEPT ![t] = x]
  BY <1>2
<1> HIDE DEF x
<1>6. FrameOK(x)
  BY <1>1, <1>2, <1>3, <1>4, ServersConstants DEF FrameOK
<1>7. RestOK' /\ races \subseteq races'
  <2>1. ending \in BOOLEAN
    BY InvParts DEF RestOK
  <2> QED
    BY <2>1, RestKept, InvParts
<1>8. \A b \in Blocks : SameServer(b)
  BY SameServers
<1>9. x.pc \notin Making /\ x.pc # "resumed" /\ x.pc # "reconnect" /\ Joins(t, x)
  BY <1>4 DEF Making, Joins, ConnectPCs
<1>10. Place(x)
  BY <1>4, <1>9 DEF Place
<1> QED
  BY <1>1, <1>5, <1>6, <1>7, <1>8, <1>9, <1>10, QuietStep

LEMMA BeginStep ==
  ASSUME Inv, NEW t \in Threads, Begin(t), UNCHANGED ending
  PROVE  Inv'
<1>1. ASSUME NEW op, Command(t, op) PROVE t \in Actors /\ th[t].pc = "idle" /\ ops' \in 0..MaxOps
  BY <1>1, Commands
<1>2. CASE \E h \in Hosts : Connect(t, h)
  BY <1>2, ConnectStep
<1>3. ASSUME NEW h \in Hosts, Suspend(t, h) PROVE Inv'
  <2>1. Command(t, "suspend") /\ Found(t, ByName(h), "zzzzz") /\ UNCHANGED <<base, next, srv, races>>
    BY <1>3 DEF Suspend
  <2> QED
    BY <1>1, <2>1, FoundStep, Searches
<1>4. ASSUME NEW h \in Hosts, Resume(t, h) PROVE Inv'
  <2>1. Command(t, "resume") /\ Found(t, ByName(h), "reconnect") /\ UNCHANGED <<base, next, srv, races>>
    BY <1>4 DEF Resume
  <2> QED
    BY <1>1, <2>1, FoundStep, Searches
<1>5. ASSUME NEW v \in Vols, Unmount(t, v) PROVE Inv'
  <2> DEFINE s == First({b \in Blocks : srv[b].loaded})
  <2>1. Command(t, "unmount") /\ UNCHANGED <<base, next, srv, races>>
    BY <1>5 DEF Unmount
  <2>2. CASE s # Null
    <3>1. s \in Listed \cap Blocks /\ srv[s].loaded
      <4>1. s \in {b \in Blocks : srv[b].loaded} /\ s \in Listed
        BY <2>2, FirstIs
      <4> QED
        BY <4>1
    <3>2. UNCHANGED th \/ th' = [th EXCEPT ![t].pc = "unmount", ![t].s = s, ![t].v = v]
      BY <1>5, <2>2 DEF Unmount
    <3> HIDE DEF s
    <3>3. CASE UNCHANGED th
      BY <1>1, <2>1, <3>3, Stays
    <3>4. CASE th' = [th EXCEPT ![t].pc = "unmount", ![t].s = s, ![t].v = v]
      BY <1>1, <2>1, <3>1, <3>4, VolumeStep
    <3> QED
      BY <3>2, <3>3, <3>4
  <2>3. CASE s = Null
    <3>1. Found(t, s, "unmount")
      BY <1>5, <2>3 DEF Unmount
    <3> HIDE DEF s
    <3> QED
      BY <1>1, <2>1, <2>3, <3>1, FoundStep
  <2> QED
    BY <2>2, <2>3
<1>6. ASSUME NEW h \in Hosts, NEW v \in Vols, Attach(t, h, v) PROVE Inv'
  <2> DEFINE s == ByUrl(h)
  <2>1. Command(t, "attach") /\ UNCHANGED <<base, next, srv, races>>
    BY <1>6 DEF Attach
  <2>2. s # Null => s \in Listed \cap Blocks
    BY Searches
  <2>3. \/ s # Null /\ srv[s].loaded
           /\ (UNCHANGED th \/ th' = [th EXCEPT ![t].pc = "volopen", ![t].s = s, ![t].v = v])
        \/ Found(t, s, "attach_error")
    BY <1>6 DEF Attach
  <2> HIDE DEF s
  <2>4. CASE UNCHANGED th
    BY <1>1, <2>1, <2>4, Stays
  <2>5. CASE s # Null /\ srv[s].loaded /\ th' = [th EXCEPT ![t].pc = "volopen", ![t].s = s, ![t].v = v]
    BY <1>1, <2>1, <2>2, <2>5, VolumeStep
  <2>6. CASE Found(t, s, "attach_error")
    BY <1>1, <2>1, <2>2, <2>6, FoundStep
  <2> QED
    BY <2>3, <2>4, <2>5, <2>6
<1>7. ASSUME NEW s \in Blocks, NEW v \in Vols, Detach(t, s, v) PROVE Inv'
  <2>1. Command(t, "detach") /\ UNCHANGED <<base, next, srv, races>> /\ s \in Listed /\ srv[s].loaded
    BY <1>7 DEF Detach
  <2>2. UNCHANGED th \/ th' = [th EXCEPT ![t].pc = "unmount", ![t].s = s, ![t].v = v]
    BY <1>7 DEF Detach
  <2>3. CASE UNCHANGED th
    BY <1>1, <2>1, <2>3, Stays
  <2>4. CASE th' = [th EXCEPT ![t].pc = "unmount", ![t].s = s, ![t].v = v]
    BY <1>1, <2>1, <2>4, VolumeStep
  <2> QED
    BY <2>2, <2>3, <2>4
<1> QED
  BY <1>2, <1>3, <1>4, <1>5, <1>6, <1>7 DEF Begin

-----------------------------------------------------------------------------
(* Making a server *)

LEMMA FinishStep ==
  ASSUME Inv, NEW t \in Actors, Finish(t), UNCHANGED <<base, next>>, RestOK', races \subseteq races',
         \A b \in Blocks : SameServer(b), th[t].pc \notin {"publish", "logout"}
  PROVE  Inv'
<1>1. th' = [th EXCEPT ![t] = Idle] /\ FrameOK(Idle)
  BY FinishMoves, InvParts
<1>2. Idle.pc = "idle"
  BY DEF Idle
<1> QED
  BY <1>1, <1>2, GoesOff

LEMMA Quiet ==
  ASSUME Inv, UNCHANGED <<base, next, srv, races, ops, ending>>
  PROVE  RestOK' /\ races \subseteq races' /\ \A b \in Blocks : SameServer(b)
<1>1. RestOK
  BY InvParts
<1> QED
  BY <1>1, SameServers DEF RestOK

LEMMA FreshServer ==
  ASSUME NEW h \in Hosts \cup {Null}
  PROVE  /\ Fresh(h) \in Server /\ Fresh(h).alloc /\ Fresh(h).host = h
         /\ ~Fresh(h).loaded /\ ~Fresh(h).used
  BY DEF Fresh, Server, Signatures, VolStates

LEMMA InitStep ==
  ASSUME Inv, NEW t \in Actors, NEW p, InitServer(t, p),
         \/ p = "probe" /\ th[t].pc = "lookup"
         \/ p = "connect" /\ th[t].pc = "find_sig" /\ BySignature(th[t].sig) = Null,
         UNCHANGED <<base, next, races, ops, ending>>
  PROVE  Inv'
<1>1. PICK b \in Blocks : ~srv[b].alloc /\ srv' = [srv EXCEPT ![b] = Fresh(th[t].h)] /\ Use(t, p, b)
  BY DEF InitServer
<1>2. p \in PCs /\ p \notin FreePCs /\ p # "volopen"
  BY PCsAre DEF OtherPCs
<1>3. PICK x : /\ th' = [th EXCEPT ![t] = x] /\ FrameOK(x)
               /\ x.pc = p /\ x.s = b /\ x.h = th[t].h /\ x.sig = th[t].sig
  BY <1>1, <1>2, UseMoves, InvParts
<1>4. x.h \in Hosts \cup {Null}
  BY <1>3 DEF FrameOK, Frame
<1>5. /\ srv \in [Blocks -> Server]
      /\ Fresh(x.h) \in Server /\ Fresh(x.h).alloc /\ Fresh(x.h).host = x.h
      /\ ~Fresh(x.h).loaded /\ ~Fresh(x.h).used
  BY <1>4, FreshServer, InvParts DEF RestOK
<1>6. srv' \in [Blocks -> Server] /\ srv'[b] = Fresh(x.h) /\ \A c \in Blocks : c # b => srv'[c] = srv[c]
  BY <1>1, <1>3, <1>5
<1>7. RestOK'
  BY <1>6, InvParts DEF RestOK
<1>8. TypeInv' /\ Moves(t, x)
  BY <1>3, <1>7, Typed, InvParts
<1>9. Untouched => ListInv'
  <2>1. x.pc \in Making
    BY <1>3 DEF Making
  <2> QED
    BY <1>1, <1>3, <1>5, <1>6, <1>8, <2>1, ListMakes DEF Inv
<1>10. Untouched /\ races = {} => SessionParts'
  <2> SUFFICES ASSUME Untouched, races = {} PROVE SessionParts'
    OBVIOUS
  <2>1. SessionParts /\ ListedAlloc /\ Listed \subseteq Blocks /\ Listed' = Listed
    BY Unspoilt, Keeps DEF Inv, SessionInv
  <2>2. b \notin Listed
    BY <1>1, <2>1 DEF ListedAlloc
  <2>3. th[t].pc \in ConnectPCs
    BY DEF ConnectPCs
  <2>4. Joins(t, x)
    BY <2>1, <2>3 DEF Joins, SessionParts, Roles, ThreadsOnly
  <2>5. x.pc = "connect" => x.sig = Machine(x.h)
    BY <1>3, <2>1 DEF SessionParts, Places, Place
  <2>6. ASSUME x.pc = "connect", NEW c \in Listed, srv[c].loaded, Machine(srv[c].host) = Machine(x.h)
        PROVE  FALSE
    <3>1. srv[c].sig # x.sig
      <4>1. {d \in Blocks : srv[d].sig = x.sig} \cap Listed = {}
        BY <1>3, <2>6, FirstIs DEF BySignature
      <4> QED
        BY <2>1, <2>6, <4>1
    <3>2. PICK u \in Actors : th[u].pc = "publish"
      BY <2>1, <2>5, <2>6, <3>1 DEF SessionParts, Published
    <3>3. u = t
      BY <2>1, <2>3, <3>2 DEF SessionParts, OneConnects, ConnectPCs
    <3> QED
      BY <3>2, <3>3
  <2>7. Place(x)'
    <3>1. ~srv'[x.s].loaded /\ ~srv'[x.s].used /\ srv'[x.s].host = x.h
      BY <1>3, <1>5, <1>6
    <3>2. x.pc = "connect" =>
            \A c \in Listed' : srv'[c].loaded /\ Machine(srv'[c].host) = Machine(x.h) => c = x.s
      <4> SUFFICES ASSUME x.pc = "connect", NEW c \in Listed', c # b,
                          srv'[c].loaded, Machine(srv'[c].host) = Machine(x.h)
                   PROVE  FALSE
        BY <1>3
      <4>1. c \in Listed /\ srv'[c] = srv[c]
        BY <1>6, <2>1
      <4> QED
        BY <2>6, <4>1
    <3> QED
      BY <1>3, <2>5, <3>1, <3>2 DEF Place, Machine
  <2>8. ~Mounted(b)' /\ ~srv'[b].loaded /\ b \notin Listed'
    BY <1>5, <1>6, <2>1, <2>2 DEF Mounted
  <2>9. \A c \in Blocks : c # b => /\ srv'[c].host = srv[c].host /\ srv'[c].sig = srv[c].sig
                                   /\ srv'[c].loaded <=> srv[c].loaded
                                   /\ srv'[c].used <=> srv[c].used
                                   /\ Mounted(c)' <=> Mounted(c)
    BY <1>6 DEF Mounted
  <2>10. Listed \subseteq Listed' /\ Listed' \subseteq Listed \cup {b} /\ th[t].pc # "publish"
    BY <2>1
  <2> QED
    BY <1>8, <2>1, <2>2, <2>3, <2>4, <2>7, <2>8, <2>9, <2>10, SessionConnects
<1> QED
  BY <1>8, <1>9, <1>10, Whence

LEMMA FindServerStep ==
  ASSUME Inv, NEW t \in Actors, FindServer(t), UNCHANGED ending
  PROVE  Inv'
<1>1. th[t].pc = "lookup" /\ UNCHANGED <<base, next, races, ops, ending>>
  BY DEF FindServer, At, Same
<1>2. CASE Finish(t) /\ UNCHANGED srv
  BY <1>1, <1>2, Quiet, FinishStep
<1>3. CASE InitServer(t, "probe")
  BY <1>1, <1>3, InitStep
<1>4. CASE Cyclic /\ Goto(t, "spinning") /\ UNCHANGED srv
  <2>1. th[t].pc \in FreePCs
    BY <1>1 DEF FreePCs
  <2> QED
    BY <1>1, <1>4, <2>1, Quiet, SpinStep
<1> QED
  BY <1>2, <1>3, <1>4 DEF FindServer

LEMMA FindSignatureStep ==
  ASSUME Inv, NEW t \in Actors, FindSignature(t), UNCHANGED ending
  PROVE  Inv'
<1>1. th[t].pc = "find_sig" /\ UNCHANGED <<base, next, races, ops, ending>>
  BY DEF FindSignature, At, Same
<1>2. CASE Finish(t) /\ UNCHANGED srv
  BY <1>1, <1>2, Quiet, FinishStep
<1>3. CASE BySignature(th[t].sig) = Null /\ InitServer(t, "connect")
  BY <1>1, <1>3, InitStep
<1>4. CASE Cyclic /\ Goto(t, "spinning") /\ UNCHANGED srv
  <2>1. th[t].pc \in FreePCs
    BY <1>1 DEF FreePCs
  <2> QED
    BY <1>1, <1>4, <2>1, Quiet, SpinStep
<1> QED
  BY <1>2, <1>3, <1>4 DEF FindSignature

-----------------------------------------------------------------------------
(* Putting a server on the list, and taking it off *)

LEMMA Edited ==
  ASSUME srv \in [Blocks -> Server], NEW s \in Blocks, NEW y \in Server,
         srv' = [srv EXCEPT ![s] = y],
         y.alloc <=> srv[s].alloc, y.host = srv[s].host, y.sig = srv[s].sig,
         y.loaded <=> srv[s].loaded, y.used <=> srv[s].used, y.vols = srv[s].vols
  PROVE  /\ srv' \in [Blocks -> Server]
         /\ \A b \in Blocks : SameServer(b) /\ (srv'[b].alloc <=> srv[b].alloc)
<1>1. srv' \in [Blocks -> Server]
  OBVIOUS
<1>2. ASSUME NEW b \in Blocks PROVE SameServer(b) /\ (srv'[b].alloc <=> srv[b].alloc)
  <2>1. CASE b = s
    <3>1. srv'[b] = y
      BY <2>1
    <3> QED
      BY <2>1, <3>1 DEF SameServer, Mounted
  <2>2. CASE b # s
    <3>1. srv'[b] = srv[b]
      BY <2>2
    <3> QED
      BY <3>1 DEF SameServer, Mounted
  <2> QED
    BY <2>1, <2>2
<1> QED
  BY <1>1, <1>2

LEMMA EditedConn ==
  ASSUME srv \in [Blocks -> Server], NEW s \in Blocks, NEW c \in BOOLEAN,
         srv' = [srv EXCEPT ![s].conn = c]
  PROVE  /\ srv' \in [Blocks -> Server]
         /\ \A b \in Blocks : SameServer(b) /\ (srv'[b].alloc <=> srv[b].alloc)
<1> DEFINE y == [srv[s] EXCEPT !.conn = c]
<1>1. srv[s] \in Server /\ srv' = [srv EXCEPT ![s] = y]
  OBVIOUS
<1>2. y \in Server /\ (y.alloc <=> srv[s].alloc) /\ y.host = srv[s].host /\ y.sig = srv[s].sig
      /\ (y.loaded <=> srv[s].loaded) /\ (y.used <=> srv[s].used) /\ y.vols = srv[s].vols
  BY <1>1 DEF Server
<1> HIDE DEF y
<1> QED
  BY <1>1, <1>2, Edited

LEMMA EditedBroken ==
  ASSUME srv \in [Blocks -> Server], NEW s \in Blocks, NEW c \in BOOLEAN,
         srv' = [srv EXCEPT ![s].broken = c]
  PROVE  /\ srv' \in [Blocks -> Server]
         /\ \A b \in Blocks : SameServer(b) /\ (srv'[b].alloc <=> srv[b].alloc)
<1> DEFINE y == [srv[s] EXCEPT !.broken = c]
<1>1. srv[s] \in Server /\ srv' = [srv EXCEPT ![s] = y]
  OBVIOUS
<1>2. y \in Server /\ (y.alloc <=> srv[s].alloc) /\ y.host = srv[s].host /\ y.sig = srv[s].sig
      /\ (y.loaded <=> srv[s].loaded) /\ (y.used <=> srv[s].used) /\ y.vols = srv[s].vols
  BY <1>1 DEF Server
<1> HIDE DEF y
<1> QED
  BY <1>1, <1>2, Edited

LEMMA WorksOn ==
  ASSUME Inv, NEW t \in Actors, th[t].pc \in CallPCs \cup OtherPCs
  PROVE  th[t].s \in Blocks /\ th[t].s # Null /\ th[t].pc \notin FreePCs
<1>1. FrameOK(th[t]) /\ th[t].pc \notin FreePCs
  BY InvParts, PCsAre
<1> QED
  BY <1>1 DEF FrameOK, Frame

LEMMA AddTypes ==
  ASSUME RestOK, NEW s \in Blocks, AddServer(s)
  PROVE  /\ base' \in Blocks \cup {Null} /\ next' \in [Blocks -> Blocks \cup {Null}]
         /\ races' \subseteq RaceKinds /\ races \subseteq races'
         /\ s \in Listed => ~Untouched'
<1>1. next' = [next EXCEPT ![s] = base] /\ base' = s
      /\ races' = races \cup {x \in {"readded"} : s \in Listed}
  BY DEF AddServer
<1>2. next' \in [Blocks -> Blocks \cup {Null}]
  BY <1>1 DEF RestOK
<1>3. races' \subseteq RaceKinds
  BY <1>1 DEF RestOK, RaceKinds
<1> QED
  BY <1>1, <1>2, <1>3 DEF Untouched

LEMMA EstablishStep ==
  ASSUME Inv, NEW t \in Actors, NEW p, NEW q, Establish(t, p, q), UNCHANGED ending,
         \/ p = "probe" /\ q = "getstatus"
         \/ p = "connect" /\ q = "login"
         \/ p = "reconnect" /\ q = "resumed"
  PROVE  Inv'
<1>1. th[t].pc = p /\ UNCHANGED <<ops, ending>>
  BY DEF Establish, At
<1>2. CASE Finish(t) /\ UNCHANGED <<base, next, srv, races>>
  BY <1>1, <1>2, Quiet, FinishStep
<1>3. CASE AddServer(th[t].s) /\ srv' = [srv EXCEPT ![th[t].s].conn = TRUE] /\ Goto(t, q)
  <2>0. PICK s : s = th[t].s
    OBVIOUS
  <2>1. s \in Blocks /\ th[t].pc \notin FreePCs
    <3>1. th[t].pc \in OtherPCs
      BY <1>1 DEF OtherPCs
    <3> QED
      BY <2>0, <3>1, WorksOn
  <2>2. q \in PCs /\ q \notin FreePCs /\ q # "volopen"
    BY PCsAre DEF CallPCs, OtherPCs
  <2>3. PICK x : /\ th' = [th EXCEPT ![t] = x] /\ FrameOK(x)
                 /\ x.pc = q /\ x.s = s /\ x.h = th[t].h /\ x.sig = th[t].sig
    BY <1>1, <1>3, <2>0, <2>1, <2>2, GotoMoves, InvParts
  <2>4. srv' \in [Blocks -> Server] /\ \A b \in Blocks : SameServer(b) /\ (srv'[b].alloc <=> srv[b].alloc)
    <3>1. srv \in [Blocks -> Server] /\ srv' = [srv EXCEPT ![s].conn = TRUE]
      BY <1>3, <2>0, InvParts DEF RestOK
    <3> QED
      BY <2>1, <3>1, EditedConn
  <2>5. AddServer(s)
    BY <1>3, <2>0
  <2>6. RestOK' /\ races \subseteq races' /\ (s \in Listed => ~Untouched')
    BY <1>1, <2>1, <2>4, <2>5, AddTypes, InvParts DEF RestOK
  <2>7. TypeInv' /\ Moves(t, x)
    BY <2>3, <2>6, Typed, InvParts
  <2>8. ASSUME Untouched, Untouched'
        PROVE  /\ p # "reconnect" /\ s \notin Listed /\ th[t].pc \in Making
               /\ Whole' /\ Listed' = Listed \cup {s}
    <3>1. ListPlaces /\ Whole
      BY <2>8, Unspoilt
    <3>2. s \notin Listed /\ p # "reconnect"
      BY <1>1, <2>0, <2>6, <2>8, <3>1 DEF ListPlaces
    <3>3. th[t].pc \in Making
      BY <1>1, <3>2 DEF Making
    <3> QED
      BY <2>1, <2>5, <3>1, <3>2, <3>3, Adds, InvParts
  <2>9. Untouched /\ Untouched' => ListInv'
    <3> SUFFICES ASSUME Untouched, Untouched' PROVE ListInv'
      OBVIOUS
    <3>1. x.pc \notin Making /\ x.pc # "resumed" /\ x.pc # "reconnect"
      BY <2>3, <2>8 DEF Making
    <3>2. \A b \in Blocks : srv'[b].alloc = srv[b].alloc
      <4>1. \A b \in Blocks : srv'[b].alloc \in BOOLEAN /\ srv[b].alloc \in BOOLEAN
        BY <2>4, InvParts DEF RestOK, Server
      <4> QED
        BY <2>4, <4>1
    <3> QED
      BY <2>0, <2>7, <2>8, <3>1, <3>2, ListGrows DEF Inv
  <2>10. Untouched /\ races = {} /\ races' = {} => SessionParts'
    <3> SUFFICES ASSUME Untouched, races = {}, races' = {} PROVE SessionParts'
      OBVIOUS
    <3>0. Untouched'
      BY DEF Untouched
    <3>1. SessionParts /\ Listed \subseteq Blocks
      BY Unspoilt DEF Inv, SessionInv
    <3>2. p # "reconnect" /\ s \notin Listed /\ th[t].pc \in Making /\ Listed' = Listed \cup {s}
      BY <2>8, <3>0
    <3>3. th[t].pc \in ConnectPCs /\ th[t].pc # "publish"
      BY <1>1, <3>2 DEF ConnectPCs
    <3>4. Joins(t, x)
      BY <3>1, <3>3 DEF Joins, SessionParts, Roles, ThreadsOnly
    <3>5. Place(th[t]) /\ ~srv[s].loaded /\ ~srv[s].used
      BY <2>0, <3>1, <3>2 DEF SessionParts, Places, Place
    <3>6. Place(x)'
      <4>1. ~srv'[s].loaded /\ srv'[s].host = x.h /\ s \in Listed'
        <5>1. srv[s].host = x.h
          BY <1>1, <2>0, <2>3, <3>2, <3>5 DEF Place
        <5> QED
          BY <2>1, <2>4, <3>2, <3>5, <5>1 DEF SameServer
      <4>2. x.pc = "login" => x.sig = Machine(x.h)
        BY <1>1, <2>3, <3>5 DEF Place
      <4>3. x.pc = "login" =>
              \A b \in Listed' : srv'[b].loaded /\ Machine(srv'[b].host) = Machine(x.h) => b = x.s
        <5> SUFFICES ASSUME x.pc = "login", NEW b \in Listed', b # s, srv'[b].loaded,
                            Machine(srv'[b].host) = Machine(x.h)
                     PROVE  FALSE
          BY <2>3
        <5>1. b \in Listed /\ b \in Blocks
          BY <3>1, <3>2
        <5>2. srv[b].loaded /\ srv[b].host = srv'[b].host
          BY <2>4, <5>1 DEF SameServer
        <5>3. Machine(srv[b].host) = Machine(th[t].h)
          BY <2>3, <5>2
        <5> QED
          BY <1>1, <2>0, <2>3, <3>5, <5>1, <5>2, <5>3 DEF Place
      <4>4. x.pc = "getstatus" \/ x.pc = "login"
        BY <2>3, <3>2
      <4> QED
        BY <2>3, <4>1, <4>2, <4>3, <4>4 DEF Place, Machine, Making
    <3>7. \A b \in Blocks : b # s => /\ srv'[b].host = srv[b].host /\ srv'[b].sig = srv[b].sig
                                     /\ srv'[b].loaded <=> srv[b].loaded
                                     /\ srv'[b].used <=> srv[b].used
                                     /\ Mounted(b)' <=> Mounted(b)
      BY <2>4 DEF SameServer
    <3>8. ~srv'[s].loaded /\ ~srv'[s].used
      BY <2>1, <2>4, <3>5 DEF SameServer
    <3> QED
      BY <2>1, <2>7, <3>1, <3>2, <3>3, <3>4, <3>5, <3>6, <3>7, <3>8, SessionConnects
  <2> QED
    BY <2>6, <2>7, <2>9, <2>10, Whence
<1> QED
  BY <1>2, <1>3 DEF Establish

LEMMA RemoveTypes ==
  ASSUME RestOK, NEW t, NEW s \in Blocks, Remove(t, s)
  PROVE  /\ base' \in Blocks \cup {Null} /\ next' \in [Blocks -> Blocks \cup {Null}]
         /\ srv' \in [Blocks -> Server]
         /\ races' \subseteq RaceKinds /\ races \subseteq races'
<1>1. CASE s \notin Listed
  BY <1>1 DEF Remove, RestOK
<1>2. CASE s \in Listed
  <2>1. Unlink(s) /\ srv' = [srv EXCEPT ![s].alloc = FALSE, ![s].conn = FALSE]
        /\ races' = races \cup {x \in {"freed_in_use"} : \/ \E u \in Actors \ {t} : th[u].s = s
                                                        \/ th[t].pc = "login_error"}
    BY <1>2 DEF Remove
  <2>2. base' \in Blocks \cup {Null} /\ next' \in [Blocks -> Blocks \cup {Null}]
    <3>1. next[s] \in Blocks \cup {Null}
      BY DEF RestOK
    <3> QED
      BY <2>1, <3>1 DEF Unlink, RestOK
  <2>3. srv' \in [Blocks -> Server]
    <3> DEFINE y == [srv[s] EXCEPT !.alloc = FALSE, !.conn = FALSE]
    <3>1. srv[s] \in Server /\ srv \in [Blocks -> Server]
      BY DEF RestOK
    <3>2. srv' = [srv EXCEPT ![s] = y] /\ y \in Server
      BY <2>1, <3>1 DEF Server
    <3> HIDE DEF y
    <3> QED
      BY <3>1, <3>2
  <2>4. races' \subseteq RaceKinds
    BY <2>1 DEF RestOK, RaceKinds
  <2> QED
    BY <2>1, <2>2, <2>3, <2>4
<1> QED
  BY <1>1, <1>2

LEMMA RemoveStep ==
  ASSUME Inv, NEW t \in Actors, th[t].pc \in CallPCs \cup OtherPCs, Remove(t, th[t].s),
         NEW x, FrameOK(x), th' = [th EXCEPT ![t] = x], UNCHANGED <<ops, ending>>,
         th[t].pc # "publish",
         x.pc \in {"idle", "find_sig", "login_error", "ending"},
         x.pc \in {"find_sig", "login_error"} => th[t].pc \in ConnectPCs,
         races = {} => ~Mounted(th[t].s) /\ (x.pc = "find_sig" => x.sig = Machine(x.h))
  PROVE  Inv'
<1>1. th[t].s \in Blocks
  BY WorksOn
<1>2. RestOK' /\ races \subseteq races'
  BY <1>1, RemoveTypes, InvParts DEF RestOK
<1>3. TypeInv' /\ Moves(t, x)
  BY <1>2, Typed, InvParts
<1>4. x.pc \notin Making /\ x.pc # "resumed" /\ x.pc # "reconnect"
  BY DEF Making
<1>5. SessionParts => Joins(t, x)
  BY DEF Joins, SessionParts, Roles, ThreadsOnly, ConnectPCs
<1>6. CASE th[t].s \notin Listed
  <2>1. UNCHANGED <<base, next, srv, races>>
    BY <1>6 DEF Remove
  <2>2. \A b \in Blocks : SameServer(b)
    BY <2>1, SameServers
  <2>3. races = {} => th[t].pc # "logout" /\ Joins(t, x) /\ Place(x)
    <3> SUFFICES ASSUME races = {} PROVE th[t].pc # "logout" /\ Joins(t, x) /\ Place(x)
      OBVIOUS
    <3>1. SessionParts
      BY DEF Inv, SessionInv
    <3>2. th[t].pc # "logout"
      BY <1>6, <3>1 DEF SessionParts, Places, Place
    <3>3. Place(x)
      BY <1>4 DEF Place
    <3> QED
      BY <1>5, <3>1, <3>2, <3>3
  <2> QED
    BY <1>2, <1>4, <2>1, <2>2, <2>3, QuietStep
<1>7. CASE th[t].s \in Listed
  <2>0. PICK s : s = th[t].s
    OBVIOUS
  <2>1. Unlink(s) /\ srv' = [srv EXCEPT ![s].alloc = FALSE, ![s].conn = FALSE]
        /\ races' = races \cup {r \in {"freed_in_use"} : \/ \E u \in Actors \ {t} : th[u].s = s
                                                        \/ th[t].pc = "login_error"}
    BY <1>7, <2>0 DEF Remove
  <2>2. /\ \A b \in Blocks : b # s => srv'[b] = srv[b]
        /\ srv'[s].host = srv[s].host /\ srv'[s].sig = srv[s].sig /\ srv'[s].vols = srv[s].vols
        /\ srv'[s].loaded = srv[s].loaded /\ srv'[s].used = srv[s].used
    <3>1. srv[s] \in Server /\ srv \in [Blocks -> Server] /\ s \in Blocks
      BY <1>1, <2>0, InvParts DEF RestOK
    <3> QED
      BY <2>1, <3>1 DEF Server
  <2>3. ASSUME Untouched, Untouched'
        PROVE  /\ Whole' /\ Listed' = Listed \ {s}
               /\ \A u \in Actors : u # t => th[u].s # s
    <3>1. Whole
      BY <2>3, Unspoilt
    <3>2. \A u \in Actors : u # t => th[u].s # s
      BY <2>1, <2>3 DEF Untouched
    <3> QED
      BY <1>7, <2>0, <2>1, <3>1, <3>2, Unlinks, InvParts
  <2>4. Untouched /\ Untouched' => ListInv'
    BY <1>3, <1>4, <1>7, <2>0, <2>2, <2>3, ListLoses DEF Inv
  <2>5. Untouched /\ races = {} /\ races' = {} => SessionParts'
    <3> SUFFICES ASSUME Untouched, races = {}, races' = {} PROVE SessionParts'
      OBVIOUS
    <3>0. Untouched'
      BY DEF Untouched
    <3>1. SessionParts /\ ListPlaces /\ Listed \subseteq Blocks
      BY Unspoilt DEF Inv, SessionInv
    <3>2. Listed' = Listed \ {s} /\ \A u \in Actors : u # t => th[u].s # s
      BY <2>3, <3>0
    <3>3. Place(x)'
      BY <1>4 DEF Place, Machine
    <3>4. \A b \in Blocks : /\ srv'[b].host = srv[b].host /\ srv'[b].sig = srv[b].sig
                            /\ srv'[b].loaded <=> srv[b].loaded
                            /\ srv'[b].used <=> srv[b].used
                            /\ Mounted(b)' <=> Mounted(b)
      <4> SUFFICES ASSUME NEW b \in Blocks
                   PROVE  /\ srv'[b].host = srv[b].host /\ srv'[b].sig = srv[b].sig
                          /\ srv'[b].loaded <=> srv[b].loaded
                          /\ srv'[b].used <=> srv[b].used
                          /\ Mounted(b)' <=> Mounted(b)
        OBVIOUS
      <4>1. /\ srv'[b].host = srv[b].host /\ srv'[b].sig = srv[b].sig
            /\ srv'[b].loaded = srv[b].loaded /\ srv'[b].used = srv[b].used
            /\ srv'[b].vols = srv[b].vols
        BY <2>2
      <4> QED
        BY <4>1 DEF Mounted
    <3>5. \A b \in Listed : b \notin Listed' => ~Mounted(b)
      BY <2>0, <3>2
    <3>6. Listed' \subseteq Listed /\ th[t].s \notin Listed'
          /\ \A u \in Actors : u # t /\ th[u].s \in Listed => th[u].s \in Listed'
      BY <2>0, <3>2
    <3>7. Joins(t, x)
      BY <1>5, <3>1
    <3> QED
      BY <1>3, <3>1, <3>3, <3>4, <3>5, <3>6, <3>7, SessionKept
  <2> QED
    BY <1>2, <1>3, <2>4, <2>5, Whence
<1> QED
  BY <1>6, <1>7

-----------------------------------------------------------------------------
(* The rest of connecting *)

LEMMA ReconnectsStep ==
  ASSUME Inv, NEW t \in Actors, Reconnects(t), UNCHANGED ending
  PROVE  Inv'
<1>1. /\ th[t].pc \in CallPCs /\ th[t].s \in Listed /\ AddServer(th[t].s)
      /\ srv' = [srv EXCEPT ![th[t].s].conn = TRUE]
      /\ th' = [th EXCEPT ![t].pc = "resumed", ![t].back = th[t].pc]
      /\ UNCHANGED <<ops, ending>>
  BY DEF Reconnects
<1>2. th[t].s \in Blocks /\ th[t].pc \notin FreePCs
  BY <1>1, WorksOn
<1>3. th[t] \in Frame /\ FrameOK(th[t]) /\ th \in [Actors -> Frame] /\ srv \in [Blocks -> Server]
  BY InvParts DEF FramesOK, RestOK
<1>4. PICK x : x = [th[t] EXCEPT !.pc = "resumed", !.back = th[t].pc]
  OBVIOUS
<1>5. "resumed" \in PCs /\ "resumed" \notin FreePCs /\ th[t].pc \in PCs
  BY <1>1, PCsAre DEF OtherPCs
<1>6. x \in Frame /\ x.pc = "resumed" /\ x.s = th[t].s /\ x.v = th[t].v /\ x.back = th[t].pc
  BY <1>3, <1>4, <1>5 DEF Frame
<1>7. FrameOK(x)
  BY <1>1, <1>2, <1>3, <1>5, <1>6, ServersConstants DEF FrameOK
<1>8. th' = [th EXCEPT ![t] = x]
  BY <1>1, <1>3, <1>4
<1>9. srv' \in [Blocks -> Server]
  BY <1>1, <1>2, <1>3, EditedConn
<1>10. RestOK' /\ races \subseteq races' /\ ~Untouched'
  BY <1>1, <1>2, <1>9, AddTypes, InvParts DEF RestOK
<1>11. TypeInv'
  BY <1>7, <1>8, <1>10, Typed, InvParts
<1>12. races' # {}
  BY <1>10 DEF Untouched
<1> QED
  BY <1>10, <1>11, <1>12, Whence

LEMMA ResumedStep ==
  ASSUME Inv, NEW t \in Actors, Resumed(t), UNCHANGED ending
  PROVE  Inv'
<1>1. th[t].pc = "resumed" /\ UNCHANGED <<base, next, srv, races, ops, ending>>
  BY DEF Resumed, At
<1>2. ~Untouched
  BY <1>1, Unspoilt DEF ListPlaces
<1>3. th[t] \in Frame /\ FrameOK(th[t]) /\ th \in [Actors -> Frame]
  BY InvParts DEF FramesOK
<1>4. TypeInv'
  <2>1. CASE th[t].back = "idle"
    <3>1. Finish(t)
      BY <2>1 DEF Resumed
    <3> QED
      BY <1>1, <3>1, FinishMoves, Quiet, Typed, InvParts
  <2>2. CASE th[t].back # "idle"
    <3>1. th' = [th EXCEPT ![t].pc = th[t].back, ![t].back = "idle"]
      BY <2>2 DEF Resumed
    <3>2. PICK x : x = [th[t] EXCEPT !.pc = th[t].back, !.back = "idle"]
      OBVIOUS
    <3>3. th[t].back \in CallPCs /\ th[t].back \in PCs /\ th[t].back \notin FreePCs /\ "idle" \in PCs
      BY <1>3, <2>2, PCsAre DEF FrameOK, FreePCs
    <3>4. x \in Frame /\ x.pc = th[t].back /\ x.s = th[t].s /\ x.v = th[t].v /\ x.back = "idle"
      BY <1>3, <3>2, <3>3 DEF Frame
    <3>5. th[t].s # Null
      <4>1. th[t].pc \in OtherPCs
        BY <1>1 DEF OtherPCs
      <4> QED
        BY <4>1, WorksOn
    <3>6. FrameOK(x)
      BY <1>3, <3>3, <3>4, <3>5 DEF FrameOK
    <3>7. th' = [th EXCEPT ![t] = x]
      BY <1>3, <3>1, <3>2
    <3> QED
      BY <1>1, <3>6, <3>7, Quiet, Typed, InvParts
  <2> QED
    BY <2>1, <2>2
<1> QED
  BY <1>1, <1>2, <1>4, Whence

Connecting(t, s, x, y) ==
  \/ /\ th[t].pc = "getstatus" /\ x.pc = "drop" /\ x.s = s /\ x.h = th[t].h
     /\ y.sig = Machine(y.host) /\ y.loaded = srv[s].loaded
  \/ /\ th[t].pc = "login" /\ x.pc = "publish" /\ x.s = s /\ x.h = th[t].h /\ x.sig = th[t].sig
     /\ y.loaded
  \/ /\ th[t].pc = "publish" /\ x.pc = "idle"
     /\ y.sig = th[t].sig /\ y.loaded = srv[s].loaded

\* A step of the thread that connects that changes only the server it works on
LEMMA ConnectsOn ==
  ASSUME Inv, NEW t \in Actors, NEW s \in Blocks, s = th[t].s, NEW x, FrameOK(x),
         th' = [th EXCEPT ![t] = x], UNCHANGED <<base, next, races, ops, ending>>,
         NEW y \in Server, srv' = [srv EXCEPT ![s] = y],
         y.alloc = srv[s].alloc, y.host = srv[s].host, y.used = srv[s].used, y.vols = srv[s].vols,
         Connecting(t, s, x, y)
  PROVE  Inv'
<1>0. /\ th[t].pc \in {"getstatus", "login", "publish"} /\ x.pc \in {"idle", "drop", "publish"}
      /\ \/ /\ th[t].pc = "getstatus" /\ x.pc = "drop" /\ x.s = s /\ x.h = th[t].h
            /\ y.sig = Machine(y.host) /\ y.loaded = srv[s].loaded
         \/ /\ th[t].pc = "login" /\ x.pc = "publish" /\ x.s = s /\ x.h = th[t].h /\ x.sig = th[t].sig
            /\ y.loaded
         \/ /\ th[t].pc = "publish" /\ x.pc = "idle"
            /\ y.sig = th[t].sig /\ y.loaded = srv[s].loaded
  BY DEF Connecting
<1>1. srv \in [Blocks -> Server] /\ srv' \in [Blocks -> Server] /\ srv'[s] = y
      /\ \A b \in Blocks : b # s => srv'[b] = srv[b]
  BY <1>0, InvParts DEF RestOK
<1>2. RestOK' /\ races \subseteq races'
  BY <1>0, <1>1, InvParts DEF RestOK
<1>3. TypeInv' /\ Moves(t, x)
  BY <1>0, <1>2, Typed, InvParts
<1>4. Untouched => ListInv'
  <2>1. \A b \in Blocks : srv[b].alloc => srv'[b].alloc
    BY <1>0, <1>1
  <2>2. x.pc \notin Making /\ x.pc # "resumed" /\ x.pc # "reconnect"
    BY <1>0 DEF Making
  <2> QED
    BY <1>0, <1>3, <2>1, <2>2, ListKept DEF Inv
<1>5. Untouched /\ races = {} => SessionParts'
  <2> SUFFICES ASSUME Untouched, races = {} PROVE SessionParts'
    OBVIOUS
  <2>1. SessionParts /\ Listed \subseteq Blocks /\ Listed' = Listed
    BY <1>0, Unspoilt, Keeps DEF Inv, SessionInv
  <2>2. Place(th[t]) /\ th[t].pc \in ConnectPCs
    BY <1>0, <2>1 DEF SessionParts, Places, ConnectPCs
  <2>3. s \in Listed /\ srv[s].host = th[t].h
    BY <1>0, <2>2 DEF Place
  <2>4. th[t].pc # "publish" => ~srv[s].loaded
    BY <1>0, <2>2 DEF Place
  <2>5. th[t].pc # "getstatus" =>
          /\ th[t].sig = Machine(th[t].h)
          /\ \A b \in Listed : srv[b].loaded /\ Machine(srv[b].host) = Machine(th[t].h) => b = s
    BY <1>0, <2>2 DEF Place
  <2>6. Joins(t, x)
    BY <1>0, <2>1, <2>2 DEF Joins, SessionParts, Roles, ThreadsOnly
  <2>7. Place(x)'
    <3>1. CASE x.pc = "idle"
      BY <1>0, <3>1 DEF Place, Making
    <3>2. CASE x.pc = "drop"
      <4>1. ~srv'[s].loaded /\ srv'[s].sig = Machine(x.h) /\ srv'[s].host = x.h /\ x.s \in Listed'
        BY <1>0, <1>1, <2>1, <2>3, <2>4, <3>2
      <4> QED
        BY <1>0, <3>2, <4>1 DEF Place, Machine, Making
    <3>3. CASE x.pc = "publish"
      <4>1. srv'[s].host = x.h /\ srv'[s].loaded /\ x.sig = Machine(x.h) /\ x.s = s
        BY <1>0, <1>1, <2>3, <2>5, <3>3
      <4>2. \A b \in Listed' : srv'[b].loaded /\ Machine(srv'[b].host) = Machine(x.h) => b = x.s
        BY <1>0, <1>1, <2>1, <2>5, <3>3, <4>1
      <4> QED
        BY <1>0, <2>1, <2>3, <3>3, <4>1, <4>2 DEF Place, Machine, Making
    <3> QED
      BY <1>0, <3>1, <3>2, <3>3
  <2>8. \A b \in Blocks : b # s => /\ srv'[b].host = srv[b].host /\ srv'[b].sig = srv[b].sig
                                   /\ srv'[b].loaded <=> srv[b].loaded
                                   /\ srv'[b].used <=> srv[b].used
                                   /\ Mounted(b)' <=> Mounted(b)
    BY <1>0, <1>1 DEF Mounted
  <2>9. srv'[s].used /\ ~Mounted(s)' => srv[s].used /\ ~Mounted(s)
    BY <1>0, <1>1 DEF Mounted
  <2>10. srv'[s].loaded =>
           /\ srv'[s].sig = Machine(srv'[s].host) \/ (x.pc = "publish" /\ x.s = s)
           /\ \A b \in Listed :
                srv[b].loaded /\ Machine(srv[b].host) = Machine(srv'[s].host) => b = s
    <3> SUFFICES ASSUME y.loaded
                 PROVE  /\ y.sig = Machine(y.host) \/ (x.pc = "publish" /\ x.s = s)
                        /\ \A b \in Listed :
                             srv[b].loaded /\ Machine(srv[b].host) = Machine(y.host) => b = s
      BY <1>0, <1>1
    <3>1. th[t].pc # "getstatus"
      BY <1>0, <2>4
    <3>2. y.host = th[t].h
      BY <1>0, <2>3
    <3> QED
      BY <1>0, <2>5, <3>1, <3>2
  <2>11. Listed \subseteq Listed' /\ Listed' \subseteq Listed \cup {s} /\ s \in Listed'
         /\ (srv[s].loaded => srv'[s].loaded) /\ (th[t].pc = "publish" => th[t].s = s)
    BY <1>0, <1>1, <2>1, <2>3
  <2> QED
    BY <1>0, <1>3, <2>1, <2>2, <2>3, <2>6, <2>7, <2>8, <2>9, <2>10, <2>11, SessionConnects
<1> QED
  BY <1>0, <1>2, <1>3, <1>4, <1>5, Whence

LEMMA MachineType == \A h \in Hosts \cup {Null} : Machine(h) \in Signatures
  BY DEF Machine, Signatures

LEMMA GetStatusStep ==
  ASSUME Inv, NEW t \in Actors, GetStatus(t), UNCHANGED ending
  PROVE  Inv'
<1>1. th[t].pc = "getstatus" /\ UNCHANGED <<ops, ending>> /\ th[t].pc \in CallPCs
  BY DEF GetStatus, At, CallPCs
<1>2. PICK s : s = th[t].s
  OBVIOUS
<1>3. s \in Blocks /\ th[t].pc \notin FreePCs /\ srv \in [Blocks -> Server]
  BY <1>1, <1>2, WorksOn, InvParts DEF RestOK
<1>4. ASSUME Goto(t, "drop")
      PROVE  \E x : /\ th' = [th EXCEPT ![t] = x] /\ FrameOK(x)
                    /\ x.pc = "drop" /\ x.s = s /\ x.h = th[t].h
  <2>1. "drop" \in PCs /\ "drop" \notin FreePCs
    BY PCsAre DEF OtherPCs
  <2> QED
    BY <1>1, <1>2, <1>3, <1>4, <2>1, GotoMoves, InvParts
<1>5. CASE /\ srv' = [srv EXCEPT ![s].known = TRUE, ![s].sig = Machine(srv[s].host)]
           /\ Goto(t, "drop") /\ Same
  <2>1. PICK x : /\ th' = [th EXCEPT ![t] = x] /\ FrameOK(x)
                 /\ x.pc = "drop" /\ x.s = s /\ x.h = th[t].h
    BY <1>4, <1>5
  <2>2. PICK y : y = [srv[s] EXCEPT !.known = TRUE, !.sig = Machine(srv[s].host)]
    OBVIOUS
  <2>3. srv[s] \in Server /\ Machine(srv[s].host) \in Signatures
    BY <1>3, MachineType DEF Server
  <2>4. /\ y \in Server /\ y.alloc = srv[s].alloc /\ y.host = srv[s].host /\ y.used = srv[s].used
        /\ y.vols = srv[s].vols /\ y.loaded = srv[s].loaded /\ y.sig = Machine(srv[s].host)
    BY <2>2, <2>3 DEF Server
  <2>5. srv' = [srv EXCEPT ![s] = y]
    BY <1>3, <1>5, <2>2
  <2>6. Connecting(t, s, x, y)
    BY <1>1, <2>1, <2>4 DEF Connecting
  <2>7. UNCHANGED <<base, next, races, ops, ending>>
    BY <1>1, <1>5 DEF Same
  <2> QED
    BY <1>2, <1>3, <2>1, <2>4, <2>5, <2>6, <2>7, ConnectsOn
<1>6. CASE /\ races' = races \cup {"no_status"} /\ Goto(t, "drop") /\ UNCHANGED <<base, next, srv>>
  <2>1. PICK x : th' = [th EXCEPT ![t] = x] /\ FrameOK(x) /\ x.pc = "drop"
    BY <1>4, <1>6
  <2>2. RestOK' /\ races \subseteq races' /\ races' # {}
    BY <1>1, <1>6, InvParts DEF RestOK, RaceKinds
  <2>3. TypeInv' /\ Moves(t, x)
    BY <2>1, <2>2, Typed, InvParts
  <2>4. Untouched => ListInv'
    <3>1. x.pc \notin Making /\ x.pc # "resumed" /\ x.pc # "reconnect"
      BY <2>1 DEF Making
    <3> QED
      BY <1>6, <2>3, <3>1, ListKept DEF Inv
  <2> QED
    BY <2>2, <2>3, <2>4, Whence
<1>7. CASE Remove(t, th[t].s) /\ Finish(t)
  <2>1. th' = [th EXCEPT ![t] = Idle] /\ FrameOK(Idle) /\ Idle.pc = "idle"
    BY <1>7, FinishMoves, InvParts DEF Idle
  <2>2. races = {} => ~Mounted(th[t].s)
    BY <1>1 DEF Inv, SessionInv, SessionParts, Places, Place, Mounted
  <2> QED
    BY <1>1, <1>7, <2>1, <2>2, RemoveStep
<1> QED
  BY <1>2, <1>5, <1>6, <1>7 DEF GetStatus

LEMMA DropProbeStep ==
  ASSUME Inv, NEW t \in Actors, DropProbe(t), UNCHANGED ending
  PROVE  Inv'
<1>1. /\ th[t].pc = "drop" /\ Remove(t, th[t].s) /\ UNCHANGED <<ops, ending>>
      /\ th' = [th EXCEPT ![t].pc = "find_sig", ![t].s = Null, ![t].sig = srv[th[t].s].sig]
      /\ th[t].pc \in OtherPCs
  BY DEF DropProbe, At, OtherPCs
<1>2. th[t] \in Frame /\ FrameOK(th[t]) /\ th \in [Actors -> Frame] /\ srv[th[t].s] \in Server
  BY <1>1, WorksOn, InvParts DEF FramesOK, RestOK
<1>3. PICK x : x = [th[t] EXCEPT !.pc = "find_sig", !.s = Null, !.sig = srv[th[t].s].sig]
  OBVIOUS
<1>4. "find_sig" \in PCs /\ "find_sig" \in FreePCs
  BY PCsAre DEF FreePCs
<1>5. /\ x \in Frame /\ x.pc = "find_sig" /\ x.s = Null /\ x.h = th[t].h /\ x.back = th[t].back
      /\ x.v = th[t].v /\ x.sig = srv[th[t].s].sig
  BY <1>2, <1>3, <1>4 DEF Frame, Server
<1>6. FrameOK(x)
  BY <1>1, <1>2, <1>4, <1>5 DEF FrameOK
<1>7. th' = [th EXCEPT ![t] = x]
  BY <1>1, <1>2, <1>3
<1>8. races = {} => ~Mounted(th[t].s) /\ x.sig = Machine(x.h)
  BY <1>1, <1>5 DEF Inv, SessionInv, SessionParts, Places, Place, Mounted
<1>9. th[t].pc \in ConnectPCs
  BY <1>1 DEF ConnectPCs
<1> QED
  BY <1>1, <1>5, <1>6, <1>7, <1>8, <1>9, RemoveStep

LEMMA LoginStep ==
  ASSUME Inv, NEW t \in Actors, Login(t), UNCHANGED ending
  PROVE  Inv'
<1>1. th[t].pc = "login" /\ UNCHANGED <<ops, ending>> /\ th[t].pc \in CallPCs
  BY DEF Login, At, CallPCs
<1>2. PICK s : s = th[t].s
  OBVIOUS
<1>3. s \in Blocks /\ th[t].pc \notin FreePCs /\ srv \in [Blocks -> Server]
  BY <1>1, <1>2, WorksOn, InvParts DEF RestOK
<1>4. CASE srv' = [srv EXCEPT ![s].loaded = TRUE] /\ Goto(t, "publish") /\ Same
  <2>1. "publish" \in PCs /\ "publish" \notin FreePCs
    BY PCsAre DEF OtherPCs
  <2>2. PICK x : /\ th' = [th EXCEPT ![t] = x] /\ FrameOK(x)
                 /\ x.pc = "publish" /\ x.s = s /\ x.h = th[t].h /\ x.sig = th[t].sig
    BY <1>1, <1>2, <1>3, <1>4, <2>1, GotoMoves, InvParts
  <2>3. PICK y : y = [srv[s] EXCEPT !.loaded = TRUE]
    OBVIOUS
  <2>4. /\ y \in Server /\ y.alloc = srv[s].alloc /\ y.host = srv[s].host /\ y.used = srv[s].used
        /\ y.vols = srv[s].vols /\ y.loaded
    BY <1>3, <2>3 DEF Server
  <2>5. srv' = [srv EXCEPT ![s] = y]
    BY <1>3, <1>4, <2>3
  <2>6. Connecting(t, s, x, y)
    BY <1>1, <2>2, <2>4 DEF Connecting
  <2>7. UNCHANGED <<base, next, races, ops, ending>>
    BY <1>1, <1>4 DEF Same
  <2> QED
    BY <1>2, <1>3, <2>2, <2>4, <2>5, <2>6, <2>7, ConnectsOn
<1>5. CASE Remove(t, th[t].s) /\ Goto(t, "login_error")
  <2>1. "login_error" \in PCs /\ "login_error" \notin FreePCs
    BY PCsAre DEF OtherPCs
  <2>2. PICK x : th' = [th EXCEPT ![t] = x] /\ FrameOK(x) /\ x.pc = "login_error"
    BY <1>1, <1>3, <1>5, <2>1, GotoMoves, InvParts
  <2>3. races = {} => ~Mounted(th[t].s)
    BY <1>1 DEF Inv, SessionInv, SessionParts, Places, Place, Mounted
  <2>4. th[t].pc \in ConnectPCs
    BY <1>1 DEF ConnectPCs
  <2> QED
    BY <1>1, <1>5, <2>2, <2>3, <2>4, RemoveStep
<1> QED
  BY <1>2, <1>4, <1>5 DEF Login

\* A server that is not mounted is removed, one that is stays.
LEMMA LeaveStep ==
  ASSUME Inv, NEW t \in Actors, th[t].pc \in {"login_error", "attach_error"},
         IF Mounted(th[t].s) THEN UNCHANGED <<base, next, srv, races>> ELSE Remove(t, th[t].s),
         Finish(t), UNCHANGED <<ops, ending>>
  PROVE  Inv'
<1>1. th[t].pc \in OtherPCs
  BY DEF OtherPCs
<1>2. CASE Mounted(th[t].s)
  BY <1>2, Quiet, FinishStep
<1>3. CASE ~Mounted(th[t].s)
  <2>1. th' = [th EXCEPT ![t] = Idle] /\ FrameOK(Idle) /\ Idle.pc = "idle"
    BY FinishMoves, InvParts DEF Idle
  <2> QED
    BY <1>1, <1>3, <2>1, RemoveStep
<1> QED
  BY <1>2, <1>3

LEMMA PublishStep ==
  ASSUME Inv, NEW t \in Actors, Publish(t), UNCHANGED ending
  PROVE  Inv'
<1>1. th[t].pc = "publish" /\ UNCHANGED <<ops, ending>> /\ th[t].pc \in OtherPCs
  BY DEF Publish, At, OtherPCs
<1>2. PICK s : s = th[t].s
  OBVIOUS
<1>3. s \in Blocks /\ srv \in [Blocks -> Server] /\ th[t] \in Frame
  BY <1>1, <1>2, WorksOn, InvParts DEF RestOK
<1>4. srv' = [srv EXCEPT ![s].known = TRUE, ![s].sig = th[t].sig] /\ Finish(t) /\ Same
  BY <1>2 DEF Publish
<1>5. th' = [th EXCEPT ![t] = Idle] /\ FrameOK(Idle) /\ Idle.pc = "idle"
  BY <1>4, FinishMoves, InvParts DEF Idle
<1>6. PICK y : y = [srv[s] EXCEPT !.known = TRUE, !.sig = th[t].sig]
  OBVIOUS
<1>7. /\ y \in Server /\ y.alloc = srv[s].alloc /\ y.host = srv[s].host /\ y.used = srv[s].used
      /\ y.vols = srv[s].vols /\ y.loaded = srv[s].loaded /\ y.sig = th[t].sig
  BY <1>3, <1>6 DEF Server, Frame
<1>8. srv' = [srv EXCEPT ![s] = y]
  BY <1>3, <1>4, <1>6
<1>9. Connecting(t, s, Idle, y)
  BY <1>1, <1>5, <1>7 DEF Connecting
<1>10. UNCHANGED <<base, next, races, ops, ending>>
  BY <1>1, <1>4 DEF Same
<1> QED
  BY <1>2, <1>3, <1>5, <1>7, <1>8, <1>9, <1>10, ConnectsOn

-----------------------------------------------------------------------------
(* Volumes *)

LEMMA Goes ==
  ASSUME Inv, NEW t \in Actors, th[t].pc \in CallPCs \cup OtherPCs, th[t].pc # "resumed",
         NEW p \in CallPCs \cup OtherPCs, p # "volopen", Goto(t, p)
  PROVE  \E x : /\ th' = [th EXCEPT ![t] = x] /\ FrameOK(x)
                /\ x.pc = p /\ x.s = th[t].s /\ x.v = th[t].v
<1>1. /\ p \in PCs /\ p \notin FreePCs /\ th[t].pc \notin FreePCs /\ FramesOK
  BY PCsAre, InvParts
<1> QED
  BY <1>1, GotoMoves

\* What becomes of server s, y, and of the thread, x, when it mounts or unmounts
VolumeIn(t, s, x, y) ==
  \/ /\ x.pc = "idle"
     /\ races = {} => \E v \in Vols : y.vols[v] # "unmounted"
  \/ /\ x.pc = "volclose" /\ x.s = s
     /\ races = {} => \E v \in Vols : y.vols[v] # "unmounted"
  \/ /\ x.pc = "logout" /\ x.s = s

LEMMA VolumeChange ==
  ASSUME Inv, NEW t \in Actors, NEW s \in Blocks, s = th[t].s,
         th[t].pc \in {"volopen", "unmount", "volclose"},
         NEW x, FrameOK(x), th' = [th EXCEPT ![t] = x], UNCHANGED <<base, next, races, ops, ending>>,
         NEW y \in Server, srv' = [srv EXCEPT ![s] = y],
         y.alloc = srv[s].alloc, y.host = srv[s].host, y.sig = srv[s].sig, y.loaded = srv[s].loaded,
         VolumeIn(t, s, x, y)
  PROVE  Inv'
<1>0. /\ x.pc \in {"idle", "volclose", "logout"}
      /\ x.pc # "idle" => x.s = s
      /\ races = {} => x.pc = "logout" \/ \E v \in Vols : y.vols[v] # "unmounted"
  BY DEF VolumeIn
<1>1. srv \in [Blocks -> Server] /\ srv' \in [Blocks -> Server] /\ srv'[s] = y
      /\ \A b \in Blocks : b # s => srv'[b] = srv[b]
  BY InvParts DEF RestOK
<1>2. RestOK' /\ races \subseteq races'
  BY <1>1, InvParts DEF RestOK
<1>3. TypeInv' /\ Moves(t, x)
  BY <1>2, Typed, InvParts
<1>4. Untouched => ListInv'
  <2>1. \A b \in Blocks : srv[b].alloc => srv'[b].alloc
    BY <1>1
  <2>2. x.pc \notin Making /\ x.pc # "resumed" /\ x.pc # "reconnect"
    BY <1>0 DEF Making
  <2> QED
    BY <1>3, <2>1, <2>2, ListKept DEF Inv
<1>5. Untouched /\ races = {} => SessionParts'
  <2> SUFFICES ASSUME Untouched, races = {} PROVE SessionParts'
    OBVIOUS
  <2>1. SessionParts /\ ListPlaces /\ Listed \subseteq Blocks /\ Listed' = Listed
    BY Unspoilt, Keeps DEF Inv, SessionInv
  <2>2. s \in Listed /\ srv[s].loaded
    BY <2>1 DEF SessionParts, Places, Place
  <2>3. Joins(t, x)
    BY <1>0 DEF Joins, ThreadsOnly, ConnectPCs
  <2>4. Place(x)'
    <3>1. srv'[s].loaded /\ s \in Listed'
      BY <1>1, <2>1, <2>2
    <3> QED
      BY <1>0, <3>1 DEF Place, Making
  <2>5. \A b \in Blocks : /\ srv'[b].host = srv[b].host /\ srv'[b].sig = srv[b].sig
                          /\ srv'[b].loaded <=> srv[b].loaded
    BY <1>1
  <2>6. \A b \in Blocks : b # s => /\ srv'[b].used <=> srv[b].used
                                   /\ Mounted(b)' <=> Mounted(b)
    BY <1>1 DEF Mounted
  <2>7. Mounted(s)' \/ (x.pc = "logout" /\ x.s = s)
    <3>1. srv'[s].loaded
      BY <1>1, <2>2
    <3> QED
      BY <1>0, <1>1, <3>1 DEF Mounted
  <2> QED
    BY <1>3, <2>1, <2>2, <2>3, <2>4, <2>5, <2>6, <2>7, SessionVolume
<1> QED
  BY <1>2, <1>3, <1>4, <1>5, Whence

\* A thread that goes to answer with an error, or to close a volume
LEMMA GoesOn ==
  ASSUME Inv, NEW t \in Actors, th[t].pc \in {"volopen", "recv", "logout"},
         NEW p, Goto(t, p), RestOK', UNCHANGED <<base, next>>, races \subseteq races',
         \A b \in Blocks : SameServer(b),
         races = {} => (th[t].pc = "logout" => Mounted(th[t].s)),
         \/ p = "attach_error" /\ th[t].pc = "volopen"
         \/ p = "unmount_all" \/ p = "ending"
  PROVE  Inv'
<1>1. p \in CallPCs \cup OtherPCs /\ p # "volopen" /\ th[t].pc \in CallPCs \cup OtherPCs
  BY DEF CallPCs, OtherPCs
<1>2. PICK x : th' = [th EXCEPT ![t] = x] /\ FrameOK(x) /\ x.pc = p /\ x.s = th[t].s
  BY <1>1, Goes
<1>3. x.pc \notin Making /\ x.pc # "resumed" /\ x.pc # "reconnect"
  BY <1>2 DEF Making
<1>4. SessionParts => Joins(t, x) /\ Place(x)
  <2> SUFFICES ASSUME SessionParts PROVE Joins(t, x) /\ Place(x)
    OBVIOUS
  <2>1. x.pc = "attach_error" => t \in Threads /\ th[t].s \in Listed
    BY <1>2 DEF SessionParts, Roles, ThreadsOnly, Places, Place
  <2>2. Joins(t, x)
    BY <1>2, <2>1 DEF Joins, ThreadsOnly, ConnectPCs
  <2>3. Place(x)
    BY <1>2, <1>3, <2>1 DEF Place
  <2> QED
    BY <2>2, <2>3
<1>5. races = {} => /\ th[t].pc # "publish"
                    /\ th[t].pc = "logout" => Mounted(th[t].s)
                    /\ Joins(t, x) /\ Place(x)
  BY <1>4 DEF Inv, SessionInv
<1> QED
  BY <1>2, <1>3, <1>5, QuietStep

LEMMA VolOpenStep ==
  ASSUME Inv, NEW t \in Actors, VolOpen(t), UNCHANGED ending
  PROVE  Inv'
<1>1. th[t].pc = "volopen" /\ th[t].pc \in CallPCs /\ UNCHANGED <<base, next, races, ops, ending>>
  BY DEF VolOpen, At, Same, CallPCs
<1>2. PICK s, v : s = th[t].s /\ v = th[t].v
  OBVIOUS
<1>3. s \in Blocks /\ srv \in [Blocks -> Server] /\ srv[s] \in Server /\ v \in Vols
  <2>1. v \in Vols
    BY <1>1, <1>2, InvParts DEF FrameOK
  <2> QED
    BY <1>1, <1>2, <2>1, WorksOn, InvParts DEF RestOK
<1>4. InVain(t) \in BOOLEAN
  BY DEF InVain
<1>5. \/ UNCHANGED srv /\ Goto(t, "attach_error")
      \/ /\ srv' = [srv EXCEPT ![s].vols[v] = "mounted", ![s].used = TRUE, ![s].fixed = @ \cup {v}]
         /\ Finish(t)
      \/ /\ srv' = [srv EXCEPT ![s].vols[v] = "mounted", ![s].used = TRUE, ![s].broken = InVain(t)]
         /\ Finish(t)
      \/ srv' = [srv EXCEPT ![s].broken = InVain(t)] /\ Goto(t, "attach_error")
  BY <1>2 DEF VolOpen
<1>6. CASE UNCHANGED srv /\ Goto(t, "attach_error")
  BY <1>1, <1>6, Quiet, GoesOn
<1>7. CASE srv' = [srv EXCEPT ![s].broken = InVain(t)] /\ Goto(t, "attach_error")
  <2>1. srv' \in [Blocks -> Server] /\ \A b \in Blocks : SameServer(b)
    BY <1>3, <1>4, <1>7, EditedBroken
  <2>2. RestOK' /\ races \subseteq races'
    BY <1>1, <2>1, InvParts DEF RestOK
  <2> QED
    BY <1>1, <1>7, <2>1, <2>2, GoesOn
<1>8. ASSUME NEW y, NEW c \in BOOLEAN, NEW F \in SUBSET Vols,
             y = [srv[s] EXCEPT !.vols = [@ EXCEPT ![v] = "mounted"], !.used = TRUE,
                                !.broken = c, !.fixed = F],
             srv' = [srv EXCEPT ![s] = y], Finish(t)
      PROVE  Inv'
  <2>1. srv[s].vols \in [Vols -> VolStates]
    BY <1>3 DEF Server
  <2>2. PICK w : w = [srv[s].vols EXCEPT ![v] = "mounted"]
    OBVIOUS
  <2>3. w \in [Vols -> VolStates] /\ w[v] = "mounted"
    BY <1>3, <2>1, <2>2 DEF VolStates
  <2>4. y \in Server /\ y.alloc = srv[s].alloc /\ y.host = srv[s].host /\ y.sig = srv[s].sig
        /\ y.loaded = srv[s].loaded /\ y.vols = w
    BY <1>3, <1>8, <2>2, <2>3 DEF Server
  <2>5. th' = [th EXCEPT ![t] = Idle] /\ FrameOK(Idle) /\ Idle.pc = "idle"
    BY <1>8, FinishMoves, InvParts DEF Idle
  <2>6. VolumeIn(t, s, Idle, y)
    BY <1>3, <2>3, <2>4, <2>5 DEF VolumeIn
  <2> QED
    BY <1>1, <1>2, <1>3, <1>8, <2>4, <2>5, <2>6, VolumeChange
<1>9. CASE /\ srv' = [srv EXCEPT ![s].vols[v] = "mounted", ![s].used = TRUE, ![s].fixed = @ \cup {v}]
           /\ Finish(t)
  <2>1. PICK y : y = [srv[s] EXCEPT !.vols = [@ EXCEPT ![v] = "mounted"], !.used = TRUE,
                                    !.broken = srv[s].broken, !.fixed = srv[s].fixed \cup {v}]
    OBVIOUS
  <2>2. srv[s].broken \in BOOLEAN /\ srv[s].fixed \cup {v} \in SUBSET Vols
    BY <1>3 DEF Server
  <2>3. srv' = [srv EXCEPT ![s] = y]
    <3>1. y = [srv[s] EXCEPT !.vols = [@ EXCEPT ![v] = "mounted"], !.used = TRUE,
                             !.fixed = srv[s].fixed \cup {v}]
      BY <1>3, <2>1 DEF Server
    <3> QED
      BY <1>3, <1>9, <3>1
  <2> QED
    BY <1>8, <1>9, <2>1, <2>2, <2>3
<1>10. CASE /\ srv' = [srv EXCEPT ![s].vols[v] = "mounted", ![s].used = TRUE, ![s].broken = InVain(t)]
            /\ Finish(t)
  <2>1. PICK y : y = [srv[s] EXCEPT !.vols = [@ EXCEPT ![v] = "mounted"], !.used = TRUE,
                                    !.broken = InVain(t), !.fixed = srv[s].fixed]
    OBVIOUS
  <2>2. srv[s].fixed \in SUBSET Vols
    BY <1>3 DEF Server
  <2>3. srv' = [srv EXCEPT ![s] = y]
    <3>1. y = [srv[s] EXCEPT !.vols = [@ EXCEPT ![v] = "mounted"], !.used = TRUE,
                             !.broken = InVain(t)]
      BY <1>3, <2>1 DEF Server
    <3> QED
      BY <1>3, <1>10, <3>1
  <2> QED
    BY <1>4, <1>8, <1>10, <2>1, <2>2, <2>3
<1> QED
  BY <1>5, <1>6, <1>7, <1>9, <1>10

\* y is server s after a change of volume v's state to c.
VolumeSet(s, v, c, y) ==
  /\ y \in Server /\ srv' = [srv EXCEPT ![s] = y]
  /\ y.alloc = srv[s].alloc /\ y.host = srv[s].host /\ y.sig = srv[s].sig
  /\ y.loaded = srv[s].loaded /\ (v \in Vols => y.vols[v] = c)

LEMMA VolumeEdit ==
  ASSUME Inv, NEW s \in Blocks, NEW v, NEW c \in VolStates,
         srv' = [srv EXCEPT ![s].vols[v] = c]
  PROVE  \E y : VolumeSet(s, v, c, y)
<1>1. srv[s] \in Server /\ srv[s].vols \in [Vols -> VolStates] /\ srv \in [Blocks -> Server]
  BY InvParts DEF RestOK, Server
<1>2. PICK w : w = [srv[s].vols EXCEPT ![v] = c]
  OBVIOUS
<1>3. w \in [Vols -> VolStates] /\ (v \in Vols => w[v] = c)
  BY <1>1, <1>2
<1>4. PICK y : y = [srv[s] EXCEPT !.vols = w]
  OBVIOUS
<1>5. y \in Server /\ y.alloc = srv[s].alloc /\ y.host = srv[s].host /\ y.sig = srv[s].sig
      /\ y.loaded = srv[s].loaded /\ y.vols = w
  BY <1>1, <1>3, <1>4 DEF Server
<1>6. srv' = [srv EXCEPT ![s] = y]
  BY <1>1, <1>2, <1>4
<1>7. VolumeSet(s, v, c, y)
  BY <1>3, <1>5, <1>6 DEF VolumeSet
<1> QED
  BY <1>7

LEMMA BeginUnmountStep ==
  ASSUME Inv, NEW t \in Actors, BeginUnmount(t), UNCHANGED ending
  PROVE  Inv'
<1>1. th[t].pc = "unmount" /\ th[t].pc \in OtherPCs /\ UNCHANGED <<base, next, races, ops, ending>>
  BY DEF BeginUnmount, At, Same, OtherPCs
<1>2. PICK s, v : s = th[t].s /\ v = th[t].v
  OBVIOUS
<1>3. s \in Blocks /\ srv \in [Blocks -> Server]
  BY <1>1, <1>2, WorksOn, InvParts DEF RestOK
<1>4. CASE srv' = [srv EXCEPT ![s].vols[v] = "unmounting"] /\ Goto(t, "volclose")
  <2>1. "volclose" \in CallPCs /\ "unmounting" \in VolStates
    BY DEF CallPCs, VolStates
  <2>2. PICK x : th' = [th EXCEPT ![t] = x] /\ FrameOK(x) /\ x.pc = "volclose" /\ x.s = s
    BY <1>1, <1>2, <1>4, <2>1, Goes
  <2>3. PICK y : VolumeSet(s, v, "unmounting", y)
    <3>1. srv' = [srv EXCEPT ![s].vols[v] = "unmounting"] /\ "unmounting" \in VolStates
      BY <1>4, <2>1
    <3> QED
      BY <1>3, <3>1, VolumeEdit, Zenon
  <2>4. races = {} => v \in Vols
    BY <1>1, <1>2 DEF Inv, SessionInv, SessionParts, Places, Place
  <2>5. VolumeIn(t, s, x, y)
    BY <2>2, <2>3, <2>4 DEF VolumeIn, VolumeSet
  <2> QED
    BY <1>1, <1>2, <1>3, <2>2, <2>3, <2>5, VolumeChange DEF VolumeSet
<1>5. CASE /\ IF t = Ender THEN Goto(t, "ending") ELSE Finish(t)
           /\ IF t = Loop THEN Disconnect(s) ELSE UNCHANGED srv
  <2>1. srv' \in [Blocks -> Server] /\ \A b \in Blocks : SameServer(b)
    <3>1. CASE t = Loop
      BY <1>3, <1>5, <3>1, EditedConn DEF Disconnect
    <3>2. CASE t # Loop
      BY <1>3, <1>5, <3>2, SameServers
    <3> QED
      BY <3>1, <3>2
  <2>2. RestOK' /\ races \subseteq races'
    BY <1>1, <2>1, InvParts DEF RestOK
  <2>3. CASE t = Ender
    <3>1. Goto(t, "ending") /\ "ending" \in OtherPCs
      BY <1>5, <2>3 DEF OtherPCs
    <3>2. PICK x : th' = [th EXCEPT ![t] = x] /\ FrameOK(x) /\ x.pc = "ending"
      BY <1>1, <3>1, Goes
    <3> QED
      BY <1>1, <2>1, <2>2, <3>2, GoesOff
  <2>4. CASE t # Ender
    BY <1>1, <1>5, <2>1, <2>2, <2>4, FinishStep
  <2> QED
    BY <2>3, <2>4
<1> QED
  BY <1>2, <1>4, <1>5 DEF BeginUnmount

LEMMA VolCloseStep ==
  ASSUME Inv, NEW t \in Actors, VolClose(t), UNCHANGED ending
  PROVE  Inv'
<1>1. th[t].pc = "volclose" /\ th[t].pc \in CallPCs /\ UNCHANGED <<base, next, races, ops, ending>>
  BY DEF VolClose, At, Same, CallPCs
<1>2. PICK s, v : s = th[t].s /\ v = th[t].v
  OBVIOUS
<1>3. s \in Blocks
  BY <1>1, <1>2, WorksOn
<1>4. srv' = [srv EXCEPT ![s].vols[v] = "unmounted"] /\ Goto(t, "logout")
  BY <1>2 DEF VolClose
<1>5. "logout" \in CallPCs /\ "unmounted" \in VolStates
  BY DEF CallPCs, VolStates
<1>6. PICK x : th' = [th EXCEPT ![t] = x] /\ FrameOK(x) /\ x.pc = "logout" /\ x.s = s
  BY <1>1, <1>2, <1>4, <1>5, Goes
<1>7. PICK y : VolumeSet(s, v, "unmounted", y)
  BY <1>3, <1>4, <1>5, VolumeEdit
<1>8. VolumeIn(t, s, x, y)
  BY <1>6 DEF VolumeIn
<1> QED
  BY <1>1, <1>2, <1>3, <1>6, <1>7, <1>8, VolumeChange DEF VolumeSet

LEMMA LogoutStep ==
  ASSUME Inv, NEW t \in Actors, Logout(t), UNCHANGED ending
  PROVE  Inv'
<1>1. th[t].pc = "logout" /\ th[t].pc \in CallPCs /\ UNCHANGED <<ops, ending>>
  BY DEF Logout, At, CallPCs
<1>2. ASSUME Finish(t) PROVE th' = [th EXCEPT ![t] = Idle] /\ FrameOK(Idle) /\ Idle.pc = "idle"
  BY <1>2, FinishMoves, InvParts DEF Idle
<1>3. CASE Mounted(th[t].s)
  <2>1. AfterUnmount(t) /\ UNCHANGED <<base, next, srv, races>>
    BY <1>3 DEF Logout
  <2>2. CASE Goto(t, "unmount_all") \/ Goto(t, "ending")
    BY <1>1, <1>3, <2>1, <2>2, Quiet, GoesOn
  <2>3. CASE Finish(t)
    <3>1. Idle.pc \notin Making /\ Idle.pc # "resumed" /\ Idle.pc # "reconnect" /\ Joins(t, Idle)
      BY DEF Idle, Making, Joins, ThreadsOnly, ConnectPCs
    <3>2. Place(Idle)
      BY DEF Idle, Place, Making
    <3> QED
      BY <1>1, <1>2, <1>3, <2>1, <2>3, <3>1, <3>2, Quiet, QuietStep
  <2>4. Goto(t, "unmount_all") \/ Goto(t, "ending") \/ Finish(t)
    <3>1. CASE t = Loop
      BY <2>1, <3>1, ServersConstants DEF AfterUnmount
    <3>2. CASE t = Ender
      BY <2>1, <3>2, ServersConstants DEF AfterUnmount
    <3>3. CASE t \in Threads
      BY <2>1, <3>3, ServersConstants DEF AfterUnmount
    <3> QED
      BY <3>1, <3>2, <3>3 DEF Actors
  <2> QED
    BY <2>2, <2>3, <2>4
<1>4. CASE ~Mounted(th[t].s)
  <2>1. Remove(t, th[t].s) /\ IF t = Ender THEN Goto(t, "ending") ELSE Finish(t)
    BY <1>4 DEF Logout
  <2>2. CASE Goto(t, "ending")
    <3>1. "ending" \in OtherPCs
      BY DEF OtherPCs
    <3>2. PICK x : th' = [th EXCEPT ![t] = x] /\ FrameOK(x) /\ x.pc = "ending"
      BY <1>1, <2>2, <3>1, Goes
    <3> QED
      BY <1>1, <1>4, <2>1, <3>2, RemoveStep
  <2>3. CASE Finish(t)
    BY <1>1, <1>2, <1>4, <2>1, <2>3, RemoveStep
  <2> QED
    BY <2>1, <2>2, <2>3
<1> QED
  BY <1>3, <1>4

LEMMA ZzzzzStep ==
  ASSUME Inv, NEW t \in Actors, Zzzzz(t), UNCHANGED ending
  PROVE  Inv'
<1>1. th[t].pc = "zzzzz" /\ th[t].pc \in CallPCs /\ UNCHANGED <<base, next, races, ops, ending>>
      /\ Finish(t)
  BY DEF Zzzzz, At, Same, CallPCs
<1>2. th[t].s \in Blocks /\ srv \in [Blocks -> Server] /\ InVain(t) \in BOOLEAN
  BY <1>1, WorksOn, InvParts DEF RestOK, InVain
<1>3. srv' \in [Blocks -> Server] /\ \A b \in Blocks : SameServer(b)
  <2>1. CASE Disconnect(th[t].s)
    BY <1>2, <2>1, EditedConn DEF Disconnect
  <2>2. CASE srv' = [srv EXCEPT ![th[t].s].broken = InVain(t)]
    BY <1>2, <2>2, EditedBroken
  <2> QED
    BY <2>1, <2>2 DEF Zzzzz
<1>4. RestOK' /\ races \subseteq races'
  BY <1>1, <1>3, InvParts DEF RestOK
<1> QED
  BY <1>1, <1>3, <1>4, FinishStep

LEMMA WorkStep ==
  ASSUME Inv, NEW t \in Actors, Work(t), UNCHANGED ending
  PROVE  Inv'
<1>1. CASE Reconnects(t) \/ Resumed(t)
  BY <1>1, ReconnectsStep, ResumedStep
<1>2. CASE FindServer(t) \/ FindSignature(t)
  BY <1>2, FindServerStep, FindSignatureStep
<1>3. CASE Probe(t) \/ ConnectAgain(t) \/ Reconnect(t)
  BY <1>3, EstablishStep DEF Probe, ConnectAgain, Reconnect
<1>4. CASE GetStatus(t) \/ DropProbe(t) \/ Login(t) \/ Publish(t)
  BY <1>4, GetStatusStep, DropProbeStep, LoginStep, PublishStep
<1>5. CASE LoginError(t)
  BY <1>5, LeaveStep DEF LoginError, At
<1>6. CASE AttachError(t)
  BY <1>6, LeaveStep DEF AttachError, At
<1>7. CASE VolOpen(t) \/ BeginUnmount(t) \/ VolClose(t) \/ Logout(t) \/ Zzzzz(t)
  BY <1>7, VolOpenStep, BeginUnmountStep, VolCloseStep, LogoutStep, ZzzzzStep
<1> QED
  BY <1>1, <1>2, <1>3, <1>4, <1>5, <1>6, <1>7 DEF Work

-----------------------------------------------------------------------------
(* The main loop and the end of the daemon *)

LEMMA Agents == Loop \in Actors /\ Ender \in Actors
  BY DEF Actors

LEMMA LoopReceivesStep ==
  ASSUME Inv, NEW s \in Blocks, LoopReceives(s), UNCHANGED ending
  PROVE  Inv'
<1>1. th[Loop].pc = "idle" /\ Use(Loop, "recv", s) /\ UNCHANGED <<base, next, srv, ops, races>>
  BY DEF LoopReceives, At
<1>2. "recv" \in PCs /\ "recv" \notin FreePCs
  BY PCsAre DEF OtherPCs
<1>3. PICK x : th' = [th EXCEPT ![Loop] = x] /\ FrameOK(x) /\ x.pc = "recv"
  BY <1>1, <1>2, Agents, UseMoves, InvParts
<1> QED
  BY <1>1, <1>3, Agents, Quiet, GoesOff

LEMMA LoopReturnsStep ==
  ASSUME Inv, LoopReturns, UNCHANGED ending
  PROVE  Inv'
<1>1. th[Loop].pc = "recv" /\ th[Loop].pc \in OtherPCs /\ UNCHANGED <<base, next, races, ops, ending>>
  BY DEF LoopReturns, At, Same, OtherPCs
<1>2. CASE Finish(Loop) /\ UNCHANGED srv
  BY <1>1, <1>2, Agents, Quiet, FinishStep
<1>3. CASE Finish(Loop) /\ Disconnect(th[Loop].s)
  <2>1. th[Loop].s \in Blocks /\ srv \in [Blocks -> Server]
    BY <1>1, Agents, WorksOn, InvParts DEF RestOK
  <2>2. srv' \in [Blocks -> Server] /\ \A b \in Blocks : SameServer(b)
    BY <1>3, <2>1, EditedConn DEF Disconnect
  <2>3. RestOK' /\ races \subseteq races'
    BY <1>1, <2>2, InvParts DEF RestOK
  <2> QED
    BY <1>1, <1>3, <2>2, <2>3, Agents, FinishStep
<1>4. CASE Goto(Loop, "unmount_all") /\ UNCHANGED srv
  BY <1>1, <1>4, Agents, Quiet, GoesOn
<1> QED
  BY <1>2, <1>3, <1>4 DEF LoopReturns

\* The loop or the ending takes the next mounted volume of the server it is at.
LEMMA TakesVolume ==
  ASSUME Inv, NEW t \in {Loop, Ender}, th[t].pc \in {"unmount_all", "ending"}, NEW w \in Vols,
         srv[th[t].s].loaded, srv[th[t].s].vols[w] = "mounted",
         th' = [th EXCEPT ![t].pc = "unmount", ![t].v = w],
         UNCHANGED <<base, next>>, \A b \in Blocks : SameServer(b), RestOK', races \subseteq races'
  PROVE  Inv'
<1>1. t \in Actors /\ th[t].pc \in OtherPCs
  BY Agents DEF OtherPCs
<1>2. th[t].s \in Blocks /\ th[t].s # Null
  BY <1>1, WorksOn
<1>3. th[t] \in Frame /\ FrameOK(th[t]) /\ th \in [Actors -> Frame]
  BY <1>1, InvParts DEF FramesOK
<1>4. PICK x : x = [th[t] EXCEPT !.pc = "unmount", !.v = w]
  OBVIOUS
<1>5. "unmount" \in PCs /\ "unmount" \notin FreePCs
  BY PCsAre DEF OtherPCs
<1>6. x \in Frame /\ x.pc = "unmount" /\ x.s = th[t].s /\ x.v = w /\ x.back = th[t].back
  BY <1>3, <1>4, <1>5 DEF Frame
<1>7. FrameOK(x) /\ th' = [th EXCEPT ![t] = x]
  BY <1>2, <1>3, <1>4, <1>5, <1>6 DEF FrameOK
<1>8. Joins(t, x) /\ x.pc \notin Making /\ x.pc # "resumed" /\ x.pc # "reconnect"
  BY <1>6 DEF Joins, ThreadsOnly, ConnectPCs, Making
<1>9. races = {} => Place(x)
  <2> SUFFICES ASSUME races = {} PROVE Place(x)
    OBVIOUS
  <2>1. x.s \in Listed /\ srv[x.s].loaded
    BY <1>2, <1>6 DEF Inv, SessionInv, SessionParts, MountedListed, Mounted
  <2> QED
    BY <1>6, <1>8, <2>1 DEF Place
<1> QED
  BY <1>1, <1>7, <1>8, <1>9, QuietStep

LEMMA UnmountAllStep ==
  ASSUME Inv, UnmountAll, UNCHANGED ending
  PROVE  Inv'
<1>1. th[Loop].pc = "unmount_all" /\ th[Loop].pc \in OtherPCs
      /\ UNCHANGED <<base, next, races, ops, ending>>
  BY DEF UnmountAll, At, Same, OtherPCs
<1>2. CASE \E w \in Vols : /\ srv[th[Loop].s].loaded /\ srv[th[Loop].s].vols[w] = "mounted"
                           /\ th' = [th EXCEPT ![Loop].pc = "unmount", ![Loop].v = w]
                           /\ UNCHANGED srv
  BY <1>1, <1>2, Quiet, TakesVolume
<1>3. CASE Finish(Loop) /\ Disconnect(th[Loop].s)
  <2>1. th[Loop].s \in Blocks /\ srv \in [Blocks -> Server]
    BY <1>1, Agents, WorksOn, InvParts DEF RestOK
  <2>2. srv' \in [Blocks -> Server] /\ \A b \in Blocks : SameServer(b)
    BY <1>3, <2>1, EditedConn DEF Disconnect
  <2>3. RestOK' /\ races \subseteq races'
    BY <1>1, <2>2, InvParts DEF RestOK
  <2> QED
    BY <1>1, <1>3, <2>2, <2>3, Agents, FinishStep
<1> QED
  BY <1>2, <1>3 DEF UnmountAll

LEMMA StartEndingStep ==
  ASSUME Inv, StartEnding
  PROVE  Inv'
<1>1. th[Ender].pc = "idle" /\ ending' = TRUE /\ Use(Ender, "ending", base)
      /\ UNCHANGED <<base, next, races, srv, ops>> /\ Listed # {}
  BY DEF StartEnding, At, Same
<1>2. base \in Blocks
  BY <1>1, NullBase, InvParts DEF RestOK
<1>3. "ending" \in PCs /\ "ending" \notin FreePCs
  BY PCsAre DEF OtherPCs
<1>4. PICK x : th' = [th EXCEPT ![Ender] = x] /\ FrameOK(x) /\ x.pc = "ending"
  BY <1>1, <1>2, <1>3, Agents, UseMoves, InvParts
<1>5. RestOK' /\ races \subseteq races' /\ \A b \in Blocks : SameServer(b)
  BY <1>1, SameServers, InvParts DEF RestOK
<1> QED
  BY <1>1, <1>4, <1>5, Agents, GoesOff

LEMMA ForcedEndingStep ==
  ASSUME Inv, ForcedEnding
  PROVE  Inv'
<1>1. th[Ender].pc = "ending" /\ th[Ender].pc \in OtherPCs
      /\ UNCHANGED <<base, next, srv, ops, ending>>
      /\ races' = races \cup {x \in {"freed_in_use"} : ~srv[th[Ender].s].alloc}
  BY DEF ForcedEnding, At, OtherPCs
<1>2. RestOK' /\ races \subseteq races' /\ \A b \in Blocks : SameServer(b)
  BY <1>1, SameServers, InvParts DEF RestOK, RaceKinds
<1>3. CASE \E w \in Vols : /\ srv[th[Ender].s].loaded /\ srv[th[Ender].s].vols[w] = "mounted"
                           /\ th' = [th EXCEPT ![Ender].pc = "unmount", ![Ender].v = w]
  BY <1>1, <1>2, <1>3, TakesVolume
<1>4. CASE /\ next[th[Ender].s] # Null
           /\ th' = [th EXCEPT ![Ender].s = next[th[Ender].s], ![Ender].v = Null]
  <2>1. th[Ender].s \in Blocks /\ th[Ender].pc \notin FreePCs
    BY <1>1, Agents, WorksOn
  <2>2. next[th[Ender].s] \in Blocks
    BY <1>4, <2>1, InvParts DEF RestOK
  <2>3. th[Ender] \in Frame /\ FrameOK(th[Ender]) /\ th \in [Actors -> Frame]
    BY Agents, InvParts DEF FramesOK
  <2>4. PICK x : x = [th[Ender] EXCEPT !.s = next[th[Ender].s], !.v = Null]
    OBVIOUS
  <2>5. x \in Frame /\ x.pc = "ending" /\ x.s = next[th[Ender].s] /\ x.back = th[Ender].back
    BY <1>1, <2>2, <2>3, <2>4 DEF Frame
  <2>6. th' = [th EXCEPT ![Ender] = x]
    BY <1>4, <2>3, <2>4
  <2>7. FrameOK(x)
    BY <1>1, <1>4, <2>1, <2>3, <2>5 DEF FrameOK
  <2> QED
    BY <1>1, <1>2, <2>5, <2>6, <2>7, Agents, GoesOff
<1>5. CASE Finish(Ender)
  BY <1>1, <1>2, <1>5, Agents, FinishStep
<1> QED
  BY <1>3, <1>4, <1>5 DEF ForcedEnding

-----------------------------------------------------------------------------
(* The theorems *)

LEMMA InitInv == Init => Inv
<1> SUFFICES ASSUME Init PROVE Inv
  OBVIOUS
<1>1. FramesOK /\ \A t \in Actors : th[t] = Idle
  <2>1. Idle \in Frame
    <3>1. "idle" \in PCs
      BY DEF PCs, FreePCs
    <3> QED
      BY <3>1 DEF Idle, Frame, Signatures
  <2> QED
    BY <2>1 DEF Init, FramesOK, FrameOK, Idle, FreePCs
<1>2. RestOK /\ \A b \in Blocks : ~srv[b].loaded
  <2> DEFINE y == [Fresh(Null) EXCEPT !.alloc = FALSE]
  <2>1. y \in Server /\ ~y.loaded
    BY FreshServer DEF Server, Fresh
  <2> HIDE DEF y
  <2>2. srv = [b \in Blocks |-> y]
    BY DEF Init, y
  <2>3. base = Null /\ next = [b \in Blocks |-> Null] /\ ops = 0 /\ ending = FALSE /\ races = {}
    BY DEF Init
  <2>4. srv \in [Blocks -> Server] /\ \A b \in Blocks : ~srv[b].loaded
    BY <2>1, <2>2
  <2>5. ops \in 0..MaxOps
    BY <2>3, ServersConstants
  <2>6. next \in [Blocks -> Blocks \cup {Null}]
    BY <2>3
  <2> QED
    BY <2>3, <2>4, <2>5, <2>6 DEF RestOK
<1>3. Whole
  <2> DEFINE f == [i \in 1..0 |-> Null]
  <2>1. IsChain(f, 0, base, next)
    BY DEF Init, IsChain
  <2> QED
    BY <2>1 DEF Whole
<1>4. Listed = {}
  BY <1>3, WholeEnds DEF Init
<1>5. ListInv
  BY <1>1, <1>3, <1>4 DEF ListInv, ListedAlloc, ListPlaces, MadeByOne, Idle, Making
<1>6. SessionInv
  <2>1. Roles /\ Places /\ OneConnects
    BY <1>1 DEF Roles, Places, OneConnects, Place, Idle, ThreadsOnly, ConnectPCs, Making
  <2>2. MountedListed /\ EmptiedLeaves /\ Published /\ OneSession
    BY <1>2, <1>4 DEF MountedListed, Mounted, EmptiedLeaves, Published, OneSession
  <2> QED
    BY <2>1, <2>2 DEF SessionInv, SessionParts
<1> QED
  BY <1>1, <1>2, <1>5, <1>6, TypeParts DEF Inv

LEMMA StutterInv == Inv /\ UNCHANGED vars => Inv'
<1> SUFFICES ASSUME Inv, UNCHANGED vars PROVE Inv'
  OBVIOUS
<1>1. UNCHANGED <<base, next, srv, th, ops, ending, races>>
  BY DEF vars
<1>2. Listed' = Listed /\ (Whole <=> Whole')
  BY <1>1, Keeps
<1>3. \A b \in Blocks : Mounted(b)' <=> Mounted(b)
  BY <1>1 DEF Mounted
<1>4. TypeInv'
  BY <1>1 DEF Inv, TypeInv, TypeOK
<1>5. ListInv'
  BY <1>1, <1>2 DEF Inv, ListInv, ListedAlloc, ListPlaces, MadeByOne, Untouched
<1>6. SessionInv'
  <2>1. Places => Places'
    BY <1>1, <1>2 DEF Places, Place, Machine
  <2>2. (Roles => Roles') /\ (OneConnects => OneConnects')
    BY <1>1 DEF Roles, OneConnects
  <2>3. (MountedListed => MountedListed') /\ (EmptiedLeaves => EmptiedLeaves')
    BY <1>1, <1>2 DEF MountedListed, EmptiedLeaves, Mounted
  <2>4. (Published => Published') /\ (OneSession => OneSession')
    BY <1>1, <1>2 DEF Published, OneSession, Machine
  <2> QED
    BY <1>1, <2>1, <2>2, <2>3, <2>4 DEF Inv, SessionInv, SessionParts
<1> QED
  BY <1>4, <1>5, <1>6 DEF Inv

LEMMA NextInv == Inv /\ [Next]_vars => Inv'
<1> SUFFICES ASSUME Inv, [Next]_vars PROVE Inv'
  OBVIOUS
<1>1. CASE UNCHANGED vars
  BY <1>1, StutterInv
<1>2. ASSUME NEW t \in Threads, Begin(t), UNCHANGED ending PROVE Inv'
  BY <1>2, BeginStep
<1>3. ASSUME NEW t \in Actors, Work(t), UNCHANGED ending PROVE Inv'
  BY <1>3, WorkStep
<1>4. ASSUME NEW s \in Blocks, LoopReceives(s), UNCHANGED ending PROVE Inv'
  BY <1>4, LoopReceivesStep
<1>5. CASE (LoopReturns \/ UnmountAll) /\ UNCHANGED ending
  BY <1>5, LoopReturnsStep, UnmountAllStep
<1>6. CASE StartEnding \/ ForcedEnding
  BY <1>6, StartEndingStep, ForcedEndingStep
<1> QED
  BY <1>1, <1>2, <1>3, <1>4, <1>5, <1>6 DEF Next

\* The invariant that the theorems below are read off: types; a list that is a
\* finite chain of allocated servers; what each thread relies on where it waits.
THEOREM ServersInvariant == Spec => []Inv
  BY InitInv, NextInv, PTL DEF Spec

\* Type correctness; a thread keeps a pointer to a server only while it works
\* on that server.
THEOREM ServersTypes == Spec => []TypeOK
<1>1. Inv => TypeOK
  BY DEF Inv, TypeInv
<1> QED
  BY <1>1, ServersInvariant, PTL

\* add_server() and afp_server_remove() of lib/afp.c keep the list of any
\* number of servers a list that ends, with no freed server on it, under any
\* number of threads, until one of the two accidents it names has happened.
THEOREM ListIsSound == Spec => []ListSound
<1>1. Inv => ListSound
  <2> SUFFICES ASSUME Inv, races \cap {"readded", "freed_in_use"} = {}
               PROVE  ~Cyclic /\ \A b \in Listed : srv[b].alloc
    BY DEF ListSound
  <2>1. Untouched
    BY DEF Untouched
  <2> QED
    BY <2>1, Unspoilt DEF ListedAlloc
<1> QED
  BY <1>1, ServersInvariant, PTL

\* The search by signature of afp_server_full_connect() (lib/connect.c) keeps a
\* machine that is known by several addresses from being logged into twice.
THEOREM MachinesHaveOneSession == Spec => []OneSessionPerMachine
<1>1. Inv => OneSessionPerMachine
  BY DEF Inv, SessionInv, SessionParts, OneSession, OneSessionPerMachine
<1> QED
  BY <1>1, ServersInvariant, PTL

\* something_is_mounted() before each removal (daemon/commands.c, lib/afp.c)
\* keeps every server with a mounted volume on the list.
THEOREM MountedServersStay == Spec => []MountedServersKept
<1>1. Inv => MountedServersKept
  BY DEF Inv, SessionInv, SessionParts, MountedListed, MountedServersKept
<1> QED
  BY <1>1, ServersInvariant, PTL

\* Whoever unmounts the last volume of a server removes the server
\* (afp_unmount_volume(), lib/afp.c): none stays behind idle.
THEOREM IdleServersGo == Spec => []NoIdleSession
<1>1. Inv => NoIdleSession
  <2> SUFFICES ASSUME Inv, races = {}, \A t \in Actors : At(t, "idle"),
                      NEW b \in Listed, srv[b].used
               PROVE  Mounted(b)
    BY DEF NoIdleSession
  <2>1. EmptiedLeaves
    BY DEF Inv, SessionInv, SessionParts
  <2>2. ~\E t \in Actors : th[t].pc = "logout"
    BY DEF At
  <2> QED
    BY <2>1, <2>2 DEF EmptiedLeaves
<1> QED
  BY <1>1, ServersInvariant, PTL
=============================================================================
