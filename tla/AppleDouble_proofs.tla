------------------------- MODULE AppleDouble_proofs -------------------------
(***************************************************************************)
(* Theorems about the metadata files, for any number of files, handles and *)
(* server forks, all contents, and any number of calls and refusals.       *)
(***************************************************************************)
EXTENDS AppleDouble, FiniteSetTheorems, SequenceTheorems, WellFoundedInduction, TLAPS

-----------------------------------------------------------------------------
(* What a step says of itself *)

NotNull == Null \notin Names /\ Null \notin ForkIds /\ Null \notin Blocks /\ Null \notin Fork

LEMMA NullIsNone == NotNull
  BY AppleDoubleConstants DEF NotNull

Counted == calls' \in 0..MaxCalls /\ refusals' \in 0..MaxRefusals

\* Refusals are counted up to their bound.
LEMMA RefusedType ==
  ASSUME NEW rs, refusals \in 0..MaxRefusals, Refused(rs)
  PROVE  refusals' \in 0..MaxRefusals
<1>1. MaxRefusals \in Nat
  BY AppleDoubleConstants
<1> QED
  BY <1>1 DEF Refused

\* The step lists nothing.
Said == Counted /\ listing' = NoListing

LEMMA QuietSays ==
  ASSUME NEW rs, TypeOK, Quiet(rs)
  PROVE  Said /\ last'.call = "none" /\ last'.astray = FALSE
<1>1. Counted
  BY RefusedType DEF Quiet, TypeOK, Counted
<1>2. last'.call = "none" /\ last'.astray = FALSE
  BY DEF Quiet, NoCall
<1>3. listing' = NoListing
  BY DEF Quiet
<1> QED
  BY <1>1, <1>2, <1>3 DEF Said

LEMMA CallSays ==
  ASSUME NEW a, NEW c, NEW what, NEW n, NEW parts, NEW val, NEW rs, TypeOK,
         CallBy(a, c, what, n, parts, val, rs)
  PROVE  /\ Said /\ last'.call = c /\ last'.what = what /\ last'.name = n
         /\ last'.parts = parts /\ last'.val = val /\ last'.refused = rs /\ last'.astray = a
<1>1. MaxCalls \in Nat
  BY AppleDoubleConstants
<1>2. Counted
  BY <1>1, RefusedType DEF CallBy, TypeOK, Counted
<1>3. listing' = NoListing
  BY DEF CallBy
<1>4. last' = [call |-> c, what |-> what, name |-> n, parts |-> parts, val |-> val,
               refused |-> rs, astray |-> a]
  BY DEF CallBy
<1> QED
  BY <1>2, <1>3, <1>4 DEF Said

LEMMA SaysCall ==
  ASSUME NEW c, NEW what, NEW n, NEW parts, NEW val, NEW rs, TypeOK,
         Call(c, what, n, parts, val, rs)
  PROVE  /\ Said /\ last'.call = c /\ last'.what = what /\ last'.name = n
         /\ last'.parts = parts /\ last'.val = val /\ last'.refused = rs /\ last'.astray = FALSE
<1>1. CallBy(FALSE, c, what, n, parts, val, rs)
  BY Zenon DEF Call
<1> QED
  BY <1>1, CallSays, Zenon

LEMMA SimplySays ==
  ASSUME NEW c, NEW what, NEW n, NEW rs, TypeOK, Simply(c, what, n, rs)
  PROVE  Said /\ last'.call = c /\ last'.what = what /\ last'.name = n /\ last'.astray = FALSE
<1>1. CallBy(FALSE, c, what, n, {}, 0, rs)
  BY DEF Simply, Call
<1> QED
  BY <1>1, CallSays

-----------------------------------------------------------------------------
(* Types *)

\* What the types say of the memory and the server, apart from the counters
State == <<server, client, history>>

LEMMA SameState ==
  ASSUME TypeOK, UNCHANGED State, Counted
  PROVE  TypeOK'
  BY DEF TypeOK, State, server, client, history, Counted

\* An open handle is of a name, and one of a fork has one.
HandlesTyped ==
  /\ handle' \in [Blocks -> Handle]
  /\ \A c \in Blocks : /\ handle'[c].what = "none" <=> handle'[c].name = Null
                       /\ handle'[c].what \in ForkKinds <=> handle'[c].fork # Null

\* A handle that takes the place of another
LEMMA HandleType ==
  ASSUME TypeOK, NEW b \in Blocks, NEW h \in Handle,
         h.what = "none" <=> h.name = Null,
         h.what \in ForkKinds <=> h.fork # Null,
         handle' = [handle EXCEPT ![b] = h]
  PROVE  HandlesTyped
  BY DEF TypeOK, HandlesTyped

\* An object that is replaced by another
LEMMA ObjectType ==
  ASSUME TypeOK, NEW n \in Names, NEW m \in Meta, object' = [object EXCEPT ![n] = m]
  PROVE  object' \in [Names -> Meta]
  BY DEF TypeOK

\* h is a handle of a piece of n.
IsFresh(h, what, n, k) == h \in Handle /\ h.what = what /\ h.name = n /\ h.fork = k

LEMMA FreshIs ==
  ASSUME NEW n \in Names
  PROVE  /\ \A k \in ForkIds, what \in ForkKinds :
              IsFresh([NoHandle EXCEPT !.what = what, !.name = n, !.fork = k], what, n, k)
         /\ \A what \in {"finderinfo", "comment"} :
              IsFresh([NoHandle EXCEPT !.what = what, !.name = n], what, n, Null)
BY DEF NoHandle, Handle, Parts, Stored, IsFresh, ForkKinds

LEMMA NoHandleIs ==
  NoHandle \in Handle /\ NoHandle.what = "none" /\ NoHandle.name = Null /\ NoHandle.fork = Null
BY DEF NoHandle, Handle, Parts, Stored

\* The handle of a block is of a file, its fork's number one of the server's.
LEMMA HandleName ==
  ASSUME TypeOK, NEW b \in Blocks, handle[b].what # "none"
  PROVE  /\ handle[b].name \in Names /\ handle[b].finfo \in [Parts -> Stored]
         /\ handle[b].what \in ForkKinds => handle[b].fork \in ForkIds
  BY DEF TypeOK, Handle

\* An open fork is of a file.
LEMMA ForkName ==
  ASSUME TypeOK, NEW k \in ForkIds, forks[k] # Null
  PROVE  forks[k].name \in Names /\ forks[k].part \in ForkKinds
  BY DEF TypeOK, Fork

\* The block that gets a fork had none, and the others have what they had.
LEMMA HeldType ==
  ASSUME TypeOK, NEW b \in Blocks, NEW n \in Names, NEW k \in ForkIds, NEW what \in ForkKinds,
         handle[b] = NoHandle, handle' = Held(b, what, n, k)
  PROVE  /\ HandlesTyped /\ b \notin lost /\ lost \subseteq {c \in Blocks : handle'[c].fork # Null}
         /\ handle'[b].what = what /\ handle'[b].name = n /\ handle'[b].fork = k
         /\ \A c \in Blocks : c # b => handle'[c] = handle[c]
<1> DEFINE h == [NoHandle EXCEPT !.what = what, !.name = n, !.fork = k]
<1>1. IsFresh(h, what, n, k)
  BY FreshIs
<1> HIDE DEF h
<1>2. handle' = [handle EXCEPT ![b] = h]
  BY DEF h, Held
<1>3. h \in Handle /\ h.what = what /\ h.name = n /\ h.fork = k
  BY <1>1 DEF IsFresh
<1>4. what # "none" /\ n # Null /\ k # Null
  BY NullIsNone DEF NotNull, ForkKinds
<1>5. HandlesTyped
  BY <1>2, <1>3, <1>4, HandleType
<1>6. handle'[b] = h /\ \A c \in Blocks : c # b => handle'[c] = handle[c]
  BY <1>2 DEF TypeOK
<1>7. b \notin lost
  BY NoHandleIs DEF TypeOK
<1>8. lost \subseteq {c \in Blocks : handle'[c].fork # Null}
  BY <1>6, <1>7 DEF TypeOK
<1> QED
  BY <1>3, <1>5, <1>6, <1>7, <1>8

\* A block that had a handle has none.
LEMMA ForgottenType ==
  ASSUME TypeOK, NEW b \in Blocks, handle' = [handle EXCEPT ![b] = NoHandle]
  PROVE  HandlesTyped /\ handle'[b] = NoHandle /\ \A c \in Blocks : c # b => handle'[c] = handle[c]
<1>1. HandlesTyped
  BY NoHandleIs, HandleType, NullIsNone DEF ForkKinds
<1> QED
  BY <1>1 DEF TypeOK

LEMMA NewForkType ==
  ASSUME TypeOK, NEW k \in ForkIds, NEW n \in Names, NEW what \in ForkKinds, NewFork(k, n, what)
  PROVE  /\ forks' \in [ForkIds -> Fork \cup {Null}]
         /\ forks'[k] = [name |-> n, part |-> what] /\ forks'[k] # Null
         /\ \A x \in ForkIds : x # k => forks'[x] = forks[x]
         /\ unclosed \cup {k} \subseteq {x \in ForkIds : forks'[x] # Null}
<1>1. [name |-> n, part |-> what] \in Fork /\ Null \notin Fork
  BY NullIsNone DEF Fork, NotNull
<1>2. PICK m : m = [name |-> n, part |-> what]
  OBVIOUS
<1>3. forks' = [forks EXCEPT ![k] = m]
  BY <1>2 DEF NewFork
<1>4. m \in Fork /\ m # Null
  BY <1>1, <1>2
<1>5. forks'[k] = m /\ \A x \in ForkIds : x # k => forks'[x] = forks[x]
  BY <1>3 DEF TypeOK
<1>6. forks' \in [ForkIds -> Fork \cup {Null}]
  BY <1>3, <1>4 DEF TypeOK
<1>7. unclosed \cup {k} \subseteq {x \in ForkIds : forks'[x] # Null}
  BY <1>4, <1>5 DEF TypeOK
<1> QED
  BY <1>2, <1>4, <1>5, <1>6, <1>7

LEMMA CloseForkType ==
  ASSUME TypeOK, NEW k \in ForkIds, NEW bs, CloseFork(k, bs)
  PROVE  /\ forks' \in [ForkIds -> Fork \cup {Null}]
         /\ forks'[k] = Null /\ \A x \in ForkIds : x # k => forks'[x] = forks[x]
         /\ unclosed' \subseteq {x \in ForkIds : forks'[x] # Null}
         /\ lost' \subseteq {c \in Blocks : handle[c].fork # Null /\ c \notin bs}
<1>1. forks' = [forks EXCEPT ![k] = Null]
  BY DEF CloseFork
<1>2. forks'[k] = Null /\ \A x \in ForkIds : x # k => forks'[x] = forks[x]
  BY <1>1 DEF TypeOK
<1>3. forks' \in [ForkIds -> Fork \cup {Null}]
  BY <1>1 DEF TypeOK
<1>4. unclosed' \subseteq {x \in ForkIds : forks'[x] # Null}
  BY <1>2 DEF TypeOK, CloseFork
<1>5. lost' \subseteq {c \in Blocks : handle[c].fork # Null /\ c \notin bs}
  BY NullIsNone DEF TypeOK, CloseFork, NotNull
<1> QED
  BY <1>2, <1>3, <1>4, <1>5

\* The contents of one fork of one file become v.
SetTo(n, what, v) == object' = [object EXCEPT ![n].contents[what] = v]

LEMMA ContentsValue ==
  ASSUME TypeOK, NEW n \in Names, NEW what \in ForkKinds, NEW v, SetTo(n, what, v)
  PROVE  /\ object'[n].contents[what] = v
         /\ \A w \in ForkKinds : w # what => object'[n].contents[w] = object[n].contents[w]
         /\ object'[n].kind = object[n].kind
         /\ \A m \in Names : m # n => object'[m] = object[m]
         /\ v \in Stored => object' \in [Names -> Meta]
<1>1. object[n] \in Meta /\ object[n].contents \in [ForkKinds -> Stored]
  BY DEF TypeOK, Meta
<1>2. PICK c : c = [object[n].contents EXCEPT ![what] = v]
  OBVIOUS
<1>3. PICK m : m = [object[n] EXCEPT !.contents = c]
  OBVIOUS
<1>4. object' = [object EXCEPT ![n] = m]
  BY <1>2, <1>3 DEF SetTo
<1>5. c[what] = v /\ \A w \in ForkKinds : w # what => c[w] = object[n].contents[w]
  BY <1>1, <1>2
<1>6. v \in Stored => c \in [ForkKinds -> Stored]
  BY <1>1, <1>2
<1>7. m.contents = c /\ m.kind = object[n].kind
  BY <1>1, <1>3 DEF Meta
<1>8. v \in Stored => m \in Meta
  BY <1>1, <1>3, <1>6 DEF Meta
<1>9. object'[n] = m /\ \A x \in Names : x # n => object'[x] = object[x]
  BY <1>4 DEF TypeOK
<1>10. v \in Stored => object' \in [Names -> Meta]
  BY <1>4, <1>8, ObjectType
<1> QED
  BY <1>5, <1>7, <1>9, <1>10

LEMMA ContentsSet ==
  ASSUME TypeOK, NEW n \in Names, NEW what \in ForkKinds, NEW v,
         object' = [object EXCEPT ![n].contents[what] = v]
  PROVE  object'[n] = [object[n] EXCEPT !.contents[what] = v]
<1>1. PICK c : c = [object[n].contents EXCEPT ![what] = v]
  OBVIOUS
<1>2. PICK m : m = [object[n] EXCEPT !.contents = c]
  OBVIOUS
<1>3. object' = [object EXCEPT ![n] = m]
  BY <1>1, <1>2
<1>4. object'[n] = m
  BY <1>3 DEF TypeOK
<1> QED
  BY <1>1, <1>2, <1>4

LEMMA InitTypes == Init => TypeOK
<1> SUFFICES ASSUME Init PROVE TypeOK
  OBVIOUS
<1>1. MaxCalls \in Nat /\ MaxRefusals \in Nat /\ FirstData \subseteq Vals \cup {0}
  BY AppleDoubleConstants
<1>2. object \in [Names -> Meta]
  <2>1. \A d \in FirstData, r \in {0} \cup Vals :
          [w \in ForkKinds |-> IF w = "data" THEN d ELSE r] \in [ForkKinds -> Stored]
    BY <1>1 DEF Stored
  <2>2. NoMeta.contents \in [ForkKinds -> Stored] /\ NoMeta.finfo \in [Parts -> Stored]
    BY DEF NoMeta, Stored
  <2>3. NoMeta \in Meta /\ [NoMeta EXCEPT !.kind = "dir"] \in Meta
    BY DEF NoMeta, Meta, Stored
  <2>4. [kind : {"file"},
         contents : {[w \in ForkKinds |-> IF w = "data" THEN d ELSE r] :
                       d \in FirstData, r \in {0} \cup Vals},
         finfo : {NoMeta.finfo}, comment : {0}] \subseteq Meta
    <3> DEFINE C == {[w \in ForkKinds |-> IF w = "data" THEN d ELSE r] :
                       d \in FirstData, r \in {0} \cup Vals}
    <3>1. C \subseteq [ForkKinds -> Stored]
      BY <2>1
    <3> HIDE DEF C
    <3>2. [kind : {"file"}, contents : C, finfo : {NoMeta.finfo}, comment : {0}] \subseteq Meta
      BY <2>2, <3>1 DEF Meta, Stored
    <3> QED
      BY <3>2 DEF C
  <2> QED
    BY <2>3, <2>4 DEF Init
<1>3. handle \in [Blocks -> Handle]
  BY NoHandleIs DEF Init
<1>4. \A b \in Blocks : handle[b] = NoHandle
  BY DEF Init
<1>5. NoHandle.what = "none" /\ NoHandle.name = Null /\ NoHandle.fork = Null
  BY NoHandleIs
<1>6. /\ forks = [k \in ForkIds |-> Null] /\ stray = FALSE /\ dt = FALSE
      /\ calls = 0 /\ refusals = 0 /\ lost = {} /\ unclosed = {}
  BY Zenon DEF Init
<1>7. forks \in [ForkIds -> Fork \cup {Null}]
  BY <1>6
<1>8. calls \in 0..MaxCalls /\ refusals \in 0..MaxRefusals
  BY <1>1, <1>6
<1>9. stray \in BOOLEAN /\ dt \in BOOLEAN
  BY <1>6
<1>10. \A b \in Blocks : /\ handle[b].what = "none" <=> handle[b].name = Null
                         /\ handle[b].what \in ForkKinds <=> handle[b].fork # Null
  BY <1>4, <1>5 DEF ForkKinds
<1> QED
  BY <1>2, <1>3, <1>6, <1>7, <1>8, <1>9, <1>10 DEF TypeOK

-----------------------------------------------------------------------------
(* Opening a fork: what ll_open() may do *)

\* The object is as before, or emptied in the fork that is opened, or made.
OpenedObject(what, n) ==
  \/ object' = object
  \/ object' = [object EXCEPT ![n].contents[what] = 0] /\ last'.call = "open"
  \/ object' = [object EXCEPT ![n].kind = "file"] /\ last'.call = "create"

LEMMA OpenDoes ==
  ASSUME TypeOK, NEW b \in Blocks, NEW what \in ForkKinds, NEW n \in Names, NEW flag \in Flags,
         ll_open(b, what, n, flag)
  PROVE  /\ Said /\ last'.call # "write" /\ last'.astray = FALSE
         /\ OpenedObject(what, n)
         /\ object' # object => last'.what = what /\ last'.name = n
         /\ \/ \E k \in ForkIds : /\ NewFork(k, n, what) /\ handle' = Held(b, what, n, k)
                                  /\ UNCHANGED history
            \/ \E k \in ForkIds : /\ NewFork(k, n, what) /\ unclosed' = unclosed \cup {k}
                                  /\ UNCHANGED <<handle, lost>>
            \/ UNCHANGED <<forks, handle, history>>
<1>1. CASE \E k \in ForkIds :
             /\ NewFork(k, n, what) /\ handle' = Held(b, what, n, k)
             /\ Quiet({}) /\ UNCHANGED <<object, history>>
  <2>1. Quiet({}) /\ object' = object
    BY <1>1
  <2>2. \E k \in ForkIds : NewFork(k, n, what) /\ handle' = Held(b, what, n, k) /\ UNCHANGED history
    BY <1>1
  <2>3. Said /\ last'.call = "none" /\ last'.astray = FALSE
    BY <2>1, QuietSays
  <2> QED
    BY <2>1, <2>2, <2>3 DEF OpenedObject
<1>2. CASE \E k \in ForkIds :
             /\ NewFork(k, n, what) /\ handle' = Held(b, what, n, k)
             /\ ll_zero_file(n, what) /\ Simply("open", what, n, {}) /\ UNCHANGED history
  <2>1. /\ Simply("open", what, n, {})
        /\ object' = [object EXCEPT ![n].contents[what] = 0]
    BY <1>2 DEF ll_zero_file
  <2>2. \E k \in ForkIds : NewFork(k, n, what) /\ handle' = Held(b, what, n, k) /\ UNCHANGED history
    BY <1>2
  <2>3. Said /\ last'.call = "open" /\ last'.astray = FALSE /\ last'.what = what /\ last'.name = n
    BY <2>1, SimplySays
  <2> QED
    BY <2>1, <2>2, <2>3 DEF OpenedObject
<1>3. CASE \E k \in ForkIds :
             /\ NewFork(k, n, what) /\ Quiet({"misc"}) /\ unclosed' = unclosed \cup {k}
             /\ UNCHANGED <<object, handle, lost>>
  <2>1. Quiet({"misc"}) /\ object' = object
    BY <1>3
  <2>2. \E k \in ForkIds : /\ NewFork(k, n, what) /\ unclosed' = unclosed \cup {k}
                            /\ UNCHANGED <<handle, lost>>
    BY <1>3
  <2>3. Said /\ last'.call = "none" /\ last'.astray = FALSE
    BY <2>1, QuietSays
  <2> QED
    BY <2>1, <2>2, <2>3 DEF OpenedObject
<1>4. CASE /\ Quiet(IF CanOpen(n) THEN {"denied"} ELSE {})
           /\ UNCHANGED <<object, forks, handle, history>>
  <2>1. Said /\ last'.call = "none" /\ last'.astray = FALSE
    BY <1>4, QuietSays
  <2> QED
    BY <1>4, <2>1 DEF OpenedObject
<1>5. CASE /\ object' = [object EXCEPT ![n].kind = "file"]
           /\ \E k \in ForkIds : NewFork(k, n, what) /\ handle' = Held(b, what, n, k)
           /\ Simply("create", what, n, {}) /\ UNCHANGED history
  <2>1. Said /\ last'.call = "create" /\ last'.astray = FALSE /\ last'.what = what /\ last'.name = n
    BY <1>5, SimplySays
  <2> QED
    BY <1>5, <2>1 DEF OpenedObject
<1>6. CASE /\ object' = [object EXCEPT ![n].kind = "file"]
           /\ UNCHANGED <<forks, handle, history>>
           /\ Simply("create", what, n, IF \E k \in ForkIds : forks[k] = Null THEN {"denied"} ELSE {})
  <2>1. Said /\ last'.call = "create" /\ last'.astray = FALSE /\ last'.what = what /\ last'.name = n
    BY <1>6, SimplySays
  <2> QED
    BY <1>6, <2>1 DEF OpenedObject
<1> QED
  BY <1>1, <1>2, <1>3, <1>4, <1>5, <1>6, Zenon DEF ll_open

-----------------------------------------------------------------------------
(* Types: the calls *)

LEMMA OpenForkTypes ==
  ASSUME TypeOK, NEW b \in Blocks, NEW what \in ForkKinds, NEW n \in Names, NEW flag \in Flags,
         handle[b] = NoHandle, ll_open(b, what, n, flag), UNCHANGED <<stray, dt>>
  PROVE  TypeOK'
<1>1. Counted
  BY OpenDoes DEF Said
<1>2. object' \in [Names -> Meta]
  <2>1. CASE object' = object
    BY <2>1 DEF TypeOK
  <2>2. CASE object' = [object EXCEPT ![n].contents[what] = 0]
    <3>1. 0 \in Stored
      BY DEF Stored
    <3> QED
      BY <2>2, <3>1, ContentsValue DEF SetTo
  <2>3. CASE object' = [object EXCEPT ![n].kind = "file"]
    BY <2>3 DEF TypeOK, Meta
  <2> QED
    BY <2>1, <2>2, <2>3, OpenDoes DEF OpenedObject
<1>3. ASSUME NEW k \in ForkIds, NewFork(k, n, what), handle' = Held(b, what, n, k),
             UNCHANGED history
      PROVE  TypeOK'
  <2>1. HandlesTyped /\ lost \subseteq {c \in Blocks : handle'[c].fork # Null}
    BY <1>3, HeldType
  <2>2. forks' \in [ForkIds -> Fork \cup {Null}] /\ unclosed \subseteq {x \in ForkIds : forks'[x] # Null}
    BY <1>3, NewForkType
  <2> QED
    BY <1>1, <1>2, <1>3, <2>1, <2>2 DEF TypeOK, HandlesTyped, Counted, history
<1>4. ASSUME NEW k \in ForkIds, NewFork(k, n, what), unclosed' = unclosed \cup {k},
             UNCHANGED <<handle, lost>>
      PROVE  TypeOK'
  <2>1. forks' \in [ForkIds -> Fork \cup {Null}] /\ unclosed' \subseteq {x \in ForkIds : forks'[x] # Null}
    BY <1>4, NewForkType
  <2> QED
    BY <1>1, <1>2, <1>4, <2>1 DEF TypeOK, Counted
<1>5. CASE UNCHANGED <<forks, handle, history>>
  BY <1>1, <1>2, <1>5 DEF TypeOK, Counted, history
<1> QED
  BY <1>3, <1>4, <1>5, OpenDoes

LEMMA OpenTypes ==
  ASSUME TypeOK, NEW b \in Blocks, NEW p \in Paths, NEW flag \in Flags, appledouble_open(b, p, flag),
         p.name \in Names
  PROVE  TypeOK'
<1>2. CASE OpenResource(b, p.name, flag)
  BY <1>2, OpenForkTypes DEF OpenResource, ForkKinds
<1>3. ASSUME NEW what \in {"finderinfo", "comment"}, handle[b] = NoHandle,
             handle' = Fresh(b, what, p.name),
             UNCHANGED <<server, history>>, dt' \in BOOLEAN, Counted
      PROVE  TypeOK'
  <2> DEFINE h == [NoHandle EXCEPT !.what = what, !.name = p.name]
  <2>1. IsFresh(h, what, p.name, Null)
    BY FreshIs
  <2>2. h \in Handle /\ h.what \notin {"none"} \cup ForkKinds /\ h.name # Null /\ h.fork = Null
    BY <2>1, NullIsNone DEF NotNull, IsFresh, ForkKinds
  <2> HIDE DEF h
  <2>3. handle' = [handle EXCEPT ![b] = h]
    BY <1>3 DEF h, Fresh
  <2>4. HandlesTyped
    BY <2>2, <2>3, HandleType
  <2>5. lost' \subseteq {c \in Blocks : handle'[c].fork # Null}
    BY <1>3, <2>3, NoHandleIs DEF TypeOK, history
  <2> QED
    BY <1>3, <2>4, <2>5 DEF TypeOK, server, history, Counted, HandlesTyped
<1>4. CASE OpenFinderInfo(b, p.name)
  <2>1. Counted
    BY <1>4, QuietSays DEF Said, OpenFinderInfo
  <2> QED
    BY <1>3, <1>4, <2>1 DEF OpenFinderInfo, TypeOK
<1>5. CASE OpenComment(b, p.name)
  <2>1. Counted
    BY <1>5, QuietSays DEF Said, OpenComment
  <2>2. CASE handle' = Fresh(b, "comment", p.name)
    <3>1. dt' \in BOOLEAN
      BY <1>5 DEF OpenComment, afp_opendt, TypeOK
    <3> QED
      BY <1>3, <1>5, <2>1, <2>2, <3>1 DEF OpenComment
  <2>3. CASE UNCHANGED <<handle, dt>>
    BY <1>5, <2>1, <2>3, SameState DEF OpenComment, State, client
  <2> QED
    BY <1>5, <2>2, <2>3 DEF OpenComment
<1> QED
  BY <1>2, <1>4, <1>5 DEF appledouble_open

\* A path of metadata is of a name.
LEMMA MetadataPath ==
  ASSUME NEW p \in Paths, extra_translate(p) \in {"resource", "finderinfo", "comment"}
  PROVE  p.name \in Names
<1>1. ServerIcon.in = "/" /\ DoubleDir.in = "/"
  BY DEF ServerIcon, DoubleDir
<1>2. p.in = ".AppleDouble"
  BY DEF extra_translate
<1>3. p # ServerIcon /\ p # DoubleDir
  BY <1>1, <1>2
<1>4. PICK n \in Names, s \in MetaSuffixes : p = Path(n, s)
  BY <1>3 DEF Paths
<1> QED
  BY <1>4 DEF Path

LEMMA OpenedNames ==
  ASSUME NEW b \in Blocks, NEW p \in Paths, NEW flag \in Flags, appledouble_open(b, p, flag)
  PROVE  p.name \in Names
<1>1. extra_translate(p) \in {"resource", "finderinfo", "comment"}
  <2>1. \/ extra_translate(p) = "resource" \/ extra_translate(p) = "finderinfo"
        \/ extra_translate(p) = "comment"
    BY Zenon DEF appledouble_open
  <2> QED
    BY <2>1
<1> QED
  BY <1>1, MetadataPath

LEMMA CloseHandleTypes ==
  ASSUME TypeOK, NEW b \in Blocks, handle[b].what \in ForkKinds, CloseHandle(b),
         UNCHANGED <<object, stray, dt>>
  PROVE  TypeOK'
<1> DEFINE k == handle[b].fork
<1>1. Counted
  BY QuietSays DEF Said, CloseHandle
<1>2. k \in ForkIds
  BY HandleName DEF ForkKinds
<1>3. HandlesTyped /\ handle'[b] = NoHandle /\ \A c \in Blocks : c # b => handle'[c] = handle[c]
  BY ForgottenType DEF CloseHandle
<1>4. CASE CloseFork(k, {b})
  <2>1. /\ forks' \in [ForkIds -> Fork \cup {Null}]
        /\ unclosed' \subseteq {x \in ForkIds : forks'[x] # Null}
        /\ lost' \subseteq {c \in Blocks : handle[c].fork # Null /\ c \notin {b}}
    BY <1>2, <1>4, CloseForkType
  <2>2. lost' \subseteq {c \in Blocks : handle'[c].fork # Null}
    BY <1>3, <2>1
  <2> QED
    BY <1>1, <1>3, <2>1, <2>2 DEF TypeOK, Counted, HandlesTyped
<1>5. CASE /\ lost' = lost \ {b} /\ UNCHANGED forks
           /\ unclosed' = unclosed \cup {j \in {k} : forks[j] # Null /\ b \notin lost}
  <2>1. lost' \subseteq {c \in Blocks : handle'[c].fork # Null}
    BY <1>3, <1>5 DEF TypeOK
  <2>2. unclosed' \subseteq {x \in ForkIds : forks'[x] # Null}
    BY <1>2, <1>5 DEF TypeOK
  <2> HIDE DEF k
  <2> QED
    BY <1>1, <1>3, <1>5, <2>1, <2>2 DEF TypeOK, Counted, HandlesTyped
<1> QED
  BY <1>4, <1>5, Zenon DEF CloseHandle

LEMMA CloseTypes ==
  ASSUME TypeOK, NEW b \in Blocks, appledouble_close(b) \/ afp_ml_close(b)
  PROVE  TypeOK'
<1>1. CASE handle[b].what \in ForkKinds /\ CloseHandle(b) /\ UNCHANGED <<object, stray, dt>>
  BY <1>1, CloseHandleTypes
<1>2. CASE /\ handle[b].what \in {"finderinfo", "comment"}
           /\ handle' = [handle EXCEPT ![b] = NoHandle]
           /\ Quiet({}) /\ UNCHANGED <<forks, history, object, stray, dt>>
  <2>1. Counted
    BY <1>2, QuietSays DEF Said
  <2>2. HandlesTyped /\ \A c \in Blocks : c # b => handle'[c] = handle[c]
    BY <1>2, ForgottenType
  <2>3. b \notin lost
    BY <1>2 DEF TypeOK, ForkKinds
  <2>4. lost' \subseteq {c \in Blocks : handle'[c].fork # Null}
    BY <1>2, <2>2, <2>3 DEF TypeOK, history
  <2> QED
    BY <1>2, <2>1, <2>2, <2>4 DEF TypeOK, Counted, HandlesTyped, history
<1> QED
  BY <1>1, <1>2 DEF appledouble_close, afp_ml_close, ForkKinds

\* The Finder info of a handle changes.
LEMMA FinderInfoType ==
  ASSUME TypeOK, NEW b \in Blocks, NEW new \in [Parts -> Stored],
         handle' = [handle EXCEPT ![b].finfo = new]
  PROVE  HandlesTyped /\ \A c \in Blocks : handle'[c].fork = handle[c].fork
<1> DEFINE h == [handle[b] EXCEPT !.finfo = new]
<1>1. handle[b] \in Handle
  BY DEF TypeOK
<1>2. h \in Handle /\ h.what = handle[b].what /\ h.name = handle[b].name /\ h.fork = handle[b].fork
  BY <1>1 DEF Handle
<1>3. handle' = [handle EXCEPT ![b] = h]
  BY DEF TypeOK
<1> HIDE DEF h
<1>4. (h.what = "none" <=> h.name = Null) /\ (h.what \in ForkKinds <=> h.fork # Null)
  BY <1>2 DEF TypeOK
<1>5. HandlesTyped
  BY <1>2, <1>3, <1>4, HandleType
<1>6. handle'[b] = h /\ \A c \in Blocks : c # b => handle'[c] = handle[c]
  BY <1>3 DEF TypeOK
<1> QED
  BY <1>2, <1>5, <1>6

\* What a write through the number k changes: the fork that has it, if any.
LEMMA WrittenFork ==
  ASSUME TypeOK, NEW k \in ForkIds, NEW v, ll_write(k, v)
  PROVE  \/ object' = object /\ forks[k] = Null
         \/ /\ forks[k] # Null /\ forks[k].name \in Names /\ forks[k].part \in ForkKinds
            /\ object' = [object EXCEPT ![forks[k].name].contents[forks[k].part] = v]
  BY ForkName DEF ll_write

\* The objects after a write through a fork
WroteFork(b, what, v, rs) ==
  /\ handle[b].what = what /\ UNCHANGED handle
  /\ ll_write(handle[b].fork, v) \/ (UNCHANGED object /\ (Cardinality(rs) = 2 \/ "misc" \in rs))
  /\ CallBy(b \in lost, "write", what, handle[b].name, Parts, v, rs)

LEMMA ForkWrites ==
  ASSUME NEW b \in Blocks, NEW v \in Vals
  PROVE  /\ WriteResource(b, v) => \E rs \in SUBSET {"first refused", "second refused"} :
                                     WroteFork(b, "resource", v, rs)
         /\ WriteData(b, v) => \E rs \in {{}, {"misc"}} : WroteFork(b, "data", v, rs)
<1>1. ASSUME WriteResource(b, v)
      PROVE  \E rs \in SUBSET {"first refused", "second refused"} : WroteFork(b, "resource", v, rs)
  <2>1. PICK rs \in SUBSET {"first refused", "second refused"} :
          /\ IF Cardinality(rs) = 2 THEN UNCHANGED object ELSE ll_write(handle[b].fork, v)
          /\ CallBy(b \in lost, "write", "resource", handle[b].name, Parts, v, rs)
    BY <1>1, Zenon DEF WriteResource
  <2>2. ll_write(handle[b].fork, v) \/ (UNCHANGED object /\ Cardinality(rs) = 2)
    BY <2>1
  <2>3. handle[b].what = "resource" /\ UNCHANGED handle
    BY <1>1, Zenon DEF WriteResource
  <2>4. WroteFork(b, "resource", v, rs)
    BY <2>1, <2>2, <2>3, Zenon DEF WroteFork
  <2> QED
    BY <2>4
<1>2. ASSUME WriteData(b, v)
      PROVE  \E rs \in {{}, {"misc"}} : WroteFork(b, "data", v, rs)
  <2>1. PICK rs \in {{}, {"misc"}} :
          /\ IF rs # {} THEN UNCHANGED object ELSE ll_write(handle[b].fork, v)
          /\ CallBy(b \in lost, "write", "data", handle[b].name, Parts, v, rs)
    BY <1>2, Zenon DEF WriteData
  <2>2. ll_write(handle[b].fork, v) \/ (UNCHANGED object /\ "misc" \in rs)
    BY <2>1
  <2>3. handle[b].what = "data" /\ UNCHANGED handle
    BY <1>2, Zenon DEF WriteData
  <2>4. WroteFork(b, "data", v, rs)
    BY <2>1, <2>2, <2>3, Zenon DEF WroteFork
  <2> QED
    BY <2>4
<1> QED
  BY <1>1, <1>2

LEMMA ForkWriteTypes ==
  ASSUME TypeOK, NEW b \in Blocks, NEW what \in ForkKinds, NEW v \in Vals, NEW rs,
         WroteFork(b, what, v, rs), UNCHANGED <<forks, stray, dt, history>>
  PROVE  TypeOK'
<1>1. Counted
  BY CallSays DEF Said, WroteFork
<1>2. handle[b].fork \in ForkIds
  BY HandleName DEF ForkKinds, WroteFork
<1>3. object' \in [Names -> Meta]
  <2>1. v \in Stored
    BY DEF Stored
  <2>2. CASE UNCHANGED object
    BY <2>2 DEF TypeOK
  <2>3. CASE ll_write(handle[b].fork, v)
    <3>1. PICK k \in ForkIds : k = handle[b].fork
      BY <1>2
    <3>2. CASE object' = object
      BY <2>2, <3>2
    <3>3. CASE /\ forks[k].name \in Names /\ forks[k].part \in ForkKinds
               /\ object' = [object EXCEPT ![forks[k].name].contents[forks[k].part] = v]
      BY <2>1, <3>3, ContentsValue DEF SetTo
    <3> QED
      BY <2>3, <3>1, <3>2, <3>3, WrittenFork
  <2> QED
    BY <2>2, <2>3 DEF WroteFork
<1> QED
  BY <1>1, <1>3 DEF TypeOK, Counted, history, WroteFork

LEMMA WriteTypes ==
  ASSUME TypeOK, NEW b \in Blocks, NEW parts, NEW v \in Vals, appledouble_write(b, parts, v)
  PROVE  TypeOK'
<1> DEFINE n == handle[b].name
           new == [i \in Parts |-> IF i \in parts THEN v ELSE handle[b].finfo[i]]
<1>1. v \in Stored
  BY DEF Stored
<1>2. UNCHANGED <<forks, stray, dt, history>>
  BY Zenon DEF appledouble_write
<1>3. ASSUME Counted, object' \in [Names -> Meta], HandlesTyped,
             \A c \in Blocks : handle'[c].fork = handle[c].fork
      PROVE  TypeOK'
  BY <1>2, <1>3 DEF TypeOK, Counted, history, HandlesTyped
<1>4. ASSUME Counted, UNCHANGED handle, object' \in [Names -> Meta]
      PROVE  TypeOK'
  BY <1>2, <1>4 DEF TypeOK, Counted, history
<1>5. CASE WriteResource(b, v)
  BY <1>2, <1>5, ForkWrites, ForkWriteTypes DEF ForkKinds
<1>6. CASE WriteComment(b, v)
  <2>1. n \in Names
    BY <1>6, HandleName DEF WriteComment
  <2>2. object' = object \/ object' = [object EXCEPT ![n].comment = v]
    BY <1>6 DEF WriteComment, afp_addcomment
  <2>3. object' \in [Names -> Meta]
    <3>1. [object[n] EXCEPT !.comment = v] \in Meta
      BY <1>1, <2>1 DEF TypeOK, Meta
    <3> HIDE DEF n
    <3> QED
      BY <2>1, <2>2, <3>1 DEF TypeOK
  <2>4. Counted
    BY <1>6, QuietSays, CallSays DEF WriteComment, Call, Said
  <2> QED
    BY <1>4, <1>6, <2>3, <2>4 DEF WriteComment
<1>7. CASE WriteFinderInfo(b, parts, v)
  <2>1. n \in Names /\ handle[b].finfo \in [Parts -> Stored]
    BY <1>7, HandleName DEF WriteFinderInfo
  <2>2. new \in [Parts -> Stored]
    BY <1>1, <2>1
  <2>3. /\ object' = object \/ object' = [object EXCEPT ![n].finfo = new]
        /\ handle' = handle \/ handle' = [handle EXCEPT ![b].finfo = new]
    BY <1>7 DEF WriteFinderInfo
  <2> HIDE DEF new
  <2>4. object' \in [Names -> Meta]
    <3> DEFINE m == [object[n] EXCEPT !.finfo = new]
    <3>1. object[n] \in Meta
      BY <2>1 DEF TypeOK
    <3>2. m \in Meta
      BY <2>2, <3>1 DEF Meta
    <3>3. object' = object \/ object' = [object EXCEPT ![n] = m]
      BY <2>3
    <3> HIDE DEF m
    <3> QED
      BY <2>1, <3>2, <3>3, ObjectType DEF TypeOK
  <2>5. Counted
    BY <1>7, QuietSays, CallSays DEF WriteFinderInfo, Call, Said
  <2>6. CASE handle' = handle
    BY <1>4, <2>4, <2>5, <2>6
  <2>7. CASE handle' = [handle EXCEPT ![b].finfo = new]
    BY <1>3, <2>2, <2>4, <2>5, <2>7, FinderInfoType
  <2> QED
    BY <2>3, <2>6, <2>7
<1>8. CASE WriteMissing(b)
  <2>1. Counted
    BY <1>8, QuietSays DEF WriteMissing, Said
  <2> QED
    BY <1>4, <1>8, <2>1 DEF WriteMissing, TypeOK
<1> QED
  BY <1>5, <1>6, <1>7, <1>8 DEF appledouble_write

LEMMA ReadTypes ==
  ASSUME TypeOK, NEW b \in Blocks, appledouble_read(b)
  PROVE  TypeOK'
<1>1. Counted
  BY QuietSays DEF Said, appledouble_read, ReadResource, ReadComment
<1>2. CASE UNCHANGED handle
  BY <1>1, <1>2, SameState DEF appledouble_read, State, client
<1>3. CASE ReadComment(b) /\ handle' # handle
  <2> DEFINE n == handle[b].name
  <2>1. n \in Names /\ handle[b] \in Handle
    BY <1>3, HandleName DEF ReadComment, TypeOK
  <2>2. PICK got : /\ handle' = [handle EXCEPT ![b] = got]
                   /\ got = handle[b] \/ got = [handle[b] EXCEPT !.finfo = object[n].finfo]
    BY <1>3 DEF ReadComment
  <2>3. object[n].finfo \in [Parts -> Stored]
    BY <2>1 DEF TypeOK, Meta
  <2>4. got = [handle[b] EXCEPT !.finfo = object[n].finfo]
    BY <1>3, <2>2 DEF TypeOK
  <2>5. handle' = [handle EXCEPT ![b].finfo = object[n].finfo]
    BY <2>2, <2>4 DEF TypeOK
  <2>6. HandlesTyped /\ \A c \in Blocks : handle'[c].fork = handle[c].fork
    BY <2>3, <2>5, FinderInfoType
  <2> QED
    BY <1>1, <2>6 DEF TypeOK, Counted, appledouble_read, server, history, HandlesTyped
<1> QED
  BY <1>2, <1>3 DEF appledouble_read, ReadResource

-----------------------------------------------------------------------------
(* Truncating a resource fork: what appledouble_truncate() may do *)

\* The data fork that has the number k is emptied.
Emptied(k) ==
  /\ forks[k] # Null /\ forks[k].part = "data"
  /\ object' = [object EXCEPT ![forks[k].name].contents["data"] = 0]

LEMMA TruncateDoes ==
  ASSUME TypeOK, NEW p \in Paths, appledouble_truncate(p)
  PROVE  /\ Said /\ last'.call # "write" /\ UNCHANGED <<stray, client>>
         /\ object' = object \/ (last'.astray = TRUE /\ \E k \in ForkIds : Emptied(k))
         /\ \/ UNCHANGED <<forks, history>>
            \/ \E k \in ForkIds : CloseFork(k, {})
            \/ \E k \in ForkIds, n \in Names : /\ NewFork(k, n, "resource")
                                               /\ unclosed' = unclosed \cup {k}
                                               /\ UNCHANGED lost
<1>1. UNCHANGED <<stray, client>>
  BY DEF appledouble_truncate
<1>2. CASE extra_translate(p) = "resource" /\ TruncateOpened(p.name)
  <2>1. Said /\ last'.call = "none"
    BY <1>2, QuietSays DEF TruncateOpened
  <2>2. p.name \in Names
    BY <1>2, MetadataPath
  <2>3. \/ UNCHANGED <<forks, history>>
        \/ \E k \in ForkIds : /\ NewFork(k, p.name, "resource")
                              /\ unclosed' = unclosed \cup {k} /\ UNCHANGED lost
    BY <1>2 DEF TruncateOpened, history
  <2> QED
    BY <1>1, <1>2, <2>1, <2>2, <2>3 DEF TruncateOpened
<1>3. ASSUME NEW k \in ForkIds, forks[k] # Null, TruncateOther(p.name, k)
      PROVE  /\ Said /\ last'.call # "write"
             /\ object' = object \/ (last'.astray = TRUE /\ Emptied(k))
             /\ UNCHANGED <<forks, history>> \/ CloseFork(k, {})
  <2> DEFINE denied == IF CanOpen(p.name) THEN {"denied"} ELSE {}
  <2>1. CASE UNCHANGED object /\ CloseFork(k, {}) /\ Quiet(denied)
    <3>1. Said /\ last'.call = "none"
      BY <2>1, QuietSays
    <3> QED
      BY <2>1, <3>1
  <2>2. ASSUME NEW rs, CallBy(TRUE, "truncate", "resource", p.name, {}, 0, rs)
        PROVE  Said /\ last'.call # "write" /\ last'.astray = TRUE
    <3>1. Said /\ last'.call = "truncate" /\ last'.astray = TRUE
      BY <2>2, CallSays
    <3> QED
      BY <3>1
  <2> HIDE DEF denied
  <2>3. CASE /\ forks[k].part = "data" /\ ll_zero_file(forks[k].name, "data")
             /\ \/ CloseFork(k, {}) /\ CallBy(TRUE, "truncate", "resource", p.name, {}, 0, denied)
                \/ /\ CallBy(TRUE, "truncate", "resource", p.name, {}, 0, denied \cup {"misc"})
                   /\ UNCHANGED <<forks, history>>
    <3>1. Emptied(k)
      BY <1>3, <2>3 DEF Emptied, ll_zero_file
    <3> QED
      BY <2>2, <2>3, <3>1
  <2> QED
    BY <1>3, <2>1, <2>3, Zenon DEF TruncateOther, denied
<1>4. CASE \E rs : Quiet(rs) /\ UNCHANGED <<object, forks, history>>
  <2>1. Said /\ last'.call = "none"
    BY <1>4, QuietSays
  <2> QED
    BY <1>1, <1>4, <2>1
<1>5. CASE \E k \in ForkIds : forks[k] # Null /\ TruncateOther(p.name, k)
  BY <1>1, <1>3, <1>5
<1> QED
  BY <1>2, <1>4, <1>5, Zenon DEF appledouble_truncate

LEMMA TruncateTypes ==
  ASSUME TypeOK, NEW p \in Paths, appledouble_truncate(p)
  PROVE  TypeOK'
<1>1. Counted /\ UNCHANGED <<stray, client>>
  BY TruncateDoes DEF Said
<1>2. object' \in [Names -> Meta]
  <2>1. ASSUME NEW k \in ForkIds, Emptied(k)
        PROVE  object' \in [Names -> Meta]
    <3>1. forks[k].name \in Names /\ "data" \in ForkKinds /\ 0 \in Stored
      BY <2>1, ForkName DEF ForkKinds, Stored, Emptied
    <3> QED
      BY <2>1, <3>1, ContentsValue DEF Emptied, SetTo
  <2> QED
    BY <2>1, TruncateDoes DEF TypeOK
<1>3. CASE UNCHANGED <<forks, history>>
  BY <1>1, <1>2, <1>3 DEF TypeOK, Counted, client, history
<1>4. ASSUME NEW k \in ForkIds, CloseFork(k, {})
      PROVE  TypeOK'
  <2>1. /\ forks' \in [ForkIds -> Fork \cup {Null}]
        /\ unclosed' \subseteq {x \in ForkIds : forks'[x] # Null}
        /\ lost' \subseteq {c \in Blocks : handle[c].fork # Null}
    BY <1>4, CloseForkType
  <2> QED
    BY <1>1, <1>2, <2>1 DEF TypeOK, Counted, client
<1>5. ASSUME NEW k \in ForkIds, NEW n \in Names, NewFork(k, n, "resource"),
             unclosed' = unclosed \cup {k}, UNCHANGED lost
      PROVE  TypeOK'
  <2>1. forks' \in [ForkIds -> Fork \cup {Null}] /\ unclosed' \subseteq {x \in ForkIds : forks'[x] # Null}
    BY <1>5, NewForkType DEF ForkKinds
  <2> QED
    BY <1>1, <1>2, <1>5, <2>1 DEF TypeOK, Counted, client
<1> QED
  BY <1>3, <1>4, <1>5, TruncateDoes

\* The calls that leave metadata, handles and forks alone
Other == \/ \E p \in Paths : \/ Icon(p) \/ appledouble_creat(p) \/ NotPermitted(p)
                             \/ SymlinkOrRename(p) \/ appledouble_getattr(p)
         \/ appledouble_readdir

\* Of one path
OtherOf(p) == Icon(p) \/ appledouble_creat(p) \/ NotPermitted(p) \/ SymlinkOrRename(p) \/ appledouble_getattr(p)

LEMMA OtherSays ==
  ASSUME TypeOK, NEW p \in Paths, OtherOf(p)
  PROVE  Said /\ last'.call # "write"
<1>1. \A rs : Quiet(rs) => Said /\ last'.call # "write"
  BY QuietSays
<1>2. \A c, what, n, rs : c # "write" /\ Simply(c, what, n, rs) => Said /\ last'.call # "write"
  BY SimplySays
<1>3. \A c : c \in {"creat", "symlink", "rename"} /\ Stray(c, p) => Said /\ last'.call # "write"
  BY <1>2 DEF Stray
<1>4. CASE Icon(p) \/ NotPermitted(p)
  BY <1>1, <1>4 DEF Icon, NotPermitted
<1>5. CASE appledouble_creat(p) \/ SymlinkOrRename(p)
  BY <1>1, <1>3, <1>5 DEF appledouble_creat, SymlinkOrRename
<1>6. CASE appledouble_getattr(p)
  BY <1>1, <1>6 DEF appledouble_getattr
<1> QED
  BY <1>4, <1>5, <1>6 DEF OtherOf

LEMMA OthersTypes ==
  ASSUME TypeOK, Other
  PROVE  UNCHANGED <<object, forks, handle, history>> /\ TypeOK'
<1>1. UNCHANGED <<object, forks, handle, history>>
  BY DEF Other, Icon, appledouble_creat, Stray, NotPermitted, SymlinkOrRename,
         appledouble_getattr, appledouble_readdir, server, client
<1>2. dt' \in BOOLEAN /\ stray' \in BOOLEAN
  BY DEF Other, Icon, appledouble_creat, Stray, NotPermitted, SymlinkOrRename, afp_opendt,
         appledouble_getattr, appledouble_readdir, server, client, TypeOK
<1>3. Counted
  <2>1. CASE appledouble_readdir
    BY <2>1, RefusedType DEF appledouble_readdir, Listed, Counted, TypeOK
  <2>2. CASE \E p \in Paths : OtherOf(p)
    BY <2>2, OtherSays DEF Said
  <2> QED
    BY <2>1, <2>2 DEF Other, OtherOf
<1> QED
  BY <1>1, <1>2, <1>3 DEF TypeOK, history, Counted

Opens == \/ \E b \in Blocks, p \in Paths, flag \in Flags : appledouble_open(b, p, flag)
         \/ \E b \in Blocks, n \in Names, flag \in Flags : afp_ml_open(b, n, flag)
Closes == \E b \in Blocks : appledouble_close(b) \/ afp_ml_close(b)
Writes == \/ \E b \in Blocks, parts \in (SUBSET Parts) \ {{}}, v \in Vals : appledouble_write(b, parts, v)
          \/ \E b \in Blocks, v \in Vals : WriteData(b, v)

LEMMA Calls ==
  Next <=> \/ Opens \/ Writes \/ Other \/ Closes
           \/ \E b \in Blocks : appledouble_read(b)
           \/ \E p \in Paths : appledouble_truncate(p)
  BY Zenon DEF Next, Opens, Writes, Other, Closes

LEMMA NextTypes == TypeOK /\ [Next]_vars => TypeOK'
<1> SUFFICES ASSUME TypeOK, [Next]_vars PROVE TypeOK'
  OBVIOUS
<1>1. CASE Opens
  <2>1. ASSUME NEW b \in Blocks, NEW n \in Names, NEW flag \in Flags, afp_ml_open(b, n, flag)
        PROVE  TypeOK'
    BY <2>1, OpenForkTypes DEF afp_ml_open, ForkKinds
  <2> QED
    BY <1>1, <2>1, OpenTypes, OpenedNames DEF Opens
<1>2. CASE Writes
  <2>1. ASSUME NEW b \in Blocks, NEW v \in Vals, WriteData(b, v)
        PROVE  TypeOK'
    <3>1. PICK rs : WroteFork(b, "data", v, rs)
      BY <2>1, ForkWrites
    <3>2. UNCHANGED <<forks, stray, dt, history>>
      BY <2>1, Zenon DEF WriteData
    <3> QED
      BY <3>1, <3>2, ForkWriteTypes DEF ForkKinds
  <2> QED
    BY <1>2, <2>1, WriteTypes DEF Writes
<1>3. CASE Other
  BY <1>3, OthersTypes
<1>4. CASE Closes
  BY <1>4, CloseTypes DEF Closes
<1>5. CASE \E p \in Paths : appledouble_truncate(p)
  BY <1>5, TruncateTypes
<1>6. CASE \E b \in Blocks : appledouble_read(b)
  BY <1>6, ReadTypes
<1>7. CASE UNCHANGED vars
  BY <1>7 DEF vars, server, client, history, TypeOK
<1> QED
  BY <1>1, <1>2, <1>3, <1>4, <1>5, <1>6, <1>7, Calls

\* Types: whatever is refused, a handle that is open names a file and has a fork
\* of its kind, as struct afp_file_info in appledouble_open() of lib/resource.c.
THEOREM MetadataTypes == Spec => []TypeOK
  BY InitTypes, NextTypes, PTL DEF Spec

-----------------------------------------------------------------------------
(* The forks *)

\* The blocks that have a fork of their own, and what ForksBelong says of them
Having == {b \in Blocks : handle[b].what \in ForkKinds} \ lost
Own(b) == forks[handle[b].fork] = [name |-> handle[b].name, part |-> handle[b].what]
Owned(k) == k \in unclosed \/ \E b \in Having : handle[b].fork = k

LEMMA ForksParts ==
  ForksBelong <=> /\ \A b \in Having : Own(b)
                  /\ \A k \in ForkIds : forks[k] # Null => Owned(k)
                  /\ \A b, c \in Having : handle[b].fork = handle[c].fork => b = c
  BY DEF ForksBelong, Having, Own, Owned

LEMMA ForksPartsNext ==
  ForksBelong' <=> /\ \A b \in Having' : Own(b)'
                   /\ \A k \in ForkIds : forks'[k] # Null => Owned(k)'
                   /\ \A b, c \in Having' : handle'[b].fork = handle'[c].fork => b = c
  BY DEF ForksBelong, Having, Own, Owned

\* The handle is of the same fork as before.
SameHandle(c) == /\ handle'[c].what = handle[c].what /\ handle'[c].name = handle[c].name
                 /\ handle'[c].fork = handle[c].fork

\* Blocks that have a fork have what they had, one that is as it was.
LEMMA HavingKept ==
  ASSUME ForksBelong,
         \A c \in Having' : c \in Having /\ SameHandle(c) /\ forks'[handle[c].fork] = forks[handle[c].fork]
  PROVE  /\ \A c \in Having' : Own(c)'
         /\ \A c, d \in Having' : handle'[c].fork = handle'[d].fork => c = d
<1>1. ASSUME NEW c \in Having' PROVE Own(c)'
  <2>1. c \in Having /\ SameHandle(c) /\ forks'[handle[c].fork] = forks[handle[c].fork]
    BY <1>1
  <2>2. forks[handle[c].fork] = [name |-> handle[c].name, part |-> handle[c].what]
    BY <2>1, ForksParts DEF Own
  <2> QED
    BY <2>1, <2>2 DEF Own, SameHandle
<1>2. ASSUME NEW c \in Having', NEW d \in Having', handle'[c].fork = handle'[d].fork PROVE c = d
  BY <1>2, ForksParts DEF SameHandle
<1> QED
  BY <1>1, <1>2

\* Nothing happens to the forks, nor to who has one.
LEMMA SameForks ==
  ASSUME ForksBelong, UNCHANGED <<forks, history>>,
         \A c \in Blocks : \/ SameHandle(c)
                           \/ handle[c].what \notin ForkKinds /\ handle'[c].what \notin ForkKinds
  PROVE  ForksBelong'
<1>1. Having' = Having /\ \A c \in Having : SameHandle(c)
  BY DEF Having, history, SameHandle
<1>2. /\ \A c \in Having' : Own(c)'
      /\ \A c, d \in Having' : handle'[c].fork = handle'[d].fork => c = d
  BY <1>1, HavingKept
<1>3. ASSUME NEW k \in ForkIds, forks'[k] # Null PROVE Owned(k)'
  <2>1. Owned(k)
    BY <1>3, ForksParts
  <2> QED
    BY <1>1, <2>1 DEF Owned, SameHandle, history
<1> QED
  BY <1>2, <1>3, ForksPartsNext

\* A block that had no fork gets one that was not open.
LEMMA ForkFor ==
  ASSUME TypeOK, ForksBelong, NEW b \in Blocks, NEW n \in Names, NEW k \in ForkIds,
         NEW what \in ForkKinds, handle[b] = NoHandle,
         NewFork(k, n, what), handle' = Held(b, what, n, k), UNCHANGED history
  PROVE  ForksBelong'
<1>1. /\ b \notin lost /\ handle'[b].what = what /\ handle'[b].name = n /\ handle'[b].fork = k
      /\ \A c \in Blocks : c # b => handle'[c] = handle[c]
  BY HeldType
<1>2. /\ forks'[k] = [name |-> n, part |-> what] /\ forks[k] = Null
      /\ \A x \in ForkIds : x # k => forks'[x] = forks[x]
  BY NewForkType DEF NewFork
<1>3. lost' = lost /\ unclosed' = unclosed
  BY DEF history
<1>4. b \notin Having /\ Having' = Having \cup {b}
  BY <1>1, <1>3, NoHandleIs DEF Having, ForkKinds
<1>5. ASSUME NEW c \in Having
      PROVE  c # b /\ handle'[c] = handle[c] /\ handle[c].fork \in ForkIds /\ handle[c].fork # k
  <2>1. c \in Blocks /\ c # b /\ handle[c].what \in ForkKinds
    BY <1>4 DEF Having
  <2>2. handle[c].fork \in ForkIds /\ handle[c].name \in Names
    BY <2>1, HandleName DEF ForkKinds
  <2>3. [name |-> handle[c].name, part |-> handle[c].what] \in Fork
    BY <2>1, <2>2 DEF Fork
  <2>4. forks[handle[c].fork] # Null
    BY <2>3, ForksParts, NullIsNone DEF Own, NotNull
  <2> QED
    BY <1>1, <1>2, <2>1, <2>2, <2>4
<1>6. ASSUME NEW c \in Having' PROVE Own(c)'
  <2>1. CASE c = b
    BY <1>1, <1>2, <2>1 DEF Own
  <2>2. CASE c # b
    <3>1. c \in Having /\ Own(c)
      BY <1>4, <1>6, <2>2, ForksParts
    <3> QED
      BY <1>2, <1>5, <3>1 DEF Own
  <2> QED
    BY <2>1, <2>2
<1>7. ASSUME NEW x \in ForkIds, forks'[x] # Null PROVE Owned(x)'
  <2>1. CASE x = k
    BY <1>1, <1>4, <2>1 DEF Owned
  <2>2. CASE x # k
    <3>1. Owned(x)
      BY <1>2, <1>7, <2>2, ForksParts
    <3>2. CASE x \in unclosed
      BY <1>3, <3>2 DEF Owned
    <3>3. ASSUME NEW c \in Having, handle[c].fork = x PROVE Owned(x)'
      BY <1>4, <1>5, <3>3 DEF Owned
    <3> QED
      BY <3>1, <3>2, <3>3 DEF Owned
  <2> QED
    BY <2>1, <2>2
<1>8. ASSUME NEW c \in Having', NEW d \in Having', handle'[c].fork = handle'[d].fork PROVE c = d
  <2>1. CASE c # b /\ d # b
    BY <1>4, <1>5, <1>8, <2>1, ForksParts
  <2>2. CASE c = b \/ d = b
    BY <1>1, <1>4, <1>5, <1>8, <2>2
  <2> QED
    BY <2>1, <2>2
<1> QED
  BY <1>6, <1>7, <1>8, ForksPartsNext

\* A fork is opened and forgotten.
LEMMA ForkForgotten ==
  ASSUME TypeOK, ForksBelong, NEW n \in Names, NEW k \in ForkIds, NEW what \in ForkKinds,
         NewFork(k, n, what), unclosed' = unclosed \cup {k}, UNCHANGED <<handle, lost>>
  PROVE  ForksBelong'
<1>1. forks[k] = Null /\ \A x \in ForkIds : x # k => forks'[x] = forks[x]
  BY NewForkType DEF NewFork
<1>2. Having' = Having
  BY DEF Having
<1>3. ASSUME NEW c \in Having
      PROVE  SameHandle(c) /\ forks'[handle[c].fork] = forks[handle[c].fork]
  <2>1. c \in Blocks /\ handle[c].what \in ForkKinds
    BY DEF Having
  <2>2. handle[c].fork \in ForkIds /\ handle[c].name \in Names
    BY <2>1, HandleName DEF ForkKinds
  <2>3. [name |-> handle[c].name, part |-> handle[c].what] \in Fork
    BY <2>1, <2>2 DEF Fork
  <2>4. forks[handle[c].fork] # Null
    BY <2>3, ForksParts, NullIsNone DEF Own, NotNull
  <2> QED
    BY <1>1, <2>2, <2>4 DEF SameHandle
<1>4. /\ \A c \in Having' : Own(c)'
      /\ \A c, d \in Having' : handle'[c].fork = handle'[d].fork => c = d
  BY <1>2, <1>3, HavingKept
<1>5. ASSUME NEW x \in ForkIds, forks'[x] # Null PROVE Owned(x)'
  <2>1. x = k \/ Owned(x)
    BY <1>1, <1>5, ForksParts
  <2> QED
    BY <1>2, <2>1 DEF Owned
<1> QED
  BY <1>4, <1>5, ForksPartsNext

\* A fork is closed, by the block that forgets it or by a number off the stack.
LEMMA ClosesFork ==
  ASSUME TypeOK, ForksBelong, NEW k \in ForkIds, NEW bs, CloseFork(k, bs),
         \A c \in Blocks \cap bs : handle'[c] = NoHandle /\ handle[c].fork = k,
         \A c \in Blocks \ bs : handle'[c] = handle[c]
  PROVE  ForksBelong'
<1>1. forks'[k] = Null /\ \A x \in ForkIds : x # k => forks'[x] = forks[x]
  BY CloseForkType
<1>2. lost' = (lost \cup {c \in Blocks : handle[c].fork = k}) \ bs /\ unclosed' = unclosed \ {k}
  BY DEF CloseFork
<1>3. ASSUME NEW c \in Having'
      PROVE  /\ c \in Having /\ SameHandle(c)
             /\ forks'[handle[c].fork] = forks[handle[c].fork]
  <2>1. c \in Blocks /\ handle'[c].what \in ForkKinds /\ c \notin lost'
    BY <1>3 DEF Having
  <2>2. c \notin bs /\ handle'[c] = handle[c]
    BY <2>1, NoHandleIs DEF ForkKinds
  <2>3. c \notin lost /\ handle[c].fork # k
    BY <1>2, <2>1, <2>2
  <2>4. handle[c].fork \in ForkIds
    BY <2>1, <2>2, HandleName DEF ForkKinds
  <2> QED
    BY <1>1, <2>1, <2>2, <2>3, <2>4 DEF Having, SameHandle
<1>4. /\ \A c \in Having' : Own(c)'
      /\ \A c, d \in Having' : handle'[c].fork = handle'[d].fork => c = d
  BY <1>3, HavingKept
<1>5. ASSUME NEW x \in ForkIds, forks'[x] # Null PROVE Owned(x)'
  <2>1. x # k /\ Owned(x)
    BY <1>1, <1>5, ForksParts
  <2>2. CASE x \in unclosed
    BY <1>2, <2>1, <2>2 DEF Owned
  <2>3. ASSUME NEW c \in Having, handle[c].fork = x PROVE Owned(x)'
    <3>1. c \in Blocks /\ c \notin bs /\ c \notin lost
      BY <2>1, <2>3 DEF Having
    <3>2. c \notin lost' /\ handle'[c] = handle[c]
      BY <1>2, <2>1, <2>3, <3>1
    <3>3. c \in Having'
      BY <2>3, <3>1, <3>2 DEF Having
    <3> QED
      BY <2>3, <3>2, <3>3 DEF Owned
  <2> QED
    BY <2>1, <2>2, <2>3 DEF Owned
<1> QED
  BY <1>4, <1>5, ForksPartsNext

LEMMA OpenForks ==
  ASSUME TypeOK, ForksBelong, NEW b \in Blocks, NEW what \in ForkKinds, NEW n \in Names,
         NEW flag \in Flags, handle[b] = NoHandle, ll_open(b, what, n, flag)
  PROVE  ForksBelong'
<1>1. ASSUME UNCHANGED <<forks, handle, history>> PROVE ForksBelong'
  BY <1>1, SameForks DEF SameHandle
<1> QED
  BY <1>1, OpenDoes, ForkFor, ForkForgotten

LEMMA OpenedForks ==
  ASSUME TypeOK, ForksBelong, Opens
  PROVE  ForksBelong'
<1>1. ASSUME NEW b \in Blocks, handle[b] = NoHandle, NEW what \in {"finderinfo", "comment"}, NEW n,
             handle' = Fresh(b, what, n), UNCHANGED <<forks, history>>
      PROVE  ForksBelong'
  <2> DEFINE h == [NoHandle EXCEPT !.what = what, !.name = n]
  <2>1. h.what \notin ForkKinds
    BY DEF NoHandle, ForkKinds
  <2> HIDE DEF h
  <2>2. handle' = [handle EXCEPT ![b] = h]
    BY <1>1 DEF Fresh, h
  <2>3. handle'[b] = h /\ \A c \in Blocks : c # b => SameHandle(c)
    BY <2>2 DEF TypeOK, SameHandle
  <2>4. handle[b].what \notin ForkKinds
    BY <1>1, NoHandleIs DEF ForkKinds
  <2> QED
    BY <1>1, <2>1, <2>3, <2>4, SameForks
<1>2. ASSUME NEW b \in Blocks, NEW n, OpenFinderInfo(b, n) PROVE ForksBelong'
  BY <1>1, <1>2 DEF OpenFinderInfo, server
<1>3. ASSUME NEW b \in Blocks, NEW n, OpenComment(b, n) PROVE ForksBelong'
  <2>1. CASE UNCHANGED handle
    BY <1>3, <2>1, SameForks DEF OpenComment, server, SameHandle
  <2> QED
    BY <1>1, <1>3, <2>1 DEF OpenComment, server
<1>4. ASSUME NEW b \in Blocks, NEW p \in Paths, NEW flag \in Flags, appledouble_open(b, p, flag)
      PROVE  ForksBelong'
  <2>1. p.name \in Names
    BY <1>4, OpenedNames
  <2>2. CASE OpenResource(b, p.name, flag)
    BY <2>1, <2>2, OpenForks DEF OpenResource, ForkKinds
  <2> QED
    BY <1>2, <1>3, <1>4, <2>2, Zenon DEF appledouble_open
<1>5. ASSUME NEW b \in Blocks, NEW n \in Names, NEW flag \in Flags, afp_ml_open(b, n, flag)
      PROVE  ForksBelong'
  BY <1>5, OpenForks DEF afp_ml_open, ForkKinds
<1> QED
  BY <1>4, <1>5 DEF Opens

LEMMA CloseHandleForks ==
  ASSUME TypeOK, ForksBelong, NEW b \in Blocks, handle[b].what \in ForkKinds, CloseHandle(b)
  PROVE  ForksBelong'
<1> DEFINE k == handle[b].fork
<1>1. k \in ForkIds
  BY HandleName DEF ForkKinds
<1>2. handle'[b] = NoHandle /\ \A c \in Blocks : c # b => handle'[c] = handle[c]
  BY ForgottenType DEF CloseHandle
<1>3. CASE CloseFork(k, {b})
  BY <1>1, <1>2, <1>3, ClosesFork
<1>4. CASE /\ lost' = lost \ {b} /\ UNCHANGED forks
           /\ unclosed' = unclosed \cup {j \in {k} : forks[j] # Null /\ b \notin lost}
  <2>1. Having' = Having \ {b}
    BY <1>2, <1>4, NoHandleIs DEF Having, ForkKinds
  <2>2. \A c \in Having' : c \in Having /\ SameHandle(c)
    BY <1>2, <2>1 DEF SameHandle, Having
  <2>3. /\ \A c \in Having' : Own(c)'
        /\ \A c, d \in Having' : handle'[c].fork = handle'[d].fork => c = d
    BY <1>4, <2>2, HavingKept
  <2>4. ASSUME NEW x \in ForkIds, forks'[x] # Null PROVE Owned(x)'
    <3>1. Owned(x)
      BY <1>4, <2>4, ForksParts
    <3>2. CASE x \in unclosed
      BY <1>4, <3>2 DEF Owned
    <3>3. ASSUME NEW c \in Having, handle[c].fork = x PROVE Owned(x)'
      <4>1. CASE c = b
        BY <1>4, <2>4, <3>3, <4>1 DEF Owned, Having
      <4>2. CASE c # b
        <5>1. c \in Having' /\ handle'[c].fork = x
          BY <2>1, <2>2, <3>3, <4>2 DEF SameHandle
        <5> QED
          BY <5>1 DEF Owned
      <4> QED
        BY <4>1, <4>2
    <3> QED
      BY <3>1, <3>2, <3>3 DEF Owned
  <2> QED
    BY <2>3, <2>4, ForksPartsNext
<1> QED
  BY <1>3, <1>4, Zenon DEF CloseHandle

LEMMA CloseForks ==
  ASSUME TypeOK, ForksBelong, NEW b \in Blocks, appledouble_close(b) \/ afp_ml_close(b)
  PROVE  ForksBelong'
<1>1. CASE handle[b].what \in ForkKinds /\ CloseHandle(b)
  BY <1>1, CloseHandleForks
<1>2. CASE /\ handle[b].what \in {"finderinfo", "comment"}
           /\ handle' = [handle EXCEPT ![b] = NoHandle]
           /\ UNCHANGED <<forks, history>>
  <2>1. handle'[b] = NoHandle /\ \A c \in Blocks : c # b => SameHandle(c)
    BY <1>2, ForgottenType DEF SameHandle
  <2>2. handle[b].what \notin ForkKinds /\ NoHandle.what \notin ForkKinds
    BY <1>2, NoHandleIs DEF ForkKinds
  <2> QED
    BY <1>2, <2>1, <2>2, SameForks
<1> QED
  BY <1>1, <1>2 DEF appledouble_close, afp_ml_close, ForkKinds

LEMMA TruncateForks ==
  ASSUME TypeOK, ForksBelong, NEW p \in Paths, appledouble_truncate(p)
  PROVE  ForksBelong'
<1>1. UNCHANGED handle
  BY TruncateDoes DEF client
<1>2. CASE UNCHANGED <<forks, history>>
  BY <1>1, <1>2, SameForks DEF SameHandle
<1>3. ASSUME NEW k \in ForkIds, CloseFork(k, {}) PROVE ForksBelong'
  BY <1>1, <1>3, ClosesFork
<1>4. ASSUME NEW k \in ForkIds, NEW n \in Names, NewFork(k, n, "resource"),
             unclosed' = unclosed \cup {k}, UNCHANGED lost
      PROVE  ForksBelong'
  BY <1>1, <1>4, ForkForgotten DEF ForkKinds
<1> QED
  BY <1>2, <1>3, <1>4, TruncateDoes

LEMMA NewFinderInfo ==
  ASSUME TypeOK, NEW b \in Blocks, NEW new, handle' = [handle EXCEPT ![b].finfo = new]
  PROVE  \A c \in Blocks : SameHandle(c)
  BY DEF SameHandle, TypeOK, Handle

LEMMA ReadWriteForks ==
  ASSUME TypeOK, ForksBelong, NEW b \in Blocks,
         appledouble_read(b) \/ \E parts \in SUBSET Parts, v \in Vals : appledouble_write(b, parts, v)
  PROVE  ForksBelong'
<1>1. UNCHANGED <<forks, history>>
  BY DEF appledouble_read, appledouble_write, server
<1>2. handle' = handle \/ \E new : handle' = [handle EXCEPT ![b].finfo = new]
  <2>1. CASE ReadComment(b)
    <3>1. CASE handle' = [handle EXCEPT ![b] = handle[b]]
      BY <3>1 DEF TypeOK
    <3>2. CASE handle' = [handle EXCEPT ![b] = [handle[b] EXCEPT !.finfo = object[handle[b].name].finfo]]
      <4>1. handle' = [handle EXCEPT ![b].finfo = object[handle[b].name].finfo]
        BY <3>2 DEF TypeOK
      <4> QED
        BY <4>1
    <3> QED
      BY <2>1, <3>1, <3>2 DEF ReadComment
  <2>2. CASE \E parts \in SUBSET Parts, v \in Vals : WriteFinderInfo(b, parts, v)
    <3>1. PICK parts \in SUBSET Parts, v \in Vals : WriteFinderInfo(b, parts, v)
      BY <2>2
    <3>2. \/ handle' = handle
          \/ handle' = [handle EXCEPT ![b].finfo =
                          [i \in Parts |-> IF i \in parts THEN v ELSE handle[b].finfo[i]]]
      BY <3>1 DEF WriteFinderInfo
    <3> QED
      BY <3>2, Zenon
  <2> QED
    BY <2>1, <2>2 DEF appledouble_read, ReadResource, appledouble_write, WriteResource,
                      WriteComment, WriteMissing
<1>3. \A c \in Blocks : SameHandle(c)
  <2>1. CASE handle' = handle
    BY <2>1 DEF SameHandle
  <2>2. ASSUME NEW new, handle' = [handle EXCEPT ![b].finfo = new]
        PROVE  \A c \in Blocks : SameHandle(c)
    BY <2>2, NewFinderInfo
  <2> QED
    BY <1>2, <2>1, <2>2
<1> QED
  BY <1>1, <1>3, SameForks

LEMMA NextForks == TypeOK /\ ForksBelong /\ [Next]_vars => ForksBelong'
<1> SUFFICES ASSUME TypeOK, ForksBelong, [Next]_vars PROVE ForksBelong'
  OBVIOUS
<1>1. CASE Opens
  BY <1>1, OpenedForks
<1>2. CASE Writes
  <2>1. ASSUME NEW b \in Blocks, NEW v \in Vals, WriteData(b, v) PROVE ForksBelong'
    BY <2>1, SameForks DEF WriteData, SameHandle
  <2> QED
    BY <1>2, <2>1, ReadWriteForks DEF Writes
<1>3. CASE Other
  BY <1>3, OthersTypes, SameForks DEF SameHandle
<1>4. CASE Closes
  BY <1>4, CloseForks DEF Closes
<1>5. CASE \E p \in Paths : appledouble_truncate(p)
  BY <1>5, TruncateForks
<1>6. CASE \E b \in Blocks : appledouble_read(b)
  BY <1>6, ReadWriteForks
<1>7. CASE UNCHANGED vars
  BY <1>7, SameForks DEF vars, server, client, history, SameHandle
<1> QED
  BY <1>1, <1>2, <1>3, <1>4, <1>5, <1>6, <1>7, Calls

LEMMA InitForks == Init => ForksBelong
<1> SUFFICES ASSUME Init PROVE ForksBelong
  OBVIOUS
<1>1. \A b \in Blocks : handle[b] = NoHandle
  BY DEF Init
<1>2. forks = [k \in ForkIds |-> Null]
  BY DEF Init
<1>3. Having = {}
  BY <1>1, NoHandleIs DEF Having, ForkKinds
<1> QED
  BY <1>2, <1>3, ForksParts

\* The forks that ll_open() of lib/lowlevel.c gets from the server are those of
\* its handles, but for the places that lose or close one.
THEOREM ForksAreTheHandles == Spec => []ForksBelong
  BY MetadataTypes, InitForks, NextForks, PTL DEF Spec

-----------------------------------------------------------------------------
(* The contents *)

\* What a step that is no write says of itself
LEMMA NoWrites ==
  ASSUME TypeOK,
         \/ Opens \/ Other \/ Closes
         \/ \E b \in Blocks : appledouble_read(b)
         \/ \E p \in Paths : appledouble_truncate(p)
  PROVE  last'.call # "write"
<1>1. \A rs : Quiet(rs) => last'.call # "write"
  BY QuietSays
<1>2. CASE Opens
  <2>1. ASSUME NEW b \in Blocks, NEW p \in Paths, NEW flag \in Flags, appledouble_open(b, p, flag)
        PROVE  last'.call # "write"
    <3>1. p.name \in Names
      BY <2>1, OpenedNames
    <3>2. CASE OpenResource(b, p.name, flag)
      BY <3>1, <3>2, OpenDoes DEF OpenResource, ForkKinds
    <3>3. CASE OpenFinderInfo(b, p.name) \/ OpenComment(b, p.name)
      BY <1>1, <3>3 DEF OpenFinderInfo, OpenComment
    <3> QED
      BY <2>1, <3>2, <3>3, Zenon DEF appledouble_open
  <2>2. ASSUME NEW b \in Blocks, NEW n \in Names, NEW flag \in Flags, afp_ml_open(b, n, flag)
        PROVE  last'.call # "write"
    BY <2>2, OpenDoes DEF afp_ml_open, ForkKinds
  <2> QED
    BY <1>2, <2>1, <2>2 DEF Opens
<1>3. CASE appledouble_readdir
  <2>1. last' = NoCall
    BY <1>3, Zenon DEF appledouble_readdir, Listed
  <2> QED
    BY <2>1 DEF NoCall
<1>4. CASE Other /\ ~appledouble_readdir
  BY <1>4, OtherSays DEF Other, OtherOf
<1>5. CASE Closes
  BY <1>1, <1>5 DEF Closes, appledouble_close, afp_ml_close, CloseHandle
<1>6. CASE \E b \in Blocks : appledouble_read(b)
  BY <1>1, <1>6 DEF appledouble_read, ReadResource, ReadComment
<1>7. CASE \E p \in Paths : appledouble_truncate(p)
  BY <1>7, TruncateDoes
<1> QED
  BY <1>2, <1>3, <1>4, <1>5, <1>6, <1>7

LEMMA LessIsOther == \A n \in Nat : n < 2 => n # 2
  OBVIOUS

\* At most one of the two requests of a write was refused.
LEMMA OneOfTwo ==
  ASSUME NEW rs \in SUBSET {"first refused", "second refused"}
  PROVE  Cardinality(rs) < 2 => Cardinality(rs) # 2
<1> DEFINE both == {"first refused"} \cup {"second refused"}
<1>1. IsFiniteSet(both)
  BY FS_Singleton, FS_AddElement
<1>2. rs \in SUBSET both
  OBVIOUS
<1> HIDE DEF both
<1>3. IsFiniteSet(rs)
  BY <1>1, <1>2, FS_Subset
<1>4. Cardinality(rs) \in Nat
  BY <1>3, FS_CardinalityType
<1> QED
  BY <1>4, LessIsOther, Zenon

\* A block that has kept its fork writes to its own file.
LEMMA OwnFork ==
  ASSUME TypeOK, ForksBelong, NEW b \in Blocks, NEW what \in ForkKinds, NEW v,
         handle[b].what = what, b \notin lost, ll_write(handle[b].fork, v)
  PROVE  handle[b].name \in Names /\ object' = [object EXCEPT ![handle[b].name].contents[what] = v]
<1>1. handle[b].fork \in ForkIds /\ handle[b].name \in Names
  BY HandleName DEF ForkKinds
<1>2. forks[handle[b].fork] = [name |-> handle[b].name, part |-> what]
  BY ForksParts DEF Having, Own
<1>3. PICK k \in ForkIds : k = handle[b].fork
  BY <1>1
<1>4. [name |-> handle[b].name, part |-> what] \in Fork
  BY <1>1 DEF Fork
<1>5. forks[k] # Null /\ forks[k].name = handle[b].name /\ forks[k].part = what
  BY <1>2, <1>3, <1>4, NullIsNone DEF NotNull
<1>6. object' = [object EXCEPT ![forks[k].name].contents[forks[k].part] = v]
  BY <1>3, <1>5, WrittenFork
<1> QED
  BY <1>1, <1>5, <1>6

LEMMA ForkWriteIsThere ==
  ASSUME TypeOK, ForksBelong, NEW b \in Blocks, NEW what \in ForkKinds, NEW v \in Vals, NEW rs,
         WroteFork(b, what, v, rs), Cardinality(rs) < 2 => Cardinality(rs) # 2
  PROVE  WrittenIsThere'
<1>1. PICK n : n = handle[b].name
  OBVIOUS
<1>2. /\ last'.call = "write" /\ last'.what = what /\ last'.name = n /\ last'.val = v
      /\ last'.refused = rs /\ last'.astray = (b \in lost)
  BY <1>1, CallSays DEF WroteFork
<1>3. ASSUME b \notin lost, "misc" \notin rs, Cardinality(rs) < 2
      PROVE  object'[n].contents[what] = v
  <2>1. ll_write(handle[b].fork, v)
    BY <1>3 DEF WroteFork
  <2>2. n \in Names /\ object' = [object EXCEPT ![n].contents[what] = v]
    BY <1>1, <1>3, <2>1, OwnFork DEF WroteFork
  <2>3. PICK m \in Names : m = n
    BY <2>2
  <2>4. object'[m].contents[what] = v
    <3>1. SetTo(m, what, v)
      BY <2>2, <2>3, Zenon DEF SetTo
    <3> QED
      BY <3>1, ContentsValue
  <2> QED
    BY <2>3, <2>4
<1>4. CASE last'.astray
  BY <1>4 DEF WrittenIsThere
<1>5. CASE ~last'.astray
  <2>1. b \notin lost
    BY <1>2, <1>5, Zenon
  <2>2. "misc" \notin rs /\ Cardinality(rs) < 2 => object'[n].contents[what] = v
    BY <1>3, <2>1
  <2>3. "misc" \notin last'.refused /\ Cardinality(last'.refused) < 2 =>
          object'[last'.name].contents[last'.what] = last'.val
    BY <1>2, <2>2, Zenon
  <2>4. last'.what \in ForkKinds
    BY <1>2
  <2> QED
    BY <2>3, <2>4 DEF WrittenIsThere, ForkKinds
<1> QED
  BY <1>4, <1>5

LEMMA WriteIsThere ==
  ASSUME TypeOK, ForksBelong, NEW b \in Blocks, NEW parts \in SUBSET Parts, NEW v \in Vals,
         appledouble_write(b, parts, v)
  PROVE  WrittenIsThere'
<1> DEFINE n == handle[b].name
<1>1. CASE \E rs : Quiet(rs)
  <2>1. last'.call = "none"
    BY <1>1, QuietSays
  <2> QED
    BY <2>1 DEF WrittenIsThere
<1>2. CASE WriteResource(b, v)
  BY <1>2, ForkWrites, OneOfTwo, ForkWriteIsThere DEF ForkKinds
<1>3. CASE /\ handle[b].what = "comment" /\ afp_addcomment(n, v)
           /\ Call("write", "comment", n, Parts, v, {})
  <2>1. n \in Names
    BY <1>3, HandleName
  <2>2. object'[n].comment = v
    BY <1>3, <2>1 DEF afp_addcomment, TypeOK, Meta
  <2>3. last'.call = "write" /\ last'.what = "comment" /\ last'.name = n /\ last'.val = v
    BY <1>3, SaysCall
  <2> HIDE DEF n
  <2> QED
    BY <2>2, <2>3 DEF WrittenIsThere, ForkKinds
<1>4. CASE /\ handle[b].what = "finderinfo"
           /\ object' = [object EXCEPT ![n].finfo =
                           [i \in Parts |-> IF i \in parts THEN v ELSE handle[b].finfo[i]]]
           /\ Call("write", "finderinfo", n, parts, v, {})
  <2>1. n \in Names
    BY <1>4, HandleName
  <2>2. \A i \in parts : object'[n].finfo[i] = v
    BY <1>4, <2>1 DEF TypeOK, Meta
  <2>3. /\ last'.call = "write" /\ last'.what = "finderinfo" /\ last'.name = n /\ last'.val = v
        /\ last'.parts = parts
    BY <1>4, SaysCall
  <2> HIDE DEF n
  <2> QED
    BY <2>2, <2>3 DEF WrittenIsThere, ForkKinds
<1>5. CASE Call("write", "finderinfo", n, parts, v, {"misc"})
  <2>1. last'.refused = {"misc"}
    BY <1>5, SaysCall
  <2> QED
    BY <2>1 DEF WrittenIsThere
<1> QED
  BY <1>1, <1>2, <1>3, <1>4, <1>5
     DEF appledouble_write, WriteComment, WriteFinderInfo, WriteMissing

\* ll_write() of lib/lowlevel.c and appledouble_write() of lib/resource.c have
\* written what they said they have written, through the number of the handle's
\* fork, unless the server refused it in one of the ways the code does not look at
\* or the fork had been closed under the handle.
THEOREM WritesReachTheServer == Spec => []WrittenIsThere
<1>1. Init => WrittenIsThere
  BY DEF Init, WrittenIsThere, NoCall
<1>2. TypeOK /\ ForksBelong /\ WrittenIsThere /\ [Next]_vars => WrittenIsThere'
  <2> SUFFICES ASSUME TypeOK, ForksBelong, WrittenIsThere, [Next]_vars PROVE WrittenIsThere'
    OBVIOUS
  <2>1. CASE Writes
    <3>1. ASSUME NEW b \in Blocks, NEW v \in Vals, WriteData(b, v) PROVE WrittenIsThere'
      <4>1. PICK rs \in {{}, {"misc"}} : WroteFork(b, "data", v, rs)
        BY <3>1, ForkWrites
      <4>2. Cardinality({}) = 0 /\ Cardinality({"misc"}) = 1
        BY FS_EmptySet, FS_Singleton
      <4>3. Cardinality(rs) # 2
        BY <4>2
      <4> QED
        BY <4>1, <4>3, ForkWriteIsThere DEF ForkKinds
    <3> QED
      BY <2>1, <3>1, WriteIsThere DEF Writes
  <2>2. CASE UNCHANGED vars
    BY <2>2 DEF vars, server, WrittenIsThere
  <2>3. CASE last'.call # "write"
    BY <2>3 DEF WrittenIsThere
  <2> QED
    BY <2>1, <2>2, <2>3, Calls, NoWrites
<1> QED
  BY <1>1, <1>2, MetadataTypes, ForksAreTheHandles, PTL DEF Spec

\* Metadata that differs in one piece
ForkOf(m, q, w) == [m EXCEPT !.contents[w] = q.contents[w], !.kind = q.kind]
OneFork(m, q, w) == q = ForkOf(m, q, w)
OnlyContents(m, q) == q = [m EXCEPT !.contents = q.contents]

LEMMA ForkReplaced ==
  ASSUME NEW m \in Meta, NEW w \in ForkKinds, NEW x, NEW c, NEW kind, NEW q,
         c = [m.contents EXCEPT ![w] = x],
         q = [kind |-> kind, contents |-> c, finfo |-> m.finfo, comment |-> m.comment]
  PROVE  OneFork(m, q, w)
<1>1. m = [kind |-> m.kind, contents |-> m.contents, finfo |-> m.finfo, comment |-> m.comment]
  BY DEF Meta
<1>2. m.contents \in [ForkKinds -> Stored]
  BY DEF Meta
<1>3. q.contents[w] = x /\ q.kind = kind
  BY <1>2
<1>4. [m EXCEPT !.contents[w] = x, !.kind = kind] = [[m EXCEPT !.contents = c] EXCEPT !.kind = kind]
  OBVIOUS
<1>5. PICK r : r = [m EXCEPT !.contents = c]
  OBVIOUS
<1>6. r = [kind |-> m.kind, contents |-> c, finfo |-> m.finfo, comment |-> m.comment]
  BY <1>1, <1>5
<1>7. [r EXCEPT !.kind = kind] = q
  BY <1>6
<1>8. [m EXCEPT !.contents[w] = x, !.kind = kind] = q
  BY <1>4, <1>5, <1>7, Zenon
<1> QED
  BY <1>3, <1>8, Zenon DEF OneFork, ForkOf

LEMMA Replaced ==
  ASSUME NEW m \in Meta, NEW q, NEW v
  PROVE  /\ q = [m EXCEPT !.comment = v] => q = [m EXCEPT !.comment = q.comment]
         /\ q = [m EXCEPT !.finfo = v] => q = [m EXCEPT !.finfo = q.finfo]
<1>1. m = [kind |-> m.kind, contents |-> m.contents, finfo |-> m.finfo, comment |-> m.comment]
  BY DEF Meta
<1> QED
  BY <1>1

\* OnlyItsMetadata, of one step
AstrayChange(n) ==
  /\ OnlyContents(object[n], object'[n])
  /\ \A m \in Names \ {n} : object'[m] = object[m]
  /\ \E w \in ForkKinds : object'[n].contents[w] = object[n].contents[w]

NamedChange(n) ==
  /\ n = last'.name
  /\ object'[n] = CASE last'.what \in ForkKinds -> ForkOf(object[n], object'[n], last'.what)
                    [] last'.what = "finderinfo" -> [object[n] EXCEPT !.finfo = object'[n].finfo]
                    [] last'.what = "comment" -> [object[n] EXCEPT !.comment = object'[n].comment]
                    [] OTHER -> object[n]
  /\ object'[n].kind # object[n].kind => last'.call = "create"

ChangesOne ==
  \A n \in Names : object'[n] # object[n] => IF last'.astray THEN AstrayChange(n) ELSE NamedChange(n)

StrayIsUncaught ==
  stray' # stray => <<last'.call, last'.what>> \in
    {<<"creat", "comment">>} \cup {"symlink", "rename"} \X {"resource", "finderinfo", "comment"}

\* A fork's contents change: whose fork it was does not matter to a step that says
\* it went astray, and otherwise the step names it.
LEMMA SetChanges ==
  ASSUME TypeOK, NEW n \in Names, NEW what \in ForkKinds, NEW v, SetTo(n, what, v),
         \/ last'.astray = TRUE
         \/ last'.astray = FALSE /\ last'.what = what /\ last'.name = n
  PROVE  ChangesOne
<1>1. /\ \A w \in ForkKinds : w # what => object'[n].contents[w] = object[n].contents[w]
      /\ object'[n].kind = object[n].kind
      /\ \A m \in Names : m # n => object'[m] = object[m]
  BY ContentsValue
<1>2. PICK m \in Meta : m = object[n]
  BY DEF TypeOK
<1>3. PICK q : q = object'[n]
  OBVIOUS
<1>4. PICK c : c = [m.contents EXCEPT ![what] = v]
  OBVIOUS
<1>5. q = [m EXCEPT !.contents = c]
  BY <1>2, <1>3, <1>4 DEF SetTo, TypeOK
<1>10. q = [kind |-> m.kind, contents |-> c, finfo |-> m.finfo, comment |-> m.comment]
  BY <1>5 DEF Meta
<1>11. OnlyContents(m, q)
  BY <1>5, <1>10 DEF OnlyContents
<1>6. OneFork(object[n], object'[n], what) /\ OnlyContents(object[n], object'[n])
  BY <1>2, <1>3, <1>4, <1>10, <1>11, ForkReplaced, Zenon
<1>7. ASSUME last'.astray = TRUE PROVE AstrayChange(n)
  <2>1. \E w \in ForkKinds : w # what
    BY DEF ForkKinds
  <2>2. \E w \in ForkKinds : object'[n].contents[w] = object[n].contents[w]
    BY <1>1, <2>1
  <2>4. \A x \in Names \ {n} : object'[x] = object[x]
    BY <1>1
  <2> QED
    BY <1>6, <2>2, <2>4, Zenon DEF AstrayChange
<1>8. ASSUME last'.astray = FALSE, last'.what = what, last'.name = n PROVE NamedChange(n)
  <2>1. OneFork(object[n], object'[n], last'.what)
    BY <1>6, <1>8, Zenon
  <2>2. last'.what \in ForkKinds
    BY <1>8
  <2> QED
    BY <1>1, <1>8, <2>1, <2>2 DEF NamedChange, OneFork, ForkKinds
<1>9. \A x \in Names : object'[x] # object[x] => x = n
  BY <1>1
<1> QED
  BY <1>7, <1>8, <1>9 DEF ChangesOne

\* An open with O_CREAT makes the file it names.
LEMMA KindChanges ==
  ASSUME TypeOK, NEW n \in Names, NEW what \in ForkKinds,
         object' = [object EXCEPT ![n].kind = "file"],
         last'.astray = FALSE, last'.what = what, last'.name = n, last'.call = "create"
  PROVE  ChangesOne
<1>1. PICK m \in Meta : m = object[n]
  BY DEF TypeOK
<1>2. PICK q : q = object'[n]
  OBVIOUS
<1>3. q = [m EXCEPT !.kind = "file"] /\ \A x \in Names : x # n => object'[x] = object[x]
  BY <1>1, <1>2 DEF TypeOK
<1>7. q = [kind |-> "file", contents |-> m.contents, finfo |-> m.finfo, comment |-> m.comment]
  BY <1>3 DEF Meta
<1>8. m.contents = [m.contents EXCEPT ![what] = m.contents[what]]
  BY DEF Meta
<1>4. OneFork(m, q, what)
  BY <1>7, <1>8, ForkReplaced
<1>5. OneFork(object[n], object'[n], last'.what)
  BY <1>1, <1>2, <1>4, Zenon
<1>6. NamedChange(n)
  BY <1>5 DEF NamedChange, OneFork, ForkKinds
<1> QED
  BY <1>3, <1>6 DEF ChangesOne

LEMMA OpenForkChanges ==
  ASSUME TypeOK, NEW b \in Blocks, NEW what \in ForkKinds, NEW n \in Names, NEW flag \in Flags,
         ll_open(b, what, n, flag)
  PROVE  ChangesOne
<1>1. /\ last'.astray = FALSE /\ OpenedObject(what, n)
      /\ object' # object => last'.what = what /\ last'.name = n
  BY OpenDoes, Zenon
<1>2. CASE object' = object
  BY <1>2 DEF ChangesOne
<1>3. CASE object' # object /\ SetTo(n, what, 0)
  BY <1>1, <1>3, SetChanges
<1>4. CASE object' # object /\ object' = [object EXCEPT ![n].kind = "file"] /\ last'.call = "create"
  BY <1>1, <1>4, KindChanges
<1> QED
  BY <1>1, <1>2, <1>3, <1>4, Zenon DEF OpenedObject, SetTo

\* A write through the handle's own fork, or through one lost.
LEMMA ForkWriteChanges ==
  ASSUME TypeOK, ForksBelong, NEW b \in Blocks, NEW what \in ForkKinds, NEW v \in Vals, NEW rs,
         WroteFork(b, what, v, rs)
  PROVE  ChangesOne
<1>1. /\ last'.astray = (b \in lost) /\ last'.what = what /\ last'.name = handle[b].name
      /\ handle[b].what = what
  BY CallSays DEF WroteFork
<1>2. CASE object' = object
  BY <1>2 DEF ChangesOne
<1>3. CASE b \notin lost /\ ll_write(handle[b].fork, v)
  <2>1. handle[b].name \in Names /\ SetTo(handle[b].name, what, v)
    BY <1>1, <1>3, OwnFork DEF SetTo
  <2>2. PICK n \in Names : n = handle[b].name
    BY <2>1
  <2>3. last'.astray = FALSE
    <3>1. (b \in lost) = FALSE
      BY <1>3
    <3> QED
      BY <1>1, <3>1, Zenon
  <2> QED
    BY <1>1, <2>1, <2>2, <2>3, SetChanges
<1>4. CASE b \in lost /\ ll_write(handle[b].fork, v)
  <2>1. last'.astray = TRUE
    BY <1>1, <1>4, Zenon
  <2>2. PICK k \in ForkIds : k = handle[b].fork
    BY <1>1, HandleName DEF ForkKinds
  <2>3. CASE /\ forks[k].name \in Names /\ forks[k].part \in ForkKinds
             /\ SetTo(forks[k].name, forks[k].part, v)
    BY <2>1, <2>3, SetChanges
  <2> QED
    BY <1>2, <1>4, <2>2, <2>3, WrittenFork, Zenon DEF SetTo
<1> QED
  BY <1>2, <1>3, <1>4, Zenon DEF WroteFork

\* Metadata of one file that is not a fork
LEMMA PieceChanges ==
  ASSUME TypeOK, NEW n \in Names, NEW v, last'.astray = FALSE, last'.name = n,
         \/ last'.what = "comment" /\ object' = [object EXCEPT ![n].comment = v]
         \/ last'.what = "finderinfo" /\ object' = [object EXCEPT ![n].finfo = v]
  PROVE  ChangesOne
<1>1. PICK m \in Meta : m = object[n]
  BY DEF TypeOK
<1>2. PICK q : q = object'[n]
  OBVIOUS
<1>3. \A x \in Names : x # n => object'[x] = object[x]
  BY DEF TypeOK
<1>4. \/ last'.what = "comment" /\ q = [m EXCEPT !.comment = v]
      \/ last'.what = "finderinfo" /\ q = [m EXCEPT !.finfo = v]
  BY <1>1, <1>2 DEF TypeOK
<1>5. \/ last'.what = "comment" /\ q = [m EXCEPT !.comment = q.comment]
      \/ last'.what = "finderinfo" /\ q = [m EXCEPT !.finfo = q.finfo]
  BY <1>4, Replaced, Zenon
<1>6. \/ last'.what = "comment" /\ object'[n] = [object[n] EXCEPT !.comment = object'[n].comment]
      \/ last'.what = "finderinfo" /\ object'[n] = [object[n] EXCEPT !.finfo = object'[n].finfo]
  BY <1>1, <1>2, <1>5, Zenon
<1>7. q.kind = m.kind
  BY <1>4 DEF Meta
<1>8. object'[n].kind = object[n].kind
  BY <1>1, <1>2, <1>7
<1>9. NamedChange(n)
  BY <1>6, <1>8 DEF NamedChange, ForkKinds
<1> QED
  BY <1>3, <1>9 DEF ChangesOne

LEMMA WriteChanges ==
  ASSUME TypeOK, ForksBelong, NEW b \in Blocks, NEW parts, NEW v \in Vals,
         appledouble_write(b, parts, v)
  PROVE  ChangesOne
<1>1. CASE object' = object
  BY <1>1 DEF ChangesOne
<1>2. CASE WriteResource(b, v)
  BY <1>2, ForkWrites, ForkWriteChanges DEF ForkKinds
<1>3. CASE WriteComment(b, v) /\ object' # object
  <2>1. handle[b].name \in Names
    BY <1>3, HandleName DEF WriteComment
  <2>2. PICK n \in Names : n = handle[b].name
    BY <2>1
  <2>3. Call("write", "comment", n, Parts, v, {}) /\ object' = [object EXCEPT ![n].comment = v]
    BY <1>3, <2>2, Zenon DEF WriteComment, afp_addcomment
  <2>4. last'.astray = FALSE /\ last'.what = "comment" /\ last'.name = n
    BY <2>3, CallSays DEF Call
  <2> QED
    BY <2>3, <2>4, PieceChanges
<1>4. CASE WriteFinderInfo(b, parts, v) /\ object' # object
  <2>1. handle[b].name \in Names
    BY <1>4, HandleName DEF WriteFinderInfo
  <2>2. PICK n \in Names : n = handle[b].name
    BY <2>1
  <2>3. PICK new : new = [i \in Parts |-> IF i \in parts THEN v ELSE handle[b].finfo[i]]
    OBVIOUS
  <2>4. Call("write", "finderinfo", n, parts, v, {}) /\ object' = [object EXCEPT ![n].finfo = new]
    BY <1>4, <2>2, <2>3 DEF WriteFinderInfo
  <2>5. last'.astray = FALSE /\ last'.what = "finderinfo" /\ last'.name = n
    BY <2>4, CallSays DEF Call
  <2> QED
    BY <2>4, <2>5, PieceChanges
<1> QED
  BY <1>1, <1>2, <1>3, <1>4, Zenon DEF appledouble_write, WriteMissing

LEMMA NextChanges ==
  ASSUME TypeOK, ForksBelong, [Next]_vars
  PROVE  ChangesOne
<1>1. CASE object' = object
  BY <1>1 DEF ChangesOne
<1>2. CASE Opens
  <2>1. ASSUME NEW b \in Blocks, NEW p \in Paths, NEW flag \in Flags, appledouble_open(b, p, flag)
        PROVE  ChangesOne
    <3>1. p.name \in Names
      BY <2>1, OpenedNames
    <3>2. CASE OpenResource(b, p.name, flag)
      BY <3>1, <3>2, OpenForkChanges DEF OpenResource, ForkKinds
    <3>3. CASE OpenFinderInfo(b, p.name) \/ OpenComment(b, p.name)
      BY <1>1, <3>3 DEF OpenFinderInfo, OpenComment, server
    <3> QED
      BY <2>1, <3>2, <3>3, Zenon DEF appledouble_open
  <2>2. ASSUME NEW b \in Blocks, NEW n \in Names, NEW flag \in Flags, afp_ml_open(b, n, flag)
        PROVE  ChangesOne
    BY <2>2, OpenForkChanges DEF afp_ml_open, ForkKinds
  <2> QED
    BY <1>2, <2>1, <2>2 DEF Opens
<1>3. CASE Writes
  <2>1. ASSUME NEW b \in Blocks, NEW v \in Vals, WriteData(b, v) PROVE ChangesOne
    BY <2>1, ForkWrites, ForkWriteChanges DEF ForkKinds
  <2> QED
    BY <1>3, <2>1, WriteChanges DEF Writes
<1>4. CASE \E p \in Paths : appledouble_truncate(p)
  <2>1. ASSUME NEW k \in ForkIds, Emptied(k), last'.astray = TRUE PROVE ChangesOne
    <3>1. forks[k].name \in Names /\ SetTo(forks[k].name, "data", 0)
      BY <2>1, ForkName DEF Emptied, SetTo
    <3> QED
      BY <2>1, <3>1, SetChanges DEF ForkKinds
  <2> QED
    BY <1>1, <1>4, <2>1, TruncateDoes
<1>5. CASE Other
  BY <1>1, <1>5, OthersTypes
<1>6. CASE Closes
  BY <1>1, <1>6, Zenon DEF Closes, appledouble_close, afp_ml_close
<1>7. CASE \E b \in Blocks : appledouble_read(b)
  BY <1>1, <1>7, Zenon DEF appledouble_read, server
<1> QED
  BY <1>1, <1>2, <1>3, <1>4, <1>5, <1>6, <1>7, Calls DEF vars, server

LEMMA NextStray ==
  ASSUME TypeOK, [Next]_vars
  PROVE  StrayIsUncaught
<1>1. CASE \E p \in Paths : appledouble_creat(p)
  <2>1. PICK p \in Paths : appledouble_creat(p)
    BY <1>1
  <2>2. CASE UNCHANGED stray
    BY <2>2 DEF StrayIsUncaught
  <2>3. CASE extra_translate(p) \notin CreatHandled \cup {"none"} /\ Stray("creat", p)
    <3>1. extra_translate(p) = "comment"
      BY <2>3 DEF extra_translate, CreatHandled
    <3>2. last'.call = "creat" /\ last'.what = "comment"
      BY <2>3, <3>1, SimplySays DEF Stray
    <3> QED
      BY <3>2 DEF StrayIsUncaught
  <2> QED
    BY <2>1, <2>2, <2>3 DEF appledouble_creat, server
<1>2. CASE \E p \in Paths : SymlinkOrRename(p)
  <2>1. PICK p \in Paths, c \in {"symlink", "rename"} :
          p.in = ".AppleDouble" /\ extra_translate(p) # "none" /\ Stray(c, p)
    BY <1>2 DEF SymlinkOrRename
  <2>2. p # ServerIcon /\ p # DoubleDir
    <3>1. ServerIcon.in = "/" /\ DoubleDir.in = "/"
      BY DEF ServerIcon, DoubleDir
    <3> QED
      BY <2>1, <3>1
  <2>3. extra_translate(p) \in {"resource", "finderinfo", "comment"}
    BY <2>1, <2>2 DEF extra_translate
  <2>4. last'.call = c /\ last'.what = extra_translate(p)
    BY <2>1, SimplySays DEF Stray
  <2> QED
    BY <2>3, <2>4 DEF StrayIsUncaught
<1>3. CASE UNCHANGED stray
  BY <1>3 DEF StrayIsUncaught
<1>4. CASE Opens \/ Closes
  BY <1>3, <1>4, Zenon
     DEF Opens, Closes, appledouble_open, OpenResource, OpenFinderInfo, OpenComment, server,
         afp_ml_open, appledouble_close, afp_ml_close
<1>5. CASE Writes \/ \E p \in Paths : appledouble_truncate(p)
  BY <1>3, <1>5, Zenon DEF Writes, appledouble_write, WriteData, appledouble_truncate
<1>6. CASE (\E b \in Blocks : appledouble_read(b)) \/ UNCHANGED vars
  BY <1>3, <1>6, Zenon DEF appledouble_read, server, vars
<1>7. CASE Other
  BY <1>1, <1>2, <1>3, <1>7, Zenon
     DEF Other, Icon, NotPermitted, appledouble_getattr, appledouble_readdir, server
<1> QED
  BY <1>4, <1>5, <1>6, <1>7, Calls

\* No call of lib/resource.c changes metadata of another file or of another kind
\* than its path says, nor an object, but where one is made; and what goes through
\* the number of a fork that is not the caller's changes one fork of one file.
THEOREM OnlyTheMetadataNamed == Spec => OnlyItsMetadata
<1>1. TypeOK /\ ForksBelong /\ [Next]_vars => [ChangesOne /\ StrayIsUncaught]_vars
  <2> SUFFICES ASSUME TypeOK, ForksBelong, [Next]_vars PROVE ChangesOne /\ StrayIsUncaught
    OBVIOUS
  <2>1. ChangesOne
    BY NextChanges
  <2>2. StrayIsUncaught
    BY NextStray
  <2> QED
    BY <2>1, <2>2
<1>2. [ChangesOne /\ StrayIsUncaught]_vars =>
        [ /\ \A n \in Names : object'[n] # object[n] =>
               IF last'.astray
               THEN /\ object'[n] = [object[n] EXCEPT !.contents = object'[n].contents]
                    /\ \A m \in Names \ {n} : object'[m] = object[m]
                    /\ \E w \in ForkKinds : object'[n].contents[w] = object[n].contents[w]
               ELSE /\ n = last'.name
                    /\ object'[n] = CASE last'.what \in ForkKinds ->
                                           [object[n] EXCEPT !.contents[last'.what] = object'[n].contents[last'.what],
                                                             !.kind = object'[n].kind]
                                      [] last'.what = "finderinfo" -> [object[n] EXCEPT !.finfo = object'[n].finfo]
                                      [] last'.what = "comment" -> [object[n] EXCEPT !.comment = object'[n].comment]
                                      [] OTHER -> object[n]
                    /\ object'[n].kind # object[n].kind => last'.call = "create"
          /\ stray' # stray => <<last'.call, last'.what>> \in
               {<<"creat", "comment">>} \cup {"symlink", "rename"} \X {"resource", "finderinfo", "comment"} ]_vars
  BY Zenon DEF ChangesOne, AstrayChange, NamedChange, ForkOf, OnlyContents, StrayIsUncaught
<1> QED
  BY <1>1, <1>2, MetadataTypes, ForksAreTheHandles, PTL DEF Spec, OnlyItsMetadata

-----------------------------------------------------------------------------
(* The listing *)

LEMMA LeastOf ==
  ASSUME NEW S, S \subseteq Nat, S # {}
  PROVE  \E x \in S : \A y \in S : x <= y
<1> DEFINE R == OpToRel(<, Nat)
<1>1. PICK x \in S : \A y \in S : ~ (<<y, x>> \in R)
  <2>1. IsWellFoundedOn(R, Nat)
    BY NatLessThanWellFounded
  <2> HIDE DEF R
  <2> QED
    BY <2>1, WFMin
<1>2. \A y \in S : ~(y < x)
  BY <1>1 DEF OpToRel
<1> QED
  BY <1>2

LEMMA GreatestOf ==
  ASSUME NEW n \in Nat, NEW S, S \subseteq 1..n, S # {}
  PROVE  \E x \in S : \A y \in S : y <= x
<1> DEFINE T == {n - x : x \in S}
<1>1. T \subseteq Nat /\ T # {}
  <2>1. \A x \in S : n - x \in Nat
    OBVIOUS
  <2>2. PICK x : x \in S
    OBVIOUS
  <2>3. n - x \in T
    BY <2>2
  <2> QED
    BY <2>1, <2>3
<1>2. PICK z \in T : \A y \in T : z <= y
  <2> HIDE DEF T
  <2> QED
    BY <1>1, LeastOf
<1>3. PICK x \in S : z = n - x
  OBVIOUS
<1>4. \A y \in S : n - x <= n - y
  BY <1>2, <1>3
<1> QED
  BY <1>4

LEMMA EntriesFinite == IsFiniteSet(Entries) /\ Cardinality(Entries) \in Nat
<1>1. Entries \in SUBSET Names
  BY DEF Entries
<1>2. IsFiniteSet(Entries)
  BY <1>1, AppleDoubleConstants, FS_Subset
<1> QED
  BY <1>2, FS_CardinalityType

\* The server's listing has every entry, once.
LEMMA AllEntries ==
  ASSUME NEW s \in SetToSeqs(Entries)
  PROVE  s \in Seq(Entries) /\ ToSet(s) = Entries
<1> DEFINE D == 1..Cardinality(Entries)
<1>1. IsFiniteSet(Entries) /\ Cardinality(Entries) \in Nat
  BY EntriesFinite
<1>2. s \in [D -> Entries] /\ \A i, j \in D : i # j => s[i] # s[j]
  BY DEF SetToSeqs
<1>3. s \in Seq(Entries) /\ DOMAIN s = D
  BY <1>1, <1>2, SeqDef
<1>4. s \in Injection(D, Entries)
  BY <1>2 DEF Injection, IsInjective
<1>5. Cardinality(D) = Cardinality(Entries)
  <2>1. Cardinality(D) = IF 1 > Cardinality(Entries) THEN 0 ELSE Cardinality(Entries) - 1 + 1
    BY <1>1, FS_Interval
  <2> QED
    BY <1>1, <2>1
<1> HIDE DEF D
<1>6. s \in Surjection(D, Entries)
  BY <1>1, <1>4, <1>5, FS_Injection
<1>7. \A n \in Entries : \E i \in D : s[i] = n
  BY <1>6 DEF Surjection
<1> QED
  BY <1>2, <1>3, <1>7 DEF ToSet

\* What remains of the server's listing has resource forks only, and is all of it
\* if nothing was removed.
LEMMA Remaining ==
  ASSUME NEW s \in Seq(Entries)
  PROVE  /\ \A n \in ToSet(AfterLastRemoved(s)) : n \in Entries /\ HasFork(n)
         /\ (\A i \in 1..Len(s) : HasFork(s[i])) => AfterLastRemoved(s) = s
<1> DEFINE gone == {i \in 1 .. Len(s) : ~HasFork(s[i])}
<1>1. Len(s) \in Nat /\ DOMAIN s = 1..Len(s)
  OBVIOUS
<1>2. CASE gone = {}
  <2>1. AfterLastRemoved(s) = s
    BY <1>2 DEF AfterLastRemoved
  <2> QED
    BY <1>1, <1>2, <2>1 DEF ToSet
<1>3. CASE gone # {}
  <2> DEFINE k == CHOOSE i \in gone : \A j \in gone : j <= i
             r == SubSeq(s, 1 + k, Len(s))
  <2>1. k \in gone /\ \A j \in gone : j <= k
    <3>1. gone \subseteq 1..Len(s)
      OBVIOUS
    <3> HIDE DEF gone
    <3> QED
      BY <1>1, <1>3, <3>1, GreatestOf
  <2>2. k \in 1..Len(s) /\ \A i \in 1..Len(s) : i > k => HasFork(s[i])
    BY <1>1, <2>1
  <2>3. AfterLastRemoved(s) = r
    BY <1>3 DEF AfterLastRemoved
  <2>8. ~(\A i \in 1..Len(s) : HasFork(s[i]))
    BY <1>3
  <2> HIDE DEF k
  <2> HIDE DEF gone
  <2>9. k \in Nat /\ k > 0 /\ k <= Len(s)
    BY <1>1, <2>2
  <2>4. \A i \in 1 + k..Len(s) : s[i] \in Entries
    BY <1>1, <2>2, ElementOfSeq
  <2>5. /\ r \in Seq(Entries)
        /\ Len(r) = IF 1 + k <= Len(s) THEN Len(s) - (1 + k) + 1 ELSE 0
        /\ \A i \in 1..(Len(s) - (1 + k) + 1) : r[i] = s[1 + k + i - 1]
    BY <1>1, <2>2, <2>4, SubSeqProperties
  <2> HIDE DEF r
  <2>6. ASSUME NEW i \in DOMAIN r
        PROVE  r[i] \in Entries /\ HasFork(r[i])
    <3>1. i \in 1..Len(r) /\ Len(r) \in Nat
      BY <2>5
    <3>2. i \in 1..(Len(s) - (1 + k) + 1)
      <4>1. Len(r) > 0
        BY <3>1
      <4>2. Len(r) = Len(s) - (1 + k) + 1
        BY <2>5, <4>1
      <4> QED
        BY <3>1, <4>2
    <3>3. k + i > k /\ k + i \in 1..Len(s) /\ 1 + k + i - 1 = k + i
      BY <1>1, <2>9, <3>2
    <3>4. r[i] = s[k + i]
      BY <2>5, <3>2, <3>3
    <3> QED
      BY <2>2, <3>3, <3>4, ElementOfSeq
  <2>7. \A n \in ToSet(r) : n \in Entries /\ HasFork(n)
    BY <2>6 DEF ToSet
  <2> QED
    BY <2>3, <2>7, <2>8
<1> QED
  BY <1>2, <1>3

\* What a listing is made of: the resource forks, and those whose Finder infos and
\* comments follow
IsListing(l, rs, shownForks, info) ==
  /\ l.done /\ l.refused = rs
  /\ l.shown = {Path(n, "") : n \in shownForks} \cup {Path(n, ".finderinfo") : n \in info}
  /\ \A n \in l.comments : n \in info /\ object[n].comment # 0

LEMMA PathsDiffer ==
  /\ \A n, m : Path(n, "") # Path(m, ".finderinfo")
  /\ \A n, m, x : Path(n, x) = Path(m, x) => n = m
<1>1. ASSUME NEW n, NEW m PROVE Path(n, "") # Path(m, ".finderinfo")
  <2>1. Path(n, "").suffix = "" /\ Path(m, ".finderinfo").suffix = ".finderinfo"
    BY DEF Path
  <2> QED
    BY <2>1
<1>2. ASSUME NEW n, NEW m, NEW x, Path(n, x) = Path(m, x) PROVE n = m
  <2>1. Path(n, x).name = n /\ Path(m, x).name = m
    BY DEF Path
  <2> QED
    BY <1>2, <2>1
<1> QED
  BY <1>1, <1>2

LEMMA ReaddirLists ==
  ASSUME TypeOK, appledouble_readdir
  PROVE  \/ listing'.shown = {} /\ listing'.comments = {} /\ listing'.refused = {"enumerate"}
         \/ \E shownForks, info, rs :
              /\ IsListing(listing', rs, shownForks, info)
              /\ \A n \in shownForks : n \in Entries /\ HasFork(n)
              /\ info \in {{}, Entries}
              /\ (\A n \in Entries : HasFork(n)) => shownForks = Entries /\ info = Entries
<1>1. CASE Listed({}, {}, {"enumerate"})
  BY <1>1 DEF Listed
<1>2. ASSUME NEW s \in SetToSeqs(Entries), NEW rs, NEW info, NEW comments,
             info = IF s # << >> /\ ~HasFork(Last(s)) THEN {} ELSE Entries,
             \A n \in comments : n \in info /\ get_comment_size(n) # 0,
             Listed({Path(n, "") : n \in ToSet(AfterLastRemoved(s))}
                      \cup {Path(n, ".finderinfo") : n \in info}, comments, rs)
      PROVE  \E shownForks, inf, r :
              /\ IsListing(listing', r, shownForks, inf)
              /\ \A n \in shownForks : n \in Entries /\ HasFork(n)
              /\ inf \in {{}, Entries}
              /\ (\A n \in Entries : HasFork(n)) => shownForks = Entries /\ inf = Entries
  <2> DEFINE shown == ToSet(AfterLastRemoved(s))
  <2>1. s \in Seq(Entries) /\ ToSet(s) = Entries
    BY AllEntries
  <2>2. /\ \A n \in shown : n \in Entries /\ HasFork(n)
        /\ (\A i \in 1..Len(s) : HasFork(s[i])) => AfterLastRemoved(s) = s
    BY <2>1, Remaining
  <2>3. \A i \in 1..Len(s) : s[i] \in Entries
    BY <2>1
  <2>4. s # << >> => Last(s) \in Entries
    BY <2>1, <2>3, EmptySeq DEF Last
  <2>5. (\A n \in Entries : HasFork(n)) => shown = Entries /\ info = Entries
    BY <1>2, <2>1, <2>2, <2>3, <2>4
  <2>6. IsListing(listing', rs, shown, info)
    <3>1. /\ listing'.done /\ listing'.refused = rs /\ listing'.comments = comments
          /\ listing'.shown = {Path(n, "") : n \in shown} \cup {Path(n, ".finderinfo") : n \in info}
      BY <1>2 DEF Listed
    <3> QED
      BY <1>2, <3>1 DEF IsListing, get_comment_size, afp_getcomment
  <2>7. info \in {{}, Entries}
    BY <1>2
  <2> HIDE DEF shown
  <2> QED
    BY <2>2, <2>5, <2>6, <2>7
<1>3. CASE ~Listed({}, {}, {"enumerate"})
  <2>1. PICK s \in SetToSeqs(Entries), rs \in {{}, {"opendt"}} :
          LET info == IF s # << >> /\ ~HasFork(Last(s)) THEN {} ELSE Entries
          IN  Listed({Path(n, "") : n \in ToSet(AfterLastRemoved(s))}
                       \cup {Path(n, ".finderinfo") : n \in info},
                     {n \in info : dt' /\ get_comment_size(n) # 0}, rs)
    BY <1>3, Zenon DEF appledouble_readdir
  <2>2. PICK info : info = IF s # << >> /\ ~HasFork(Last(s)) THEN {} ELSE Entries
    OBVIOUS
  <2>3. PICK comments : comments = {n \in info : dt' /\ get_comment_size(n) # 0}
    OBVIOUS
  <2>4. \A n \in comments : n \in info /\ get_comment_size(n) # 0
    BY <2>3
  <2>5. Listed({Path(n, "") : n \in ToSet(AfterLastRemoved(s))}
                 \cup {Path(n, ".finderinfo") : n \in info}, comments, rs)
    BY <2>1, <2>2, <2>3, Zenon
  <2> QED
    BY <1>2, <2>2, <2>4, <2>5
<1> QED
  BY <1>1, <1>3

LEMMA ListingFollows ==
  ASSUME NEW l, NEW rs, NEW shownForks, NEW info, IsListing(l, rs, shownForks, info),
         \A n \in shownForks : n \in Entries /\ HasFork(n), info \in {{}, Entries},
         (\A n \in Entries : HasFork(n)) => shownForks = Entries /\ info = Entries
  PROVE  /\ \A n \in Names : Path(n, "") \in l.shown => HasFork(n)
         /\ (\A n \in Entries : HasFork(n)) =>
              \A n \in Entries : {Path(n, ""), Path(n, ".finderinfo")} \subseteq l.shown
         /\ \A n \in l.comments : object[n].comment # 0 /\ Path(n, ".finderinfo") \in l.shown
         /\ {n \in Names : Path(n, ".finderinfo") \in l.shown} \in {{}, Entries}
<1>1. l.shown = {Path(n, "") : n \in shownForks} \cup {Path(n, ".finderinfo") : n \in info}
  BY DEF IsListing
<1>2. ASSUME NEW n PROVE Path(n, "") \in l.shown <=> n \in shownForks
  BY <1>1, PathsDiffer
<1>3. ASSUME NEW n PROVE Path(n, ".finderinfo") \in l.shown <=> n \in info
  BY <1>1, PathsDiffer
<1>4. Entries \subseteq Names
  BY DEF Entries
<1>5. {n \in Names : Path(n, ".finderinfo") \in l.shown} = info
  BY <1>3, <1>4
<1> QED
  BY <1>2, <1>3, <1>5 DEF IsListing

\* Only a listing leaves a listing.
LEMMA NothingListed ==
  ASSUME TypeOK, Next, ~appledouble_readdir
  PROVE  listing' = NoListing
<1>1. \A rs : Quiet(rs) => listing' = NoListing
  BY DEF Quiet
<1>2. \A a, c, what, n, parts, val, rs : CallBy(a, c, what, n, parts, val, rs) => listing' = NoListing
  BY DEF CallBy
<1>3. CASE Opens
  <2>1. ASSUME NEW b \in Blocks, NEW p \in Paths, NEW flag \in Flags, appledouble_open(b, p, flag)
        PROVE  listing' = NoListing
    <3>1. p.name \in Names
      BY <2>1, OpenedNames
    <3>2. CASE OpenResource(b, p.name, flag)
      BY <3>1, <3>2, OpenDoes DEF OpenResource, ForkKinds, Said
    <3>3. CASE OpenFinderInfo(b, p.name) \/ OpenComment(b, p.name)
      BY <1>1, <3>3, Zenon DEF OpenFinderInfo, OpenComment
    <3> QED
      BY <2>1, <3>2, <3>3, Zenon DEF appledouble_open
  <2>2. ASSUME NEW b \in Blocks, NEW n \in Names, NEW flag \in Flags, afp_ml_open(b, n, flag)
        PROVE  listing' = NoListing
    BY <2>2, OpenDoes DEF afp_ml_open, ForkKinds, Said
  <2> QED
    BY <1>3, <2>1, <2>2 DEF Opens
<1>4. CASE Closes \/ \E b \in Blocks : appledouble_read(b)
  BY <1>1, <1>4, Zenon DEF Closes, appledouble_close, afp_ml_close, CloseHandle,
                           appledouble_read, ReadResource, ReadComment
<1>5. CASE Writes
  <2>1. ASSUME NEW b \in Blocks, NEW parts, NEW v, appledouble_write(b, parts, v)
        PROVE  listing' = NoListing
    <3>1. CASE WriteResource(b, v)
      BY <1>2, <3>1, Zenon DEF WriteResource
    <3>2. CASE WriteComment(b, v)
      BY <1>1, <1>2, <3>2, Zenon DEF WriteComment, Call
    <3>3. CASE WriteFinderInfo(b, parts, v)
      BY <1>1, <1>2, <3>3, Zenon DEF WriteFinderInfo, Call
    <3>4. CASE WriteMissing(b)
      BY <1>1, <3>4, Zenon DEF WriteMissing
    <3> QED
      BY <2>1, <3>1, <3>2, <3>3, <3>4, Zenon DEF appledouble_write
  <2>2. ASSUME NEW b \in Blocks, NEW v, WriteData(b, v) PROVE listing' = NoListing
    BY <1>2, <2>2, Zenon DEF WriteData
  <2> QED
    BY <1>5, <2>1, <2>2, Zenon DEF Writes
<1>6. CASE \E p \in Paths : appledouble_truncate(p)
  BY <1>6, TruncateDoes DEF Said
<1>7. CASE Other
  BY <1>7, OtherSays DEF Other, OtherOf, Said
<1> QED
  BY <1>3, <1>4, <1>5, <1>6, <1>7, Calls

\* A listing of .AppleDouble by appledouble_readdir() of lib/resource.c shows no
\* resource fork that is not there, and all of them if none had to be removed.
THEOREM ListingsAreRight == Spec => []ListingIsRight
<1>1. Init => ListingIsRight
  BY DEF Init, ListingIsRight, NoListing
<1>2. TypeOK /\ ListingIsRight /\ [Next]_vars => ListingIsRight'
  <2> SUFFICES ASSUME TypeOK, ListingIsRight, [Next]_vars PROVE ListingIsRight'
    OBVIOUS
  <2>1. CASE appledouble_readdir
    <3>1. object' = object /\ Entries' = Entries /\ \A n : HasFork(n)' <=> HasFork(n)
      BY <2>1 DEF appledouble_readdir, server, Entries, HasFork
    <3>2. CASE listing'.shown = {} /\ listing'.comments = {} /\ listing'.refused = {"enumerate"}
      <4>1. ~(listing'.refused \subseteq {"opendt"})
        BY <3>2
      <4>2. {n \in Names : Path(n, ".finderinfo") \in listing'.shown} = {}
        BY <3>2
      <4> QED
        BY <3>2, <4>1, <4>2 DEF ListingIsRight
    <3>3. CASE \E shownForks, info, rs :
              /\ IsListing(listing', rs, shownForks, info)
              /\ \A n \in shownForks : n \in Entries /\ HasFork(n)
              /\ info \in {{}, Entries}
              /\ (\A n \in Entries : HasFork(n)) => shownForks = Entries /\ info = Entries
      <4>1. PICK l : l = listing'
        OBVIOUS
      <4>2. /\ \A n \in Names : Path(n, "") \in l.shown => HasFork(n)
            /\ (\A n \in Entries : HasFork(n)) =>
                 \A n \in Entries : {Path(n, ""), Path(n, ".finderinfo")} \subseteq l.shown
            /\ \A n \in l.comments : object[n].comment # 0 /\ Path(n, ".finderinfo") \in l.shown
            /\ {n \in Names : Path(n, ".finderinfo") \in l.shown} \in {{}, Entries}
        BY <3>3, <4>1, ListingFollows
      <4> QED
        BY <3>1, <4>1, <4>2 DEF ListingIsRight
    <3> QED
      BY <2>1, <3>2, <3>3, ReaddirLists
  <2>2. CASE listing' = NoListing
    BY <2>2 DEF ListingIsRight, NoListing
  <2>3. CASE UNCHANGED vars
    BY <2>3 DEF vars, server, ListingIsRight, Entries, HasFork
  <2>4. CASE Next /\ ~appledouble_readdir
    BY <2>2, <2>4, NothingListed
  <2> QED
    BY <2>1, <2>3, <2>4
<1> QED
  BY <1>1, <1>2, MetadataTypes, PTL DEF Spec
=============================================================================
