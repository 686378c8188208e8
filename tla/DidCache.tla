------------------------------ MODULE DidCache ------------------------------
(***************************************************************************)
(* How libafpclient turns the directory part of a path into an AFP         *)
(* directory id (lib/did.c): get_dirid() with its cache of ids, used by    *)
(* several threads at once, on a volume whose tree changes under it.       *)
(*                                                                         *)
(* A directory path is the sequence of its names.  The cache is the list   *)
(* of entries, newest first; everything did_cache_mutex protects is one    *)
(* step.  Time is counted in seconds, and a call takes less than one: no   *)
(* second passes while a thread is inside get_dirid().                     *)
(***************************************************************************)
EXTENDS Integers, Sequences, SequencesExt

CONSTANTS
  Threads,    \* threads that call get_dirid()
  Dids,       \* the ids the server gives to directories
  Root,       \* AFP_ROOT_DID
  Names,      \* names of directories
  Depth,      \* bound: directories are nested this deep
  Timeout,    \* seconds an entry is good for, 10 in the code
  MaxTime,    \* bound: seconds in a behaviour
  MaxChanges, \* bound: changes to the tree
  Null        \* no directory

ASSUME DidConstants ==
  /\ Depth \in Nat \ {0} /\ Timeout \in Nat /\ MaxTime \in Nat /\ MaxChanges \in Nat
  /\ Null \notin Dids \cup {Root}

Paths == UNION {[1..k -> Names] : k \in 1..Depth}

\* Where a directory is: in which directory and by what name
Places == (Dids \cup {Root}) \X Names

VARIABLES
  tree,     \* the server's directories: their places, Null if there is none
  cache,    \* volume->did_cache_base and the entries behind it
  freed,    \* behind the last of them comes the memory of freed entries
  now,      \* the clock
  changed,  \* history: when the tree last changed
  changes,  \* how often it did
  th,       \* per thread: program counter and locals of get_dirid()
  races     \* history: which of RaceKinds have occurred

world == <<freed, now, changed, changes>>
vars == <<tree, cache, world, th, races>>

\* The server did not say what a component is, and the contents of fi were
\* used all the same; the first entry of the cache had changed between the
\* reading of it and the locking of the cache, and the new one was removed; two
\* threads looked up a path at once and both added it; entries that were freed with
\* an earlier mount of the volume were read, or freed again.
RaceKinds == {"no_answer", "stale_prev", "added_twice", "freed_entries"}

Entry == [path : Paths, did : Dids \cup {Root}, time : 0..MaxTime]

PCs == {"idle", "base", "find", "ask", "add", "done", "invalidate"}

\* k: the components of path dealt with; did: the directory they lead to;
\* isdir and fileid: the caller's struct afp_file_info, fileid Null as long as
\* nothing has been written to it; moved: did_cache_base is not what was read.
Frame == [pc : PCs, path : Paths \cup {<<>>}, k : 0..Depth, did : Dids \cup {Root, Null},
          isdir : BOOLEAN, fileid : Dids \cup {Root, Null}, time : 0..MaxTime,
          moved : BOOLEAN]

Idle == [pc |-> "idle", path |-> <<>>, k |-> 0, did |-> Null, isdir |-> FALSE,
         fileid |-> Null, time |-> 0, moved |-> FALSE]

\* A lookup has a path and is within it, and asks below a directory for what
\* will be one.
Located(f) ==
  /\ f.pc = "idle" => f = Idle
  /\ f.pc # "idle" => f.path \in Paths
  /\ f.pc \in {"base", "find"} => f.k \in 1..Len(f.path)
  /\ f.pc \in {"ask", "add"} => f.k < Len(f.path) /\ f.did # Null
  /\ f.pc = "add" => f.fileid # Null

TypeOK ==
  /\ tree \in [Dids -> Places \cup {Null}]
  /\ cache \in Seq(Entry)
  /\ freed \in BOOLEAN
  /\ now \in 0..MaxTime /\ changed \in 0..MaxTime /\ changes \in 0..MaxChanges
  /\ th \in [Threads -> Frame]
  /\ races \subseteq RaceKinds
  /\ \A t \in Threads : Located(th[t])

-----------------------------------------------------------------------------
(* The server's tree *)

\* The directory called n in directory d, in tree t
ChildIn(t, d, n) ==
  IF \E c \in Dids : t[c] = <<d, n>> THEN CHOOSE c \in Dids : t[c] = <<d, n>> ELSE Null

Child(d, n) == ChildIn(tree, d, n)

\* The directory each path leads to, in tree t
Leads(t) ==
  LET to[p \in Paths \cup {<<>>}] ==
        IF p = <<>> THEN Root ELSE ChildIn(t, to[Front(p)], Last(p))
  IN  to

Resolve(p) == Leads(tree)[p]

\* Every directory has one path, no longer than Depth.
ATree(t) ==
  \A d \in Dids : t[d] # Null =>
    Cardinality({p \in Paths : Leads(t)[p] = d}) = 1

Init ==
  /\ tree \in {t \in [Dids -> Places \cup {Null}] : ATree(t)}
  /\ cache = <<>>
  /\ freed = FALSE
  /\ now = 0 /\ changed = 0 /\ changes = 0
  /\ th = [t \in Threads |-> Idle]
  /\ races = {}

\* A directory is made, renamed, or removed: by another client, or by
\* afp_ml_mkdir() and afp_ml_rename(), which leave the cache alone.
Change(d) ==
  /\ changes < MaxChanges
  /\ \E place \in Places \cup {Null} :
       /\ tree' = [tree EXCEPT ![d] = place]
       /\ tree' # tree
       /\ ATree(tree')
  /\ changed' = now /\ changes' = changes + 1
  /\ UNCHANGED <<cache, freed, now, th, races>>

-----------------------------------------------------------------------------
(* The cache *)

At(t, pc) == th[t].pc = pc

\* t goes on as frame f and the cache becomes c; threads that have read the
\* first entry before it changed hold a pointer to something else.
Proceed(t, f, c) ==
  /\ cache' = c
  /\ th' = [u \in Threads |->
              IF u = t THEN f
              ELSE IF th[u].pc = "find" /\ (c = <<>> \/ cache = <<>> \/ c[1] # cache[1])
              THEN [th[u] EXCEPT !.moved = TRUE] ELSE th[u]]

\* mutant of Expired: entries are good for ever
NeverExpired(e) == e.time > now

Expired(e) == now > e.time + Timeout

\* find_dirid_by_fullname(): one pass removes what has expired as far as the
\* entry it looks for.  An expired entry next to the first takes the first
\* with it, and the entry after an expired first one is not looked at.
Visit(acc, e, path) ==
  CASE acc.stop -> [acc EXCEPT !.kept = Append(@, e)]
    [] ~acc.stop /\ acc.skip -> [acc EXCEPT !.kept = Append(@, e), !.skip = FALSE]
    [] ~acc.stop /\ ~acc.skip /\ Expired(e) ->
         IF acc.first THEN [acc EXCEPT !.kept = <<>>, !.skip = TRUE, !.stop = e.path = path]
         ELSE acc
    [] OTHER ->
         [acc EXCEPT !.kept = Append(@, e), !.first = acc.kept = <<>>,
                     !.stop = e.path = path,
                     !.did = IF e.path = path THEN e.did ELSE Null]

Search(path) ==
  LET pass[i \in 0..Len(cache)] ==
        IF i = 0
        THEN [kept |-> <<>>, first |-> TRUE, skip |-> FALSE, stop |-> FALSE, did |-> Null]
        ELSE Visit(pass[i - 1], cache[i], path)
  IN  pass[Len(cache)]

-----------------------------------------------------------------------------
(* get_dirid() by thread t, for a file in the directory with path p *)

\* A file in the root directory needs no search.
Start(t, p) ==
  /\ At(t, "idle")
  /\ Proceed(t, [Idle EXCEPT !.pc = "base", !.path = p, !.k = Len(p)], cache)
  /\ UNCHANGED <<tree, world, races>>

\* prev = volume->did_cache_base, before the lock
ReadBase(t) ==
  /\ At(t, "base")
  /\ Proceed(t, [th[t] EXCEPT !.pc = "find", !.moved = FALSE], cache)
  /\ UNCHANGED <<tree, world, races>>

\* The longest prefix of the path in the cache, each searched for by a pass
\* of its own; the whole path needs no more.
Find(t) ==
  LET k == th[t].k
      found == Search(SubSeq(th[t].path, 1, k))
  IN
  /\ At(t, "find")
  /\ IF th[t].moved /\ cache # <<>> /\ Expired(cache[1])
     THEN /\ races' = races \cup {"stale_prev"}
          /\ Proceed(t, Idle, cache)
     ELSE IF freed /\ ~found.stop
     THEN /\ races' = races \cup {"freed_entries"}
          /\ Proceed(t, Idle, cache)
     ELSE /\ UNCHANGED races
          /\ \/ /\ found.did # Null
                /\ Proceed(t, [th[t] EXCEPT !.did = found.did,
                                            !.pc = IF k = Len(th[t].path) THEN "done" ELSE "ask"],
                           found.kept)
             \/ /\ found.did = Null /\ k > 1
                /\ Proceed(t, [th[t] EXCEPT !.pc = "base", !.k = k - 1], found.kept)
             \/ /\ found.did = Null /\ k = 1
                /\ Proceed(t, [th[t] EXCEPT !.pc = "ask", !.k = 0, !.did = Root], found.kept)
  /\ UNCHANGED <<tree, world>>

\* afp_getfiledirparms() for the next component.  When the server does not
\* answer with a directory, nothing is written to fi, and its contents, of the
\* component before or of the stack, are taken for the answer.
Ask(t) ==
  LET answer == Child(th[t].did, th[t].path[th[t].k + 1])
      next(isdir, id) ==
        IF isdir THEN [th[t] EXCEPT !.pc = "add", !.isdir = TRUE, !.fileid = id, !.time = now]
        ELSE [th[t] EXCEPT !.pc = "done"]
  IN
  /\ At(t, "ask")
  /\ \/ /\ answer # Null
        /\ Proceed(t, next(TRUE, answer), cache)
        /\ UNCHANGED races
     \/ /\ races' = races \cup {"no_answer"}
        /\ IF th[t].fileid = Null
           THEN \E isdir \in BOOLEAN, id \in Dids : Proceed(t, next(isdir, id), cache)
           ELSE Proceed(t, next(th[t].isdir, th[t].fileid), cache)
  /\ UNCHANGED <<tree, world>>

\* add_did_cache_entry() for the path as far as this component
Add(t) ==
  LET k == th[t].k + 1 IN
  /\ At(t, "add")
  /\ Proceed(t, [th[t] EXCEPT !.pc = IF k = Len(th[t].path) THEN "done" ELSE "ask",
                              !.k = k, !.did = th[t].fileid],
             <<[path |-> SubSeq(th[t].path, 1, k), did |-> th[t].fileid,
                time |-> th[t].time]>> \o cache)
  /\ races' = races \cup {x \in {"added_twice"} :
                           \E e \in ToSet(cache) : e.path = SubSeq(th[t].path, 1, k) /\ ~Expired(e)}
  /\ UNCHANGED <<tree, world>>

\* The caller has used the directory id.
Return(t) ==
  /\ At(t, "done")
  /\ Proceed(t, Idle, cache)
  /\ UNCHANGED <<tree, world, races>>

\* afp_ml_rmdir(): the server has deleted the directory
Rmdir(t, p) ==
  /\ At(t, "idle")
  /\ changes < MaxChanges
  /\ Resolve(p) # Null
  /\ \A n \in Names : Child(Resolve(p), n) = Null
  /\ tree' = [tree EXCEPT ![Resolve(p)] = Null]
  /\ changed' = now /\ changes' = changes + 1
  /\ Proceed(t, [Idle EXCEPT !.pc = "invalidate", !.path = p], cache)
  /\ UNCHANGED <<freed, now, races>>

\* mutant of Invalidate: the entry stays
InvalidateNothing(t) ==
  /\ At(t, "invalidate")
  /\ Proceed(t, Idle, cache)
  /\ UNCHANGED <<tree, world, races>>

\* remove_did_entry(): the first entry for the path
Invalidate(t) ==
  LET hits == {i \in 1..Len(cache) : cache[i].path = th[t].path} IN
  /\ At(t, "invalidate")
  /\ Proceed(t, Idle,
             IF hits = {} THEN cache
             ELSE RemoveAt(cache, CHOOSE i \in hits : \A j \in hits : i <= j))
  /\ races' = races \cup {x \in {"freed_entries"} : freed /\ hits = {}}
  /\ UNCHANGED <<tree, world>>

\* free_entire_did_cache(), when the volume is unmounted: the entries are freed, and
\* did_cache_base goes on pointing at them.  What follows are lookups of
\* threads that were at it, and of those that attach the volume again.
Unmount ==
  /\ cache' = <<>>
  /\ freed' = (freed \/ cache # <<>>)
  /\ th' = [t \in Threads |-> IF At(t, "find") /\ cache # <<>> THEN [th[t] EXCEPT !.moved = TRUE]
                              ELSE th[t]]
  /\ races' = races \cup {x \in {"freed_entries"} : freed}
  /\ UNCHANGED <<tree, now, changed, changes>>

Tick ==
  /\ now < MaxTime
  /\ \A t \in Threads : At(t, "idle")
  /\ now' = now + 1
  /\ UNCHANGED <<tree, cache, freed, changed, changes, th, races>>

Next ==
  \/ \E t \in Threads :
       \/ \E p \in Paths : Start(t, p) \/ Rmdir(t, p)
       \/ ReadBase(t) \/ Find(t) \/ Ask(t) \/ Add(t) \/ Return(t) \/ Invalidate(t)
  \/ \E d \in Dids : Change(d)
  \/ Unmount
  \/ Tick

Spec == Init /\ [][Next]_vars

-----------------------------------------------------------------------------
(* Properties *)

\* What the cache says is believed for Timeout seconds, and through it what
\* was looked up below it for as long again: once the tree has not changed for
\* that long per level, get_dirid() is right about it, however renames, other
\* clients' changes and the threads' own lookups were interleaved before.
StaleForABoundedTime ==
  races = {} =>
    \A t \in Threads :
      At(t, "done") /\ now > changed + Depth * Timeout => th[t].did = Resolve(th[t].path)

\* remove_did_entry() takes out one entry, the first for the path.  It is enough:
\* once it has, no entry for the removed directory's path is left that a lookup
\* would believe, whichever threads have looked the path up before.
NotCachedAfterRmdir ==
  [][\A t \in Threads :
       races = {} /\ At(t, "invalidate") /\ At(t, "idle")'
       => \A e \in ToSet(cache') : e.path # th[t].path \/ Expired(e)]_vars

\* did.c of get_dirid(): "It *always* gets the parent did."
AlwaysTheParent == \A t \in Threads : At(t, "done") => th[t].did = Resolve(th[t].path)
=============================================================================
