---------------------------- MODULE AppleDouble ----------------------------
(***************************************************************************)
(* The metadata of the files of one directory as files of their own        *)
(* (lib/resource.c and the calls of it in lib/midlevel.c): resource forks  *)
(* as .AppleDouble/name, Finder info as .AppleDouble/name.finderinfo,      *)
(* comments as .AppleDouble/name.comment, and the server's icon.  The data  *)
(* forks of the same files are opened, written and closed beside them, as   *)
(* the server numbers all forks in one table.                               *)
(*                                                                         *)
(* Each call is one step; what comes between two requests of a call is the *)
(* business of Files.  The server may refuse any request.                  *)
(***************************************************************************)
EXTENDS Integers, Sequences, FiniteSets, SequencesExt

CONSTANTS
  Names,       \* files and directories of the directory
  Blocks,      \* handles, open at once
  ForkIds,     \* the server's fork reference numbers
  Vals,        \* what is written
  Shown,       \* VOLUME_EXTRA_FLAGS_SHOW_APPLEDOUBLE
  Opened,      \* bound: what is opened, of which names
  FirstData,   \* bound: what the data forks hold at first
  MaxCalls,    \* bound: calls that change something
  MaxRefusals, \* bound: calls of which requests are refused
  Null

ForkKinds == {"resource", "data"}
Fork == [name : Names, part : ForkKinds]

ASSUME AppleDoubleConstants ==
  /\ Shown \in BOOLEAN /\ FirstData \subseteq Vals \cup {0} /\ MaxCalls \in Nat /\ MaxRefusals \in Nat /\ 0 \notin Vals
  /\ IsFiniteSet(Names) /\ Null \notin Names \cup Blocks \cup ForkIds \cup Fork

VARIABLES
  object,  \* per name: its kind, and its metadata on the server
  forks,   \* the server's open forks: the name and fork of each, or Null
  stray,   \* whether a call made an object in a directory nobody named
  handle,  \* per block: the struct of an open file
  dt,      \* volume->dtrefnum # 0
  last,    \* the last step, if it changed something
  listing, \* what the last step showed, if it listed .AppleDouble
  calls, refusals, \* so far: calls that changed something, refused requests
  lost,    \* history: blocks whose fork was closed by a call on another
  unclosed \* history: open forks that were forgotten

server == <<object, forks, stray>>
client == <<handle, dt>>
vars == <<server, client, last, listing, calls, refusals, lost, unclosed>>
history == <<lost, unclosed>>

Parts == 1 .. 2 \* halves of the 32 bytes of Finder info

(* Paths: in the directory's .AppleDouble, that itself, the icon. *)
MetaSuffixes == {"", ".finderinfo", ".comment"}
Path(n, s) == [in |-> ".AppleDouble", name |-> n, suffix |-> s]
DoubleDir == [in |-> "/", name |-> ".AppleDouble", suffix |-> ""]
ServerIcon == [in |-> "/", name |-> ".servericon", suffix |-> ""]
Paths == {Path(n, s) : n \in Names, s \in MetaSuffixes} \cup {DoubleDir, ServerIcon}

\* What a path stands for; "none" is the file of that path itself.
extra_translate(p) ==
  CASE ~Shown -> "none"
    [] Shown /\ p = ServerIcon -> "icon"
    [] Shown /\ p = DoubleDir -> "appledouble"
    [] Shown /\ p.in = ".AppleDouble" ->
         (CASE p.suffix = ".finderinfo" -> "finderinfo" [] p.suffix = ".comment" -> "comment"
            [] OTHER -> "resource")
    [] OTHER -> "none"

----------------------------------------------------------------------------
NoMeta == [kind |-> "none", contents |-> [w \in ForkKinds |-> 0],
           finfo |-> [i \in Parts |-> 0], comment |-> 0]
NoHandle == [what |-> "none", name |-> Null, fork |-> Null, finfo |-> [i \in Parts |-> 0]]

NoListing == [done |-> FALSE, shown |-> {}, comments |-> {}, refused |-> {}]
NoCall == [call |-> "none", what |-> "none", name |-> Null, parts |-> {}, val |-> 0,
           refused |-> {}, astray |-> FALSE]

Init ==
  /\ object \in [Names -> {[NoMeta EXCEPT !.kind = "dir"], NoMeta} \cup
                          [kind : {"file"}, contents : {[w \in ForkKinds |-> IF w = "data" THEN d ELSE r] :
                                          d \in FirstData, r \in {0} \cup Vals},
                           finfo : {NoMeta.finfo}, comment : {0}]]
  /\ forks = [k \in ForkIds |-> Null] /\ stray = FALSE
  /\ handle = [b \in Blocks |-> NoHandle] /\ dt = FALSE
  /\ listing = NoListing
  /\ last = NoCall
  /\ calls = 0 /\ refusals = 0 /\ lost = {} /\ unclosed = {}

\* The server refuses requests with the replies in rs.
Refused(rs) == IF rs = {} THEN UNCHANGED refusals
               ELSE refusals < MaxRefusals /\ refusals' = refusals + 1

\* A call that changes the server's objects, or whose answer a property is
\* about; astray: its requests name the number of somebody else's fork.
CallBy(astray, c, what, n, parts, val, rs) ==
  /\ calls < MaxCalls /\ calls' = calls + 1 /\ Refused(rs)
  /\ last' = [call |-> c, what |-> what, name |-> n, parts |-> parts, val |-> val,
              refused |-> rs, astray |-> astray]
  /\ listing' = NoListing

Call(c, what, n, parts, val, rs) == CallBy(FALSE, c, what, n, parts, val, rs)
Simply(c, what, n, rs) == Call(c, what, n, {}, 0, rs)

Listed(shown, comments, rs) ==
  /\ Refused(rs) /\ last' = NoCall
  /\ listing' = [done |-> TRUE, shown |-> shown, comments |-> comments, refused |-> rs]

\* Any other call.
Quiet(rs) == last' = NoCall /\ listing' = NoListing /\ Refused(rs) /\ UNCHANGED calls

----------------------------------------------------------------------------
(* Requests. *)

\* FPOpenFork gives n's fork what the number k.
NewFork(k, n, what) ==
  forks[k] = Null /\ forks' = [forks EXCEPT ![k] = [name |-> n, part |-> what]]

CanOpen(n) == object[n].kind = "file" /\ \E k \in ForkIds : forks[k] = Null

\* FPCloseFork of an open fork, on behalf of the blocks in bs, which forget it.
CloseFork(k, bs) ==
  /\ forks' = [forks EXCEPT ![k] = Null] /\ unclosed' = unclosed \ {k}
  /\ lost' = (lost \cup {c \in Blocks : handle[c].fork = k}) \ bs

\* mutant of ll_zero_file: always the length of the data fork
ll_zero_fileData(n, what) == object' = [object EXCEPT ![n].contents["data"] = 0]

ll_zero_file(n, what) == object' = [object EXCEPT ![n].contents[what] = 0]

\* ll_write() goes by the number, and looks at no reply.
ll_write(k, v) ==
  object' = IF forks[k] = Null THEN object
            ELSE [object EXCEPT ![forks[k].name].contents[forks[k].part] = v]

afp_addcomment(n, v) == object' = [object EXCEPT ![n].comment = v]
afp_getcomment(n) == object[n].comment \* 0: kFPItemNotFound
afp_opendt == dt' = TRUE

Fresh(b, what, n) == [handle EXCEPT ![b] =
  [NoHandle EXCEPT !.what = what, !.name = n]]

Held(b, what, n, k) == [handle EXCEPT ![b] =
  [NoHandle EXCEPT !.what = what, !.name = n, !.fork = k]]

----------------------------------------------------------------------------
(* afp_ml_open() of a metadata path: a flag changes nothing but what is said *)
(* of it here.                                                              *)
Flags == {"none", "O_CREAT", "O_TRUNC"}

ll_open(b, what, n, flag) ==
  \/ /\ object[n].kind = "file"
     /\ \E k \in ForkIds :
          /\ NewFork(k, n, what)
          /\ \/ /\ flag # "O_TRUNC" /\ handle' = Held(b, what, n, k)
                /\ Quiet({}) /\ UNCHANGED <<object, history>>
             \/ /\ flag = "O_TRUNC" /\ handle' = Held(b, what, n, k)
                /\ ll_zero_file(n, what)
                /\ Simply("open", what, n, {}) /\ UNCHANGED history
             \/ \* the fork is open, and truncating it fails
                /\ flag = "O_TRUNC" /\ Quiet({"misc"}) /\ unclosed' = unclosed \cup {k}
                /\ UNCHANGED <<object, handle, lost>>
  \/ /\ Quiet(IF CanOpen(n) THEN {"denied"} ELSE {})
     /\ UNCHANGED <<object, forks, handle, history>>
  \/ \* O_CREAT makes the file itself, and opens the fork of it
     /\ flag = "O_CREAT" /\ object[n].kind = "none"
     /\ object' = [object EXCEPT ![n].kind = "file"]
     /\ \/ /\ \E k \in ForkIds : NewFork(k, n, what) /\ handle' = Held(b, what, n, k)
           /\ Simply("create", what, n, {})
        \/ /\ UNCHANGED <<forks, handle>>
           /\ Simply("create", what, n, IF \E k \in ForkIds : forks[k] = Null THEN {"denied"} ELSE {})
     /\ UNCHANGED history

OpenResource(b, n, flag) ==
  handle[b] = NoHandle /\ ll_open(b, "resource", n, flag) /\ UNCHANGED <<stray, dt>>

\* A path that is not of metadata: the data fork.
afp_ml_open(b, n, flag) ==
  <<n, "data">> \in Opened /\ handle[b] = NoHandle /\ ll_open(b, "data", n, flag) /\ UNCHANGED <<stray, dt>>

\* Nobody asks the server whether the file is there.
OpenFinderInfo(b, n) ==
  /\ handle[b] = NoHandle /\ handle' = Fresh(b, "finderinfo", n)
  /\ Quiet({})
  /\ UNCHANGED <<server, dt, history>>

\* Any reply to FPOpenDT but two is as good as kFPNoErr.
OpenComment(b, n) ==
  /\ handle[b] = NoHandle
  /\ \/ handle' = Fresh(b, "comment", n) /\ afp_opendt /\ Quiet({})
     \/ /\ ~dt /\ handle' = Fresh(b, "comment", n) /\ UNCHANGED dt
        /\ Quiet({"denied"})
     \/ ~dt /\ UNCHANGED <<handle, dt>> /\ Quiet({"misc"})
  /\ UNCHANGED <<server, history>>

appledouble_open(b, p, flag) ==
  LET what == extra_translate(p)
  IN  /\ <<p.name, what>> \in Opened
      /\ \/ what = "resource" /\ OpenResource(b, p.name, flag)
         \/ what = "finderinfo" /\ flag = "none" /\ OpenFinderInfo(b, p.name)
         \/ what = "comment" /\ flag = "none" /\ OpenComment(b, p.name)

\* The directory is not opened; the icon's handle holds nothing, reading it
\* gives the server's icon, and writing to it is refused.
Icon(p) == extra_translate(p) \in {"appledouble", "icon"} /\ Quiet({}) /\ UNCHANGED <<server, client, history>>

\* mutant of appledouble_close: a resource fork is closed as the other metadata
appledouble_closeAsPlain(b) ==
  /\ handle[b].what \notin {"none", "data"} /\ handle' = [handle EXCEPT ![b] = NoHandle]
  /\ Quiet({}) /\ lost' = lost \ {b} /\ UNCHANGED <<server, dt, unclosed>>

\* mutant of CloseHandle: the fork is closed when the file is flushed, and the
\* handle is used on
CloseHandleFlushed(b) ==
  /\ forks[handle[b].fork] # Null /\ CloseFork(handle[b].fork, {b})
  /\ Quiet({}) /\ UNCHANGED handle

\* FPCloseFork of the number in the handle; whatever the reply, fuse_release()
\* forgets the handle.  A number that is no longer open is refused.
CloseHandle(b) ==
  LET k == handle[b].fork
  IN  /\ handle' = [handle EXCEPT ![b] = NoHandle]
      /\ \/ forks[k] # Null /\ CloseFork(k, {b}) /\ Quiet({})
         \/ /\ lost' = lost \ {b} /\ UNCHANGED forks
            /\ unclosed' = unclosed \cup {j \in {k} : forks[j] # Null /\ b \notin lost}
            /\ Quiet(IF forks[k] = Null THEN {} ELSE {"misc"})

\* afp_ml_close() and fuse_release().
appledouble_close(b) ==
  /\ \/ handle[b].what = "resource" /\ CloseHandle(b)
     \/ /\ handle[b].what \in {"finderinfo", "comment"}
        /\ handle' = [handle EXCEPT ![b] = NoHandle]
        /\ Quiet({}) /\ UNCHANGED <<forks, history>>
  /\ UNCHANGED <<object, stray, dt>>

afp_ml_close(b) ==
  handle[b].what = "data" /\ CloseHandle(b) /\ UNCHANGED <<object, stray, dt>>

----------------------------------------------------------------------------
(* afp_ml_write(). *)

\* ll_write() is called by appledouble_write() and, as it returns 0, again by
\* afp_ml_write().
WriteResource(b, v) ==
  /\ handle[b].what = "resource" /\ UNCHANGED handle
  /\ \E rs \in SUBSET {"first refused", "second refused"} :
       /\ IF Cardinality(rs) = 2 THEN UNCHANGED object ELSE ll_write(handle[b].fork, v)
       /\ CallBy(b \in lost, "write", "resource", handle[b].name, Parts, v, rs)

\* The data fork is written by afp_ml_write() alone.
WriteData(b, v) ==
  /\ handle[b].what = "data" /\ UNCHANGED <<handle, forks, stray, dt, history>>
  /\ \E rs \in {{}, {"misc"}} :
       /\ IF rs # {} THEN UNCHANGED object ELSE ll_write(handle[b].fork, v)
       /\ CallBy(b \in lost, "write", "data", handle[b].name, Parts, v, rs)

\* mutant of WriteFinderInfo: sends what the handle had before
WriteFinderInfoFetched(b, parts, v) ==
  LET n == handle[b].name
  IN  /\ handle[b].what = "finderinfo" /\ object[n].kind # "none"
      /\ object' = [object EXCEPT ![n].finfo = handle[b].finfo]
      /\ handle' = [handle EXCEPT ![b].finfo = [i \in Parts |-> IF i \in parts THEN v ELSE @[i]]]
      /\ Call("write", "finderinfo", n, parts, v, {})

\* The previous Finder info goes to a structure of its own; what is sent is the
\* handle's, which is zero until the handle is read or written.
WriteFinderInfo(b, parts, v) ==
  LET n == handle[b].name
      new == [i \in Parts |-> IF i \in parts THEN v ELSE handle[b].finfo[i]]
  IN  /\ handle[b].what = "finderinfo" /\ object[n].kind # "none"
      /\ \/ /\ handle' = [handle EXCEPT ![b].finfo = new]
            /\ object' = [object EXCEPT ![n].finfo = new]
            /\ Call("write", "finderinfo", n, parts, v, {})
         \/ UNCHANGED <<object, handle>> /\ Quiet({"first denied"})
         \/ /\ handle' = [handle EXCEPT ![b].finfo = new] /\ UNCHANGED object
            /\ \/ Quiet({"denied"})
               \/ Call("write", "finderinfo", n, parts, v, {"misc"}) \* not looked at

WriteComment(b, v) ==
  LET n == handle[b].name
  IN  /\ handle[b].what = "comment" /\ UNCHANGED handle
      /\ \/ /\ dt /\ object[n].kind # "none" /\ afp_addcomment(n, v)
            /\ Call("write", "comment", n, Parts, v, {})
         \/ UNCHANGED object /\ Quiet({"denied"})

WriteMissing(b) ==
  /\ handle[b].what = "finderinfo" /\ object[handle[b].name].kind = "none"
  /\ Quiet({})
  /\ UNCHANGED <<object, handle>>

appledouble_write(b, parts, v) ==
  /\ \/ parts = Parts /\ (WriteResource(b, v) \/ WriteComment(b, v))
     \/ WriteFinderInfo(b, parts, v) \/ WriteMissing(b)
  /\ UNCHANGED <<forks, stray, dt, history>>

----------------------------------------------------------------------------
(* afp_ml_read(): only what it leaves in the handle. *)

\* The count that ll_read() returns is taken for a flag: a fork of one byte
\* reads as empty, and a longer one is read again.  Forks are longer here.
ReadResource(b) ==
  handle[b].what \in ForkKinds /\ UNCHANGED handle /\ \E rs \in {{}, {"misc"}} : Quiet(rs)

\* The comment's answer, after the handle's Finder info has been refreshed when
\* it is read as such: the case for Finder info has no break.
ReadComment(b) ==
  LET n == handle[b].name
      there == object[n].kind # "none"
      got == IF handle[b].what = "finderinfo" /\ there
             THEN [handle[b] EXCEPT !.finfo = object[n].finfo] ELSE handle[b]
  IN  /\ handle[b].what \in {"finderinfo", "comment"}
      /\ \/ handle' = [handle EXCEPT ![b] = got] /\ Quiet({})
         \/ UNCHANGED handle /\ Quiet({"denied"})

appledouble_read(b) ==
  /\ ReadResource(b) \/ ReadComment(b)
  /\ UNCHANGED <<server, dt, history>>

----------------------------------------------------------------------------
(* afp_ml_truncate(): the fork is opened for reading, and it is the length  *)
(* of the data fork that is set, which a server refuses for a resource fork. *)
(* The structure is on the stack, and nobody looks whether the open was      *)
(* refused: the length is then set, and the fork closed, by the number that  *)
(* the stack has there.                                                      *)
TruncateOpened(n) ==
  /\ object[n].kind = "file" /\ UNCHANGED <<object, lost>>
  /\ \E k \in ForkIds :
       \/ forks[k] = Null /\ Quiet({}) /\ UNCHANGED <<forks, unclosed>>
       \/ NewFork(k, n, "resource") /\ unclosed' = unclosed \cup {k} /\ Quiet({"misc"})

\* The number is k: a data fork is emptied unless the server refuses, and k is
\* closed unless it refuses that.
TruncateOther(n, k) ==
  LET denied == IF CanOpen(n) THEN {"denied"} ELSE {}
  IN  \/ UNCHANGED object /\ CloseFork(k, {}) /\ Quiet(denied)
      \/ /\ forks[k].part = "data" /\ ll_zero_file(forks[k].name, "data")
         /\ \/ CloseFork(k, {}) /\ CallBy(TRUE, "truncate", "resource", n, {}, 0, denied)
            \/ /\ CallBy(TRUE, "truncate", "resource", n, {}, 0, denied \cup {"misc"})
               /\ UNCHANGED <<forks, history>>

appledouble_truncate(p) ==
  LET what == extra_translate(p)
  IN  /\ \/ /\ what = "resource"
            /\ \/ TruncateOpened(p.name)
               \/ \E k \in ForkIds : forks[k] # Null /\ TruncateOther(p.name, k)
               \/ \* the number is of no open fork
                  /\ Quiet(IF CanOpen(p.name) THEN {"denied"} ELSE {})
                  /\ UNCHANGED <<object, forks, history>>
         \/ /\ what \notin {"resource", "none"} /\ Quiet({})
            /\ UNCHANGED <<object, forks, history>>
      /\ UNCHANGED <<stray, client>>

\* A path of the wrong kind reaches the code for plain files, which finds no
\* directory .AppleDouble, and sends the id it has on its stack.
Stray(c, p) ==
  /\ stray' = TRUE /\ Simply(c, extra_translate(p), p.name, {})
  /\ UNCHANGED <<object, forks, client, history>>

\* mutant of CreatHandled: Finder info is not caught
CreatHandledForks == {"resource", "appledouble", "icon"}

CreatHandled == {"resource", "finderinfo", "appledouble", "icon"}

appledouble_creat(p) ==
  LET what == extra_translate(p)
  IN  /\ what # "none"
      /\ \/ /\ what \in CreatHandled
            /\ Quiet({})
            /\ UNCHANGED <<server, client, history>>
         \/ what \notin CreatHandled /\ Stray("creat", p)

\* chmod, unlink, mkdir, readlink, rmdir, chown and utime of metadata.
NotPermitted(p) ==
  /\ extra_translate(p) # "none" /\ Quiet({})
  /\ UNCHANGED <<server, client, history>>

\* appledouble_symlink() is given the link's text, not its path, and nobody
\* calls appledouble_rename().
SymlinkOrRename(p) ==
  /\ p.in = ".AppleDouble" /\ extra_translate(p) # "none"
  /\ \E c \in {"symlink", "rename"} : Stray(c, p)

\* The size of the comment, or an error when there is none.
get_comment_size(n) == afp_getcomment(n)

appledouble_getattr(p) ==
  LET what == extra_translate(p)
      there == p.name \in Names /\ object[p.name].kind # "none"
  IN  /\ what # "none"
      /\ \/ /\ what = "comment" /\ there /\ get_comment_size(p.name) # 0 /\ afp_opendt
            /\ Quiet({})
         \/ /\ what = "comment" /\ UNCHANGED dt
            /\ Quiet(IF there /\ get_comment_size(p.name) # 0 THEN {"denied"} ELSE {})
         \/ what # "comment" /\ UNCHANGED dt /\ Quiet({})
      /\ UNCHANGED <<server, handle, history>>

----------------------------------------------------------------------------
(* afp_ml_readdir() of .AppleDouble: the directory's entries without those  *)
(* that have no resource fork, and then the Finder infos and comments.      *)
Entries == {n \in Names : object[n].kind # "none"}

\* Removed from the list: directories, and files without a resource fork.
HasFork(n) == object[n].kind = "file" /\ object[n].contents["resource"] # 0

\* mutant of AfterLastRemoved: files without a resource fork are kept
AfterLastRemovedDirs(s) ==
  LET gone == {i \in 1 .. Len(s) : object[s[i]].kind # "file"}
  IN  IF gone = {} THEN s ELSE SubSeq(s, 1 + CHOOSE i \in gone : \A j \in gone : j <= i, Len(s))

\* remove_fp() never advances prev: whatever it removes, the list then starts
\* after it.
AfterLastRemoved(s) ==
  LET gone == {i \in 1 .. Len(s) : ~HasFork(s[i])}
  IN  IF gone = {} THEN s ELSE SubSeq(s, 1 + CHOOSE i \in gone : \A j \in gone : j <= i, Len(s))

\* The removed entry's next is read after the entry is freed, and is as it was
\* if nobody has had the memory since.  When the last entry is removed the new
\* entries are linked to freed memory, and are not part of the list.
appledouble_readdir ==
  /\ extra_translate(DoubleDir) = "appledouble"
  /\ \/ \E s \in SetToSeqs(Entries), rs \in {{}, {"opendt"}} :
          LET cut == s # << >> /\ ~HasFork(Last(s))
              info == IF cut THEN {} ELSE Entries
          IN  /\ dt' = (dt \/ (Entries # {} /\ rs = {}))
              /\ Listed({Path(n, "") : n \in ToSet(AfterLastRemoved(s))}
                          \cup {Path(n, ".finderinfo") : n \in info},
                        {n \in info : dt' /\ get_comment_size(n) # 0}, rs)
     \/ Listed({}, {}, {"enumerate"}) /\ UNCHANGED dt
  /\ UNCHANGED <<server, handle, calls, history>>

Next ==
  \/ \E b \in Blocks, p \in Paths, flag \in Flags : appledouble_open(b, p, flag)
  \/ \E b \in Blocks, n \in Names, flag \in Flags : afp_ml_open(b, n, flag)
  \/ \E b \in Blocks : appledouble_close(b) \/ afp_ml_close(b) \/ appledouble_read(b)
  \/ \E b \in Blocks, v \in Vals : WriteData(b, v)
  \/ \E b \in Blocks, parts \in (SUBSET Parts) \ {{}}, v \in Vals : appledouble_write(b, parts, v)
  \/ \E p \in Paths : \/ Icon(p) \/ appledouble_truncate(p) \/ appledouble_creat(p) \/ NotPermitted(p)
                      \/ SymlinkOrRename(p) \/ appledouble_getattr(p)
  \/ appledouble_readdir

Spec == Init /\ [][Next]_vars

----------------------------------------------------------------------------
(* Properties. *)

Stored == Vals \cup {0}
Meta == [kind : {"file", "dir", "none"}, contents : [ForkKinds -> Stored],
         finfo : [Parts -> Stored], comment : Stored]
Handle == [what : {"none", "finderinfo", "comment"} \cup ForkKinds, name : Names \cup {Null},
           fork : ForkIds \cup {Null}, finfo : [Parts -> Stored]]

\* Types; a handle that is open names a file, and has a fork if it is of one.
TypeOK ==
  /\ object \in [Names -> Meta]
  /\ forks \in [ForkIds -> Fork \cup {Null}] /\ stray \in BOOLEAN
  /\ handle \in [Blocks -> Handle] /\ dt \in BOOLEAN
  /\ \A b \in Blocks : /\ handle[b].what = "none" <=> handle[b].name = Null
                       /\ handle[b].what \in ForkKinds <=> handle[b].fork # Null
  /\ calls \in 0 .. MaxCalls /\ refusals \in 0 .. MaxRefusals
  /\ lost \subseteq {b \in Blocks : handle[b].fork # Null}
  /\ unclosed \subseteq {k \in ForkIds : forks[k] # Null}

\* A call on a path changes that piece of metadata, or that fork, of that file
\* and nothing else: no other metadata, no object.  The exceptions are an open
\* with O_CREAT, which makes the file; creat of a comment, symlinks and renames,
\* which are not caught and may make an object anywhere; and what goes by a fork
\* number that is not the caller's, of one fork of one file: a write through a
\* block whose fork was closed under it, and truncating a resource fork that
\* could not be opened.
OnlyItsMetadata ==
  [][ /\ \A n \in Names : object'[n] # object[n] =>
           IF last'.astray
           THEN /\ object'[n] = [object[n] EXCEPT !.contents = object'[n].contents]
                /\ \A m \in Names \ {n} : object'[m] = object[m]
                /\ \E w \in ForkKinds : object'[n].contents[w] = object[n].contents[w]
           ELSE /\ n = last'.name
                /\ object'[n] = CASE last'.what \in ForkKinds ->
                                       [object[n] EXCEPT !.contents[last'.what] = object'[n].contents[last'.what],
                                                         !.kind = object'[n].kind]
                                  [] last'.what = "finderinfo" -> [object[n] EXCEPT !.finfo = object'[n].finfo]
                                  [] last'.what = "comment" -> [object[n] EXCEPT !.comment = object'[n].comment]
                                  [] OTHER -> object[n]
                /\ object'[n].kind # object[n].kind => last'.call = "create"
      /\ stray' # stray => <<last'.call, last'.what>> \in
           {<<"creat", "comment">>} \cup {"symlink", "rename"} \X {"resource", "finderinfo", "comment"} ]_vars

\* A write that reports success has reached the server, unless the server
\* refused it in one of the ways that are not looked at, or the block's fork was
\* closed under it; what it wrote is all there, and a comment or fork is what
\* was written whole.
WrittenIsThere ==
  last.call = "write" /\ ~last.astray /\ "misc" \notin last.refused /\ Cardinality(last.refused) < 2 =>
      CASE last.what \in ForkKinds -> object[last.name].contents[last.what] = last.val
        [] last.what = "comment" -> object[last.name].comment = last.val
        [] last.what = "finderinfo" -> \A i \in last.parts : object[last.name].finfo[i] = last.val

\* An open fork belongs to one open handle, and the handle has that fork of its
\* own file: forks are lost only by an open whose truncation fails and by a
\* close that is refused, and taken from their handle only by the truncation of
\* a resource fork that could not be opened, and then by the close of a handle
\* whose number has meanwhile become another's.
ForksBelong ==
  LET having == {b \in Blocks : handle[b].what \in ForkKinds} \ lost
  IN  /\ \A b \in having : forks[handle[b].fork] = [name |-> handle[b].name, part |-> handle[b].what]
      /\ \A k \in ForkIds : forks[k] # Null => k \in unclosed \/ \E b \in having : handle[b].fork = k
      /\ \A b, c \in having : handle[b].fork = handle[c].fork => b = c

\* A listing of .AppleDouble shows no resource fork that is not there, shows all
\* of them if nothing had to be removed from the directory's list, and shows
\* either everybody's Finder info or nobody's; comments only with these.
ListingIsRight ==
  listing.done =>
    /\ \A n \in Names : Path(n, "") \in listing.shown => HasFork(n)
    /\ listing.refused \subseteq {"opendt"} /\ (\A n \in Entries : HasFork(n)) =>
         \A n \in Entries : {Path(n, ""), Path(n, ".finderinfo")} \subseteq listing.shown
    /\ \A n \in listing.comments : object[n].comment # 0 /\ Path(n, ".finderinfo") \in listing.shown
    /\ LET info == {n \in Names : Path(n, ".finderinfo") \in listing.shown} IN info \in {{}, Entries}

\* If a resource fork exists it is in the listing of .AppleDouble.
ResourceForksListed ==
  listing.done /\ listing.refused = {} =>
    \A n \in Entries : HasFork(n) => Path(n, "") \in listing.shown

\* Writing a part of the Finder info leaves the rest of it.
RestKept ==
  [][ last'.call = "write" /\ last'.what = "finderinfo" =>
        \A i \in Parts \ last'.parts : object'[last'.name].finfo[i] = object[last'.name].finfo[i] ]_vars

=============================================================================
