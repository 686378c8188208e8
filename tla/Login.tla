------------------------------- MODULE Login -------------------------------
(***************************************************************************)
(* Logging in to a server and changing a password: the negotiation of      *)
(* afp_server_complete_connection() (lib/server.c, lib/afp.c), the user    *)
(* authentication methods of lib/uams.c, and the session token.            *)
(*                                                                         *)
(* An authentication method is a straight line of calls with an error exit *)
(* after each: allocate, open a cipher, encrypt, send, free.  Each one is  *)
(* a sequence of steps below, and one set of actions runs them all, any    *)
(* step failing that the code allows to fail.  The arithmetic of the key   *)
(* exchanges is left out, and with it libgcrypt's numbers.                 *)
(***************************************************************************)
EXTENDS Integers, Sequences, FiniteSets, SequencesExt, FiniteSetsExt

CONSTANTS
  Offers,        \* lists of version numbers a server may offer
  UamOffers,     \* lists of authentication methods a server may offer
  Masks,         \* sets of methods a user allows: the default, or one by name
  Requested,     \* versions a user may ask for, 0 for none
  Ids,           \* transaction ids of the server
  NameLengths,   \* lengths of user names
  LittleEndian,  \* the client's byte order
  HaveLibgcrypt, \* a build option
  MaxVersions, MaxUams, \* SERVER_MAX_VERSIONS, SERVER_MAX_UAMS
  MaxChanges,    \* bound: changes of the password
  MaxReconnects  \* bound: connections lost after the login

ASSUME LoginConstants ==
  /\ LittleEndian \in BOOLEAN /\ HaveLibgcrypt \in BOOLEAN
  /\ Ids \subseteq 0 .. 65535
  /\ MaxVersions \in Nat /\ MaxUams \in Nat /\ MaxChanges \in Nat /\ MaxReconnects \in Nat
ASSUME LoginNames == NameLengths \subseteq 1 .. 255

Pointers == {"ai", "rx", "Ra", "K", "hash"} \* heap blocks of one function
Ciphers == {"a", "b"}

VARIABLES
  phase,   \* how far the connection is
  offer,   \* what the server offers and the user wants
  version, \* server->using_version, 0 for NULL
  uam,     \* server->using_uam
  user,    \* length of the user's name
  fn, pc,  \* the authentication function that runs, and its next step
  mem,     \* per pointer of it: what it holds
  ciphers, \* per cipher handle of it: "junk", "open" or "closed"
  id,      \* the transaction id it has
  ret,     \* its return value so far
  request, \* the last request
  srv,     \* the server
  need_resume, token, \* of struct afp_server
  admitted, \* history: the code of the last login
  changed, \* history: the last change of the password, and the function's result
  trouble, \* history: pointers and ciphers used wrongly
  changes, reconnects

running == <<fn, pc, mem, ciphers, id, ret, request, trouble>>
chosen == <<offer, version, uam, user>>
kept == <<need_resume, token, admitted, changed, changes, reconnects>>
loginvars == <<phase, chosen, running, srv, kept>>

----------------------------------------------------------------------------
(* The methods, weakest first: bit i of a mask is the i-th.  Their names have *)
(* underscores for spaces.                                                 *)
UamStrings == <<"No_User_Authent", "Cleartxt_Passwrd", "Randnum_Exchange",
                "2-Way_Randnum_Exchange", "DHCAST128", "Client_Krb_v2", "DHX2", "Recon1">>

\* The bit of a name, or 0 when the name is not known.
UamBit(name) == IF name \notin ToSet(UamStrings) THEN 0
                ELSE CHOOSE i \in DOMAIN UamStrings : UamStrings[i] = name

\* The methods a user allows who does not choose one.
DefaultUams == {"Cleartxt_Passwrd"} \cup
  IF HaveLibgcrypt THEN {"Randnum_Exchange", "2-Way_Randnum_Exchange", "DHCAST128", "DHX2"}
                   ELSE {}

\* Those that this build has a function for.
Registered == {"Cleartxt_Passwrd", "No_User_Authent"} \cup
  IF HaveLibgcrypt THEN {"Randnum_Exchange", "2-Way_Randnum_Exchange", "DHCAST128", "DHX2"}
                   ELSE {}

KnownVersions == {11, 20, 21, 22, 30, 31, 32}
MaxSupported == 32

FirstFew(s, n) == SubSeq(s, 1, IF Len(s) < n THEN Len(s) ELSE n)

\* What the client keeps of the lists in the server's status; in which order
\* the versions came makes no difference to what follows.
ParseVersions(names) == ToSet(FirstFew(names, MaxVersions)) \cap KnownVersions
ParseUams(names) == {u \in ToSet(FirstFew(names, MaxUams)) : UamBit(u) # 0}

\* mutant of PickVersion: remembers the lowest
PickVersionLowest(versions, asked) ==
  LET wanted == IF asked > MaxSupported THEN MaxSupported ELSE asked
  IN  IF versions = {} THEN 0
      ELSE IF wanted \in versions THEN wanted
      ELSE Min(versions)

\* The version asked for, if it is offered, and the last one otherwise: the
\* scan stops at the one asked for, and remembers the highest it has passed.
PickVersion(versions, asked) ==
  LET wanted == IF asked > MaxSupported THEN MaxSupported ELSE asked
  IN  IF versions = {} THEN 0
      ELSE IF wanted \in versions THEN wanted
      ELSE Max(versions)

\* The strongest method of both, "none" for -1.
PickUam(offered, allowed) ==
  IF offered \cap allowed = {} THEN "none"
  ELSE UamStrings[Max({UamBit(u) : u \in offered \cap allowed})]

----------------------------------------------------------------------------
(* The steps that authentication functions are made of.  close is the set  *)
(* of ciphers that the step's error exit closes.                           *)
Alloc(x, close) == [op |-> "alloc", x |-> x, close |-> close]
Free(x) == [op |-> "free", x |-> x]
Open(c, close) == [op |-> "open", c |-> c, close |-> close]
\* One call of libgcrypt on cipher c and blocks reads; frees are freed before
\* its result is looked at.
Crypt(c, reads, frees, close) ==
  [op |-> "crypt", c |-> c, reads |-> reads, frees |-> frees, close |-> close]
\* A request whose body is block x, and the block rx takes the reply or nothing does.
Send(cmd, x, rx, fields) == [op |-> "send", cmd |-> cmd, x |-> x, rx |-> rx, fields |-> fields]
\* Goes on only when the server said so, and takes its id out of the reply.
Continue(close) == [op |-> "continue", code |-> "AuthContinue", close |-> close]
OnlyIfDone(close) == [op |-> "continue", code |-> "NoErr", close |-> close]
TakeId == [op |-> "takeid"]
Compare == [op |-> "compare"]
Leave(close) == [op |-> "leave", close |-> close]

\* The fields of a request: what is sent of the transaction id, which
\* passwords, and the field after the user's name, if there is one: the length
\* of the method's name before it, and when it is padded.
NoField == [uam |-> 0, pad |-> "never"]
Field(uamlen, pad) == [uam |-> uamlen, pad |-> pad]
Plain == [id |-> "none", pw |-> "none", new |-> "none", at |-> NoField]
With(pw) == [Plain EXCEPT !.pw = pw]

htons(i) == IF LittleEndian THEN (i % 256) * 256 + i \div 256 ELSE i

\* Offset in the request, from the command byte, of the field after the name:
\* the version's name has an even length, like 6.
LoginField(uamlen, pad) == 1 + (1 + 6) + (1 + uamlen) + (1 + user) + pad
PasswdField(uamlen, pad) == 2 + (1 + uamlen) + (1 + user) + pad

\* Blocks are aligned, so an address is as even as its offset in its block; the
\* address of a number always is.
PadWhenEven == IF (1 + user) % 2 = 1 THEN 0 ELSE 1
PadWhenOdd == IF (1 + user) % 2 = 1 THEN 1 ELSE 0
Padding(when) == IF when = "odd" THEN PadWhenOdd ELSE IF when = "even" THEN PadWhenEven ELSE 1

----------------------------------------------------------------------------
(* The functions. *)
noauth_login == <<Send("login", "none", FALSE, Plain), Leave({})>>

\* mutant of cleartxt_login: pads the wrong names
cleartxt_loginOtherPad ==
  << Alloc("ai", {}),
     Send("login", "ai", FALSE, [With("old") EXCEPT !.at = Field(16, "odd")]), Leave({}) >>

cleartxt_login ==
  << Alloc("ai", {}),
     Send("login", "ai", FALSE, [With("old") EXCEPT !.at = Field(16, "even")]), Leave({}) >>

cleartxt_passwd ==
  << Alloc("ai", {}),
     Send("passwd", "ai", FALSE, [With("none") EXCEPT !.new = "new", !.at = Field(16, "even")]),
     Leave({}) >>

randnum_login ==
  << Alloc("rx", {}), Alloc("ai", {}), Send("login", "ai", TRUE, Plain), Free("ai"), Continue({}),
     TakeId, Open("a", {}), Crypt("a", {}, {}, {"a"}), Crypt("a", {"rx"}, {}, {"a"}),
     Send("cont", "rx", FALSE, [With("old") EXCEPT !.id = "host"]), Leave({"a"}) >>

randnum_passwd ==
  << Alloc("ai", {}), Open("a", {}), Open("b", {"a"}) >> \o
  << Crypt("a", {}, {}, {"a", "b"}), Crypt("b", {}, {}, {"a", "b"}),
     Crypt("b", {"ai"}, {}, {"a", "b"}), Crypt("a", {"ai"}, {}, {"a", "b"}),
     Send("passwd", "ai", FALSE, [With("old") EXCEPT !.new = "new", !.at = Field(16, "even")]),
     Leave({"a", "b"}) >>

randnum2_login ==
  << Alloc("rx", {}), Alloc("ai", {}), Send("login", "ai", TRUE, Plain), Free("ai"), Continue({}),
     TakeId, Open("a", {}), Crypt("a", {}, {}, {"a"}), Alloc("ai", {"a"}),
     Crypt("a", {"ai", "rx"}, {"rx"}, {"a"}), Alloc("rx", {"a"}),
     Send("cont", "ai", TRUE, [With("old") EXCEPT !.id = "host"]), OnlyIfDone({"a"}),
     Crypt("a", {"ai"}, {}, {"a"}), Compare, Leave({"a"}) >>

\* DHCAST128: the session key, and the nonce of the reply sent back.
dhx_key(x) ==
  << TakeId, Open("a", {}), Crypt("a", {}, {}, {"a"}), Crypt("a", {}, {}, {"a"}),
     Crypt("a", {"rx"}, {}, {"a"}), Free("rx"), Alloc("ai", {"a"}), Crypt("a", {}, {}, {"a"}),
     Crypt("a", {"ai"}, {}, {"a"}), x, Leave({"a"}) >>

dhx_login_first ==
  << Alloc("ai", {}), Alloc("rx", {}),
     Send("login", "ai", TRUE, [Plain EXCEPT !.at = Field(9, "odd")]), Free("ai"),
     Continue({}) >>

dhx_login == dhx_login_first \o dhx_key(Send("cont", "ai", FALSE, [With("old") EXCEPT !.id = "host"]))

\* The test for the padding looks at the address of a number, which is even.
dhx_passwd_first ==
  << Alloc("ai", {}), Alloc("rx", {}),
     Send("passwd", "ai", TRUE, [Plain EXCEPT !.id = "zero", !.at = Field(9, "always")]), Free("ai"),
     Continue({}) >>

dhx_passwd == dhx_passwd_first \o
  dhx_key(Send("passwd", "ai", FALSE,
               [id |-> "host", pw |-> "old", new |-> "new", at |-> Field(9, "always")]))

\* DHX2: the session key from the first reply.
dhx2_key ==
  << TakeId, Free("rx"), Alloc("Ra", {}), Free("Ra"), Alloc("K", {}), Alloc("hash", {}),
     Open("a", {}), Crypt("a", {"hash"}, {"hash"}, {"a"}), Crypt("a", {}, {}, {"a"}),
     Alloc("ai", {"a"}), Crypt("a", {"ai"}, {}, {"a"}), Alloc("rx", {"a"}) >>

\* mutant of dhx2_nonces: frees the reply and keeps the pointer
dhx2_noncesKeptReply ==
  << Free("ai"), Continue({"a"}), TakeId, Crypt("a", {}, {}, {"a"}), Crypt("a", {"rx"}, {}, {"a"}),
     [Free("rx") EXCEPT !.op = "freekept"],
     Alloc("ai", {"a"}), Crypt("a", {}, {}, {"a"}), Crypt("a", {"ai"}, {}, {"a"}) >>

\* The nonces of the second reply: a wrong one does not stop the function,
\* since the assertion's condition is a string.
dhx2_nonces ==
  << Free("ai"), Continue({"a"}), TakeId, Crypt("a", {}, {}, {"a"}), Crypt("a", {"rx"}, {}, {"a"}),
     Free("rx"), Alloc("ai", {"a"}), Crypt("a", {}, {}, {"a"}), Crypt("a", {"ai"}, {}, {"a"}) >>

dhx2_login_first ==
  << Alloc("ai", {}), Alloc("rx", {}), Send("login", "ai", TRUE, Plain), Free("ai"), Continue({}) >>

dhx2_login == dhx2_login_first \o dhx2_key \o
  << Send("cont", "ai", TRUE, [Plain EXCEPT !.id = "host"]) >> \o dhx2_nonces \o
  << Send("cont", "ai", FALSE, [With("old") EXCEPT !.id = "host"]), Leave({"a"}) >>

\* The first allocation is not checked.
dhx2_passwd_first ==
  << [Alloc("ai", {}) EXCEPT !.op = "allocunchecked"], Alloc("rx", {}),
     Send("passwd", "ai", TRUE, Plain), Free("ai"), Continue({}) >>

dhx2_passwd_key == dhx2_key \o
  << Send("passwd", "ai", TRUE, [Plain EXCEPT !.id = "host", !.at = Field(4, "always")]) >>

\* The last request has the id as the host stores it, and the old password in
\* the place of the new.
dhx2_passwd == dhx2_passwd_first \o dhx2_passwd_key \o dhx2_nonces \o
  << Send("passwd", "ai", FALSE,
          [id |-> "raw", pw |-> "old", new |-> "old", at |-> Field(4, "always")]), Leave({"a"}) >>

Program(f) ==
  CASE f = "noauth_login" -> noauth_login       [] f = "cleartxt_login" -> cleartxt_login
    [] f = "cleartxt_passwd" -> cleartxt_passwd [] f = "randnum_login" -> randnum_login
    [] f = "randnum_passwd" -> randnum_passwd   [] f = "randnum2_login" -> randnum2_login
    [] f = "dhx_login" -> dhx_login             [] f = "dhx_passwd" -> dhx_passwd
    [] f = "dhx2_login" -> dhx2_login           [] f = "dhx2_passwd" -> dhx2_passwd

LoginOf(u) ==
  CASE u = "No_User_Authent" -> "noauth_login"   [] u = "Cleartxt_Passwrd" -> "cleartxt_login"
    [] u = "Randnum_Exchange" -> "randnum_login" [] u = "DHCAST128" -> "dhx_login"
    [] u = "2-Way_Randnum_Exchange" -> "randnum2_login" [] u = "DHX2" -> "dhx2_login"
PasswdOf(u) ==
  CASE u = "Cleartxt_Passwrd" -> "cleartxt_passwd" [] u = "DHCAST128" -> "dhx_passwd"
    [] u \in {"Randnum_Exchange", "2-Way_Randnum_Exchange"} -> "randnum_passwd"
    [] u = "DHX2" -> "dhx2_passwd"

Functions == {LoginOf(u) : u \in Registered} \cup
             {PasswdOf(u) : u \in Registered \ {"No_User_Authent"}}

\* The pointers a function declares, NULL or calloc's, and frees as it leaves.
Frees(f) ==
  CASE f = "noauth_login" -> {} [] f \in {"cleartxt_login", "cleartxt_passwd", "randnum_passwd"} -> {"ai"}
    [] f \in {"dhx2_login", "dhx2_passwd"} -> Pointers
    [] OTHER -> {"rx", "ai"}

----------------------------------------------------------------------------
(* Running a function. *)
Step == Program(fn)[pc]

NoRequest == [cmd |-> "none", id |-> -1, pw |-> "none", new |-> "none", at |-> 0, due |-> -1]

Enter(f) ==
  /\ fn' = f /\ pc' = 1 /\ ret' = "none" /\ id' = 0 /\ request' = NoRequest
  /\ mem' = [x \in Pointers |-> "null"] /\ ciphers' = [c \in Ciphers |-> "junk"]

\* The function has returned, and its locals are gone.
Gone ==
  /\ fn' = "none" /\ pc' = 0 /\ ret' = "none" /\ id' = 0 /\ request' = NoRequest
  /\ mem' = [x \in Pointers |-> "null"] /\ ciphers' = [c \in Ciphers |-> "junk"]
  /\ UNCHANGED trouble

Wrong(what, bad) == IF bad THEN {what} ELSE {}

\* The end of a function: closes its ciphers, frees its blocks, returns code.
\* The blocks of freed have been freed and their pointers set to NULL before.
Exit(close, freed, code) ==
  LET now == [x \in Pointers |-> IF x \in freed THEN "null" ELSE mem[x]]
  IN  /\ ciphers' = [c \in Ciphers |-> IF c \in close THEN "closed" ELSE ciphers[c]]
      /\ mem' = [x \in Pointers |-> IF x \in Frees(fn) /\ now[x] = "live" THEN "freed" ELSE now[x]]
      /\ trouble' = trouble \cup Wrong("closes_unopened", \E c \in close : ciphers[c] # "open")
                            \cup Wrong("freed_twice", \E x \in Frees(fn) : now[x] = "freed")
      /\ ret' = code /\ pc' = 0
      /\ UNCHANGED <<fn, id, request>>

Idle == UNCHANGED <<phase, chosen, srv, kept>>
Advance == pc' = pc + 1 /\ UNCHANGED fn

\* An allocation or a call of libgcrypt fails.
StepFails ==
  /\ pc > 0 /\ Step.op \in {"alloc", "open", "crypt"} /\ Idle
  /\ Exit(Step.close, IF Step.op = "crypt" THEN Step.frees ELSE {}, "error")

Allocate ==
  /\ pc > 0 /\ Step.op \in {"alloc", "allocunchecked"} /\ Advance
  /\ \/ /\ mem' = [mem EXCEPT ![Step.x] = "live"]
        /\ trouble' = trouble \cup Wrong("lost_block", mem[Step.x] = "live")
     \/ /\ Step.op = "allocunchecked" \* calloc fails, and the name is copied to NULL
        /\ trouble' = trouble \cup {"null_used"} /\ UNCHANGED mem
  /\ UNCHANGED <<ciphers, id, ret, request>> /\ Idle

FreeBlock ==
  /\ pc > 0 /\ Step.op \in {"free", "freekept"} /\ Advance
  /\ trouble' = trouble \cup Wrong("freed_twice", mem[Step.x] = "freed")
  /\ mem' = [mem EXCEPT ![Step.x] = IF Step.op = "free" THEN "null" ELSE "freed"]
  /\ UNCHANGED <<ciphers, id, ret, request>> /\ Idle

OpenCipher ==
  /\ pc > 0 /\ Step.op = "open" /\ Advance
  /\ ciphers' = [ciphers EXCEPT ![Step.c] = "open"]
  /\ UNCHANGED <<mem, id, ret, request, trouble>> /\ Idle

UseCipher ==
  /\ pc > 0 /\ Step.op = "crypt" /\ Advance
  /\ trouble' = trouble \cup Wrong("uses_unopened", ciphers[Step.c] # "open")
                        \cup Wrong("uses_freed", \E x \in Step.reads : mem[x] # "live")
  /\ mem' = [x \in Pointers |-> IF x \in Step.frees THEN "null" ELSE mem[x]]
  /\ UNCHANGED <<ciphers, id, ret, request>> /\ Idle

\* ID = ntohs(...) of the reply; a block of zeros if the reply was short.
TakeTheId ==
  /\ pc > 0 /\ Step.op = "takeid" /\ Advance
  /\ id' = srv.told
  /\ UNCHANGED <<mem, ciphers, ret, request, trouble>> /\ Idle

GoOn ==
  /\ pc > 0 /\ Step.op = "continue" /\ Idle
  /\ \/ ret = Step.code /\ Advance /\ UNCHANGED <<mem, ciphers, id, ret, request, trouble>>
     \/ ret # Step.code /\ Exit(Step.close, {}, ret)

\* The server's proof that it knows the password is not what it should be.
CompareProofs ==
  /\ pc > 0 /\ Step.op = "compare" /\ Advance
  /\ ret' = IF srv.proof THEN ret ELSE "UserNotAuth"
  /\ UNCHANGED <<mem, ciphers, id, request, trouble>> /\ Idle

LeaveFunction == pc > 0 /\ Step.op = "leave" /\ Exit(Step.close, {}, ret) /\ Idle

----------------------------------------------------------------------------
(* A request, and the server (which is not part of this code): it has the  *)
(* user's password, and follows the method's exchange.  It may refuse any  *)
(* request with an error; an answer may be lost.                           *)
WireId(kind) == CASE kind = "none" -> -1 [] kind = "zero" -> 0 [] kind = "host" -> id
                  [] kind = "raw" -> htons(id)

\* The messages of this exchange that the server has answered.
Round == IF ret = "none" THEN 0 ELSE srv.round

\* due: the id that the reply before it held, -1 if this is the first.
Request ==
  LET fields == Step.fields
      At == IF fields.at = NoField THEN 0
            ELSE IF Step.cmd = "login" THEN LoginField(fields.at.uam, Padding(fields.at.pad))
            ELSE PasswdField(fields.at.uam, Padding(fields.at.pad))
  IN  [cmd |-> Step.cmd, id |-> WireId(fields.id), pw |-> fields.pw, new |-> fields.new, at |-> At,
       due |-> IF Round > 0 THEN srv.told ELSE -1]

Rounds(f) == CASE f \in {"noauth_login", "cleartxt_login", "cleartxt_passwd", "randnum_passwd"} -> 1
               [] f \in {"randnum_login", "randnum2_login", "dhx_login", "dhx_passwd"} -> 2
               [] OTHER -> 3

Refusals == {"UserNotAuth", "BadUAM", "BadVersNum", "MiscErr", "CallNotSupported", "ParamErr"}

\* The server finds the fields where they should be, and its own id.
Understood(m) == m.at % 2 = 0 /\ (Round > 0 => m.id = srv.id)
Right(m) == fn \in {"noauth_login", "cleartxt_passwd"} \/ m.pw = srv.password

NextRound(m) == \* it answers with an id; a short answer leaves the client zeros
  /\ Understood(m) /\ Round + 1 < Rounds(fn) /\ ret' = "AuthContinue"
  /\ \E i \in Ids, short \in BOOLEAN :
       srv' = [srv EXCEPT !.round = Round + 1, !.id = i, !.told = IF short THEN 0 ELSE i]

Accept(m) ==
  /\ Understood(m) /\ Round + 1 = Rounds(fn) /\ Right(m)
  /\ \E proof \in IF fn = "randnum2_login" THEN BOOLEAN ELSE {TRUE} :
       srv' = [srv EXCEPT !.round = 0, !.id = 0, !.told = 0, !.proof = proof,
                          !.session = (@ \/ m.cmd # "passwd"),
                          !.password = IF m.cmd = "passwd" THEN m.new ELSE @]
  \* dsi_send() waits for ever for the answer to FPLogin only
  /\ ret' \in IF m.cmd = "login" THEN {"NoErr"} ELSE {"NoErr", "timeout"}

Refuse(m) == srv' = [srv EXCEPT !.round = 0, !.id = 0, !.told = 0] /\ ret' \in Refusals

\* malloc() or write() fails, or the server never sees it.
NotSent(m) == UNCHANGED srv /\ ret' \in (IF m.cmd = "login" THEN {"error"} ELSE {"error", "timeout"})

SendRequest ==
  /\ pc > 0 /\ Step.op = "send" /\ Advance
  /\ request' = Request
  /\ NextRound(Request) \/ Accept(Request) \/ Refuse(Request) \/ NotSent(Request)
  /\ trouble' = trouble \cup
       Wrong("uses_freed", Step.x # "none" /\ mem[Step.x] # "live" /\ "null_used" \notin trouble)
       \cup Wrong("no_reply_block", Step.rx /\ mem["rx"] # "live")
  /\ UNCHANGED <<phase, chosen, mem, ciphers, id, kept>>

----------------------------------------------------------------------------
(* The connection. *)
LoginInit ==
  /\ phase = "version" /\ version = 0 /\ uam = "none"
  /\ offer \in [versions : Offers, uams : UamOffers, requested : Requested, mask : Masks,
                reconnect : BOOLEAN]
  /\ user \in NameLengths
  /\ fn = "none" /\ pc = 0 /\ id = 0 /\ ret = "none"
  /\ mem = [x \in Pointers |-> "null"] /\ ciphers = [c \in Ciphers |-> "junk"]
  /\ request = NoRequest
  /\ \E p \in {"old", "other"} :
       srv = [password |-> p, session |-> FALSE, round |-> 0, id |-> 0, told |-> 0, proof |-> TRUE]
  /\ need_resume = FALSE /\ token = "none" /\ admitted = "none"
  /\ changed = [uam |-> "none", ret |-> "none"] /\ changes = 0 /\ reconnects = 0
  /\ trouble = {}

Running == UNCHANGED running

ChooseVersion ==
  /\ phase = "version"
  /\ version' = PickVersion(ParseVersions(offer.versions), offer.requested)
  /\ phase' = IF version' = 0 THEN "removed" ELSE "uam"
  /\ UNCHANGED <<offer, uam, user, srv, kept>> /\ Running

\* The offers are not looked at again.
ChooseUam ==
  /\ phase = "uam"
  /\ uam' = PickUam(ParseUams(offer.uams), offer.mask)
  /\ phase' = IF uam' = "none" THEN "removed" ELSE "login"
  /\ offer' = [offer EXCEPT !.versions = << >>, !.uams = << >>, !.requested = 0, !.mask = {}]
  /\ UNCHANGED <<version, user, srv, kept>> /\ Running

\* An attempt that fails removes the server, or leaves it unconnected when the
\* connection was lost before.
Failed == IF reconnects = 0 THEN "removed" ELSE "unconnected"

afp_dologin ==
  /\ phase = "login"
  /\ \/ /\ uam \in Registered
        /\ Enter(LoginOf(uam)) /\ phase' = "authenticating" /\ UNCHANGED trouble
     \/ uam \notin Registered /\ phase' = Failed /\ Running
  /\ UNCHANGED <<chosen, srv, kept>>

\* "Already logged in" is as good as a login; BadVersNum falls through to it.
AlreadyLoggedIn == {"BadVersNum", "CallNotSupported", "MiscErr"}

\* mutant of LoginSucceeds: only looks for -1
LoginSucceedsUnlessError(code) == code # "error"

LoginSucceeds(code) == code = "NoErr" \/ code \in AlreadyLoggedIn

afp_server_login ==
  /\ phase = "authenticating" /\ pc = 0
  /\ phase' = IF ~LoginSucceeds(ret) THEN Failed
              ELSE IF offer.reconnect THEN "token" ELSE "parms"
  /\ admitted' = ret /\ Gone
  /\ UNCHANGED <<chosen, srv, need_resume, token, changed, changes, reconnects>>

\* server->token after afp_getsessiontoken(), which returns 0: a refusal, and a
\* reply that is too long, leave it as it was.
TokenAfterReply == {token, "issued", "empty"}

\* setup_token() or resume_token(): the token that goes out is always the same.
GetToken ==
  /\ phase = "token" /\ phase' = "parms"
  /\ token' \in TokenAfterReply /\ need_resume' = FALSE
  /\ UNCHANGED <<chosen, srv, admitted, changed, changes, reconnects>> /\ Running

\* FPGetSrvrParms is part of a first connection, not of a reconnection.
GetParms ==
  /\ phase = "parms"
  /\ phase' \in IF reconnects = 0 THEN {"done", "removed"} ELSE {"done"}
  /\ UNCHANGED <<chosen, srv, kept>> /\ Running

LoseConnection ==
  /\ phase = "done" /\ reconnects < MaxReconnects
  /\ phase' = "login" /\ reconnects' = reconnects + 1
  /\ srv' = [srv EXCEPT !.session = FALSE, !.round = 0] /\ need_resume' = TRUE
  /\ UNCHANGED <<chosen, token, admitted, changed, changes>> /\ Running

\* afp_ml_passwd(): asks for the change with the password of the login.
StartChange ==
  /\ phase = "done" /\ changes < MaxChanges
  /\ changes' = changes + 1
  /\ \/ /\ uam # "No_User_Authent" /\ Enter(PasswdOf(uam)) /\ phase' = "changing"
        /\ UNCHANGED trouble
     \/ uam = "No_User_Authent" /\ phase' = "done" /\ Running
  /\ UNCHANGED <<chosen, srv, need_resume, token, admitted, changed, reconnects>>

\* Whatever the function returned, the caller is told 0.
EndChange ==
  /\ phase = "changing" /\ pc = 0 /\ phase' = "done"
  /\ changed' = [uam |-> uam, ret |-> ret] /\ Gone
  /\ UNCHANGED <<chosen, srv, need_resume, token, admitted, changes, reconnects>>

Finished ==
  /\ \/ phase \in {"removed", "unconnected"}
     \/ phase = "done" /\ changes = MaxChanges /\ reconnects = MaxReconnects
  /\ UNCHANGED loginvars

LoginNext ==
  \/ ChooseVersion \/ ChooseUam \/ afp_dologin \/ afp_server_login \/ GetToken \/ GetParms
  \/ LoseConnection \/ StartChange \/ EndChange \/ Finished
  \/ Allocate \/ FreeBlock \/ OpenCipher \/ UseCipher \/ TakeTheId \/ GoOn \/ CompareProofs
  \/ SendRequest \/ LeaveFunction \/ StepFails

LoginSpec == LoginInit /\ [][LoginNext]_loginvars

----------------------------------------------------------------------------
(* Properties. *)
Codes == Refusals \cup {"none", "NoErr", "AuthContinue", "error", "timeout"}

\* Types; the steps name only pointers, ciphers and functions that exist.
LoginTypeOK ==
  /\ phase \in {"version", "uam", "login", "authenticating", "token", "parms", "done",
                "changing", "removed", "unconnected"}
  /\ version \in KnownVersions \cup {0} /\ uam \in ToSet(UamStrings) \cup {"none"}
  /\ fn \in Functions \cup {"none"} /\ pc \in 0 .. 40 /\ ret \in Codes /\ id \in Ids \cup {0}
  /\ mem \in [Pointers -> {"null", "live", "freed"}]
  /\ ciphers \in [Ciphers -> {"junk", "open", "closed"}]
  /\ srv.password \in {"old", "new", "other"} /\ srv.round \in 0 .. 2
  /\ admitted \in Codes /\ changed.ret \in Codes

\* Whichever call fails, a function of uams.c gives back every block and every
\* cipher it took, once, and never uses one it has not got; but dhx2_passwd()
\* does not look at its first calloc().
GivesAllBack ==
  /\ trouble \subseteq {"null_used"}
  /\ "null_used" \in trouble => uam = "DHX2"
  /\ pc = 0 => \A x \in Pointers : mem[x] # "live"
  /\ pc = 0 => \A c \in Ciphers : ciphers[c] # "open"

\* A request that goes on with an exchange has the id of the server's last
\* reply, in the order of bytes the protocol has, except for the last request
\* of dhx2_passwd(); and the field after the name starts
\* on an even byte, but for the names of the wrong parity in dhx_passwd() and
\* dhx2_passwd().
RequestsWellFormed ==
  /\ request.due # -1 => \/ request.id = request.due
                         \/ fn = "dhx2_passwd" /\ request.pw = "old" /\ request.id = htons(request.due)
  /\ request.at % 2 = 1 => \/ fn = "dhx_passwd" /\ user % 2 = 1
                           \/ fn = "dhx2_passwd" /\ user % 2 = 0

\* The client goes on as logged in only if the server has a session for it or
\* has given one of the answers taken for "already logged in"; a change that
\* the method's function reports was made, except by DHX2, which asks for the
\* old password again.
SuccessIsTrue ==
  /\ phase \in {"token", "parms", "done"} =>
       srv.session \/ admitted \in {"BadVersNum", "CallNotSupported", "MiscErr"}
  /\ changed.ret = "NoErr" => srv.password = (IF changed.uam = "DHX2" THEN "old" ELSE "new")

\* The version is the one asked for, if the client can speak it and the server
\* offers it, and the highest of both otherwise; the method is the strongest
\* that both allow.
NegotiatedWell ==
  [][ /\ phase = "version" =>
           LET both == ParseVersions(offer.versions)
           IN  IF both = {} THEN phase' = "removed"
               ELSE /\ version' \in both
                    /\ offer.requested \in both => version' = offer.requested
                    /\ offer.requested \notin both \cup 33 .. 255 => \A v \in both : v <= version'
      /\ phase = "uam" =>
           LET both == offer.mask \cap ParseUams(offer.uams)
           IN  IF both = {} THEN phase' = "removed"
               ELSE uam' \in both /\ \A u \in both : UamBit(u) <= UamBit(uam') ]_loginvars

\* A request to change the password asks for the new one.
AsksForTheNewPassword == request.new \in {"none", "new"}

=============================================================================
