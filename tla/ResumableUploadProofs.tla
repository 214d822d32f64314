----------------------- MODULE ResumableUploadProofs -----------------------
(***************************************************************************)
(* Type correctness of ResumableUpload, and that what it saves is the      *)
(* whole file as long as two handlers are never at work on the part at     *)
(* once, for any number of pages, goroutines and retries and any file.     *)
(***************************************************************************)
EXTENDS ResumableUpload, FiniteSetTheorems, TLAPS

----------------------------------------------------------------------------
(* The inductive invariant *)

\* Who waits for whom: a request that still has its connection has a page waiting for it, a
\* page waits for one request at a time, and it only sends while it has attempts left.
Calls ==
  /\ \A h \in Handlers : hs[h].client # None => clients[hs[h].client].pc = "waiting"
  /\ \A g, h \in Handlers : hs[g].client # None /\ hs[g].client = hs[h].client => g = h
  /\ \A c \in Clients : clients[c].pc \in {"send", "waiting"} => clients[c].attempt <= Retries

TypeInv == TypeOK /\ Calls

\* The observer sees every overlap.
Alone == split \/ \A g, h \in Handlers : AtWork(g) /\ AtWork(h) => g = h

\* Files under their final name are whole, and the part has no holes.
FilesRight ==
  /\ \A i \in saved : file[i] = Whole
  /\ part \notin saved
  /\ part # None => file[part].zeros = {}

\* The one handler at work has the part open, or a file the sweep has unlinked.
OpenRight(h) ==
  /\ hs[h].fd \in Inodes \ saved
  /\ part \in {None, hs[h].fd}
  /\ file[hs[h].fd].zeros = {}

\* It writes at the part's end, has written no further than its slice, and renames only a
\* part that is complete.
CopyRight(h) ==
  /\ hs[h].off <= hs[h].pos /\ hs[h].pos <= End(hs[h].off)
  /\ hs[h].pos <= file[hs[h].fd].len
  /\ part # None => hs[h].pos = file[hs[h].fd].len
TruncateRight(h) == part # None => hs[h].off <= file[hs[h].fd].len
RenameRight(h) == part # None => file[hs[h].fd].len = FileSize

WorkRight(h) ==
  /\ AtWork(h) => OpenRight(h)
  /\ hs[h].pc = "copy" => CopyRight(h)
  /\ hs[h].pc = "truncate" => TruncateRight(h)
  /\ hs[h].pc = "rename" => RenameRight(h)

Contents == ~split => FilesRight /\ \A h \in Handlers : WorkRight(h)

IInv == TypeInv /\ Alone /\ Contents

----------------------------------------------------------------------------
(* Data *)

\* The slice at an offset ends inside the file, and the last one at its end.
LEMMA EndBounds ==
  ASSUME NEW off \in 0..FileSize
  PROVE  /\ End(off) \in 0..FileSize
         /\ off <= End(off)
         /\ Last(off) => End(off) = FileSize
BY SizesAssumption DEF End, Last

\* Writing keeps contents within FileSize, and makes no hole unless it is past the end.
LEMMA WriteAtFacts ==
  ASSUME NEW c \in Content, NEW p \in 0..FileSize, p < FileSize
  PROVE  /\ WriteAt(c, p) \in Content
         /\ WriteAt(c, p).len = IF p < c.len THEN c.len ELSE p + 1
         /\ p <= c.len /\ c.zeros = {} => WriteAt(c, p).zeros = {}
<1>1. c.len \in 0..FileSize /\ c.zeros \in SUBSET (1..FileSize)
  BY DEF Content
<1>2. (c.zeros \ {p + 1}) \cup ((c.len + 1)..p) \in SUBSET (1..FileSize)
  BY <1>1, SizesAssumption
<1>3. p <= c.len => (c.len + 1)..p = {}
  BY <1>1, SizesAssumption
<1> QED
  BY <1>1, <1>2, <1>3, SizesAssumption DEF WriteAt, Content

\* Truncating does too, and makes no hole unless it lengthens the file.
LEMMA TruncateToFacts ==
  ASSUME NEW c \in Content, NEW k \in 0..FileSize
  PROVE  /\ TruncateTo(c, k) \in Content
         /\ k <= c.len /\ c.zeros = {} => TruncateTo(c, k).zeros = {}
<1>1. c.len \in 0..FileSize /\ c.zeros \in SUBSET (1..FileSize)
  BY DEF Content
<1>2. (c.zeros \cap (1..k)) \cup ((c.len + 1)..k) \in SUBSET (1..FileSize)
  BY <1>1, SizesAssumption
<1>3. k <= c.len => (c.len + 1)..k = {}
  BY <1>1, SizesAssumption
<1> QED
  BY <1>1, <1>2, <1>3, SizesAssumption DEF TruncateTo, Content

LEMMA PartSizeType == TypeOK => PartSize \in 0..FileSize
BY SizesAssumption, NoneAssumption DEF TypeOK, PartSize, Content

\* The lock a request is given is a mutex.
LEMMA PartLockType == TypeOK /\ PartLock => entry' \in Mutexes
<1>1. FreeMutexes # {} => (CHOOSE m \in FreeMutexes : TRUE) \in FreeMutexes
  OBVIOUS
<1> QED
  BY <1>1, NoneAssumption DEF TypeOK, PartLock, FreeMutexes

\* The part that is opened is the one at the path, or an empty file nobody knows.
LEMMA OpenPartFacts ==
  ASSUME TypeOK, OpenPart
  PROVE  /\ part' \in Inodes /\ file' \in [Inodes -> Content] /\ aged' \in BOOLEAN
         /\ part # None => part' = part /\ file' = file
         /\ part = None => /\ part' \notin saved
                           /\ file' = [file EXCEPT ![part'] = Empty]
<1>1. FreeInodes # {} => (CHOOSE i \in FreeInodes : TRUE) \in FreeInodes
  OBVIOUS
<1>2. FreeInodes \subseteq Inodes \ saved
  BY DEF FreeInodes
<1>3. Empty \in Content
  BY SizesAssumption DEF Empty, Content
<1>4. CASE part # None
  BY <1>4, NoneAssumption DEF TypeOK, OpenPart
<1>5. CASE part = None
  <2>1. part' \in Inodes \ saved
    BY <1>1, <1>2, <1>5 DEF OpenPart
  <2>2. file' = [file EXCEPT ![part'] = Empty] /\ aged' = FALSE
    BY <1>5 DEF OpenPart
  <2> QED
    BY <2>1, <2>2, <1>3, <1>5 DEF TypeOK
<1> QED
  BY <1>4, <1>5


----------------------------------------------------------------------------
(* Requests and their pages *)

\* A reply a waiting page can be given.
Replies == {cl \in Client : /\ cl.pc # "waiting"
                            /\ cl.pc = "send" => cl.attempt <= Retries}

LEMMA RetryIsReply ==
  ASSUME NEW cl \in Client, cl.attempt <= Retries, NEW off \in 0..FileSize
  PROVE  Retry(cl, off) \in Replies
<1> DEFINE pc == IF cl.attempt + 1 > Retries THEN "failed" ELSE "send"
<1>1. cl.attempt + 1 \in 0..Retries + 1
  BY SizesAssumption DEF Client
<1>2. pc \in ClientPc
  BY DEF ClientPc
<1>3. Retry(cl, off) \in Client
  BY <1>1, <1>2 DEF Retry, Client
<1>4. Retry(cl, off).pc = pc /\ Retry(cl, off).attempt = cl.attempt + 1
  BY DEF Retry, Client
<1> QED
  BY <1>1, <1>3, <1>4, SizesAssumption DEF Replies

\* A request whose page gets its reply, or has just lost it, is nobody's any more.
LEMMA Answered ==
  ASSUME TypeInv, NEW h \in Handlers, NEW reply, NEW x \in Handler, x.client = None,
         hs' = [hs EXCEPT ![h] = x], ToClient(h, reply),
         hs[h].client # None => reply \in Replies
  PROVE  hs' \in [Handlers -> Handler] /\ clients' \in [Clients -> Client] /\ Calls'
<1>1. hs \in [Handlers -> Handler] /\ clients \in [Clients -> Client] /\ Calls
  BY DEF TypeInv, TypeOK
<1>2. hs' \in [Handlers -> Handler]
  BY <1>1
<1>3. \A g \in Handlers : hs'[g] = IF g = h THEN x ELSE hs[g]
  BY <1>1
<1>4. CASE hs[h].client = None
  <2>1. clients' = clients
    BY <1>4 DEF ToClient
  <2> QED
    BY <1>1, <1>2, <1>3, <1>4, <2>1 DEF Calls
<1>5. CASE hs[h].client # None
  <2> DEFINE c == hs[h].client
  <2>1. clients' = [clients EXCEPT ![c] = reply] /\ c \in Clients
    BY <1>1, <1>5 DEF ToClient, Handler
  <2>2. reply \in Client /\ reply.pc # "waiting" /\ (reply.pc = "send" => reply.attempt <= Retries)
    BY <1>5 DEF Replies
  <2>3. clients' \in [Clients -> Client]
    BY <1>1, <2>1, <2>2
  <2>4. \A d \in Clients : clients'[d] = IF d = c THEN reply ELSE clients[d]
    BY <1>1, <2>1
  <2>5. \A g \in Handlers : hs'[g].client # None =>
          g # h /\ hs[g].client # c /\ hs'[g].client = hs[g].client /\ hs[g].client \in Clients
    BY <1>1, <1>3, <1>5 DEF Calls, Handler
  <2> QED
    BY <1>1, <1>2, <1>3, <2>2, <2>3, <2>4, <2>5 DEF Calls
<1> QED
  BY <1>4, <1>5

\* A request that goes on keeps its page.
LEMMA WentOn ==
  ASSUME TypeInv, NEW h \in Handlers, NEW x \in Handler, x.client = hs[h].client,
         hs' = [hs EXCEPT ![h] = x], clients' = clients
  PROVE  hs' \in [Handlers -> Handler] /\ clients' \in [Clients -> Client] /\ Calls'
<1>1. hs \in [Handlers -> Handler] /\ clients \in [Clients -> Client] /\ Calls
  BY DEF TypeInv, TypeOK
<1>2. hs' \in [Handlers -> Handler] /\ \A g \in Handlers : hs'[g].client = hs[g].client
  BY <1>1
<1> QED
  BY <1>1, <1>2 DEF Calls

\* The errors, conflicts and offsets a request answers with.
LEMMA RepliesGiven ==
  ASSUME TypeInv, NEW h \in Handlers, hs[h].client # None
  PROVE  /\ Retry(clients[hs[h].client], clients[hs[h].client].off) \in Replies
         /\ Retry(clients[hs[h].client], PartSize) \in Replies
         /\ [pc |-> "send", off |-> hs[h].pos, attempt |-> 0, acked |-> hs[h].pos] \in Replies
         /\ [clients[hs[h].client] EXCEPT !.pc = "done", !.attempt = 0] \in Replies
<1>1. hs[h] \in Handler /\ hs[h].client \in Clients
  BY DEF TypeInv, TypeOK, Handler
<1>2. clients[hs[h].client] \in Client /\ clients[hs[h].client].attempt <= Retries
  BY <1>1 DEF TypeInv, TypeOK, Calls
<1>3. clients[hs[h].client].off \in 0..FileSize /\ PartSize \in 0..FileSize
  BY <1>2, PartSizeType DEF TypeInv, Client
<1>4. [pc |-> "send", off |-> hs[h].pos, attempt |-> 0, acked |-> hs[h].pos] \in Replies
  BY <1>1, SizesAssumption DEF Handler, Replies, Client, ClientPc
<1>5. [clients[hs[h].client] EXCEPT !.pc = "done", !.attempt = 0] \in Replies
  <2> DEFINE cl == clients[hs[h].client]
             reply == [cl EXCEPT !.pc = "done", !.attempt = 0]
  <2>1. 0 \in 0..Retries + 1 /\ "done" \in ClientPc
    BY SizesAssumption DEF ClientPc
  <2>2. reply \in Client
    BY <1>2, <2>1 DEF Client
  <2>3. reply.pc = "done"
    BY <1>2 DEF Client
  <2> QED
    BY <2>2, <2>3 DEF Replies
<1>6. Retry(clients[hs[h].client], clients[hs[h].client].off) \in Replies
  BY <1>2, <1>3, RetryIsReply
<1>7. Retry(clients[hs[h].client], PartSize) \in Replies
  BY <1>2, <1>3, RetryIsReply
<1> QED
  BY <1>4, <1>5, <1>6, <1>7

LEMMA IdleType == IdleHandler \in Handler /\ IdleHandler.client = None
BY SizesAssumption DEF IdleHandler, Handler, HandlerPc

----------------------------------------------------------------------------
(* Type correctness *)

LEMMA TypeInit == Init => TypeInv
<1> SUFFICES ASSUME Init PROVE TypeInv
  OBVIOUS
<1>1. Empty \in Content
  BY SizesAssumption DEF Empty, Content
<1>2. hs \in [Handlers -> Handler] /\ \A h \in Handlers : hs[h].client = None
  BY IdleType DEF Init
<1>3. /\ clients \in [Clients -> Client]
      /\ \A c \in Clients : clients[c].pc = "probe"
  BY SizesAssumption DEF Init, Client, ClientPc
<1>4. faults \in [FaultKind -> Nat]
  BY DEF Init
<1>5. /\ part = None /\ saved = {} /\ placeholders = 0 /\ aged = FALSE
       /\ entry = None /\ split = FALSE
  BY DEF Init
<1>6. /\ part \in Inodes \cup {None} /\ saved \subseteq Inodes /\ placeholders \in Int
      /\ entry \in Mutexes \cup {None}
  BY <1>5
<1>11. aged \in BOOLEAN /\ split \in BOOLEAN
  BY <1>5
<1>7. gc \in [pc : {"idle", "stale", "try", "drop"}, mu : Mutexes \cup {None}]
  BY DEF Init
<1>8. file \in [Inodes -> Content]
  BY <1>1 DEF Init
<1>9. TypeOK
  BY <1>2, <1>3, <1>4, <1>6, <1>7, <1>8, <1>11 DEF TypeOK
<1>10. Calls
  BY <1>2, <1>3 DEF Calls
<1> QED
  BY <1>9, <1>10 DEF TypeInv

\* A fault is counted.
LEMMA FaultsType ==
  ASSUME TypeOK, NEW kind \in FaultKind, Happens(kind)
  PROVE  faults' \in [FaultKind -> Nat]
BY DEF TypeOK, Happens

\* The page's own steps.
LEMMA TypePage ==
  ASSUME TypeInv, NEW c \in Clients, ClientStep(c) \/ ProbeFails(c) \/ Resend(c)
  PROVE  TypeInv'
<1>1. /\ clients \in [Clients -> Client] /\ hs \in [Handlers -> Handler]
      /\ clients[c] \in Client /\ Calls
  BY DEF TypeInv, TypeOK
<1>2. CASE Send(c)
  <2> DEFINE h == CHOOSE h \in Handlers : hs[h].pc = "idle"
             x == [IdleHandler EXCEPT !.pc = "arrived", !.client = c, !.off = clients[c].off]
  <2>1. h \in Handlers /\ hs' = [hs EXCEPT ![h] = x]
    BY <1>2 DEF Send
  <2>2. clients[c].off \in 0..FileSize /\ "arrived" \in HandlerPc
    BY <1>1 DEF Client, HandlerPc
  <2>3. x \in Handler /\ x.client = c
    BY <2>2, IdleType DEF Handler
  <2>4. hs' \in [Handlers -> Handler] /\ \A g \in Handlers : hs'[g] = IF g = h THEN x ELSE hs[g]
    BY <1>1, <2>1, <2>3
  <2>5. /\ clients[c].pc = "send" /\ "waiting" \in ClientPc
        /\ clients' = [clients EXCEPT ![c].pc = "waiting"]
    BY <1>2 DEF Send, ClientPc
  <2>6. clients' \in [Clients -> Client]
    <3>1. [clients[c] EXCEPT !.pc = "waiting"] \in Client
      BY <1>1, <2>5 DEF Client
    <3>2. clients' = [clients EXCEPT ![c] = [clients[c] EXCEPT !.pc = "waiting"]]
      BY <2>5
    <3> QED
      BY <1>1, <3>1, <3>2
  <2>7. \A d \in Clients : /\ clients'[d].pc = IF d = c THEN "waiting" ELSE clients[d].pc
                           /\ clients'[d].attempt = clients[d].attempt
    BY <1>1, <2>5 DEF Client
  <2>8. \A g \in Handlers : hs[g].client # c
    BY <1>1, <2>5, NoneAssumption DEF Calls
  <2>9. \A g \in Handlers : hs[g].client # None => hs[g].client \in Clients
    BY <1>1 DEF Handler
  <2>10. Calls'
    <3> HIDE DEF h, x
    <3>1. ASSUME NEW g \in Handlers, hs'[g].client # None
          PROVE  clients'[hs'[g].client].pc = "waiting"
      <4>1. CASE g = h
        BY <4>1, <2>3, <2>4, <2>7
      <4>2. CASE g # h
        BY <4>2, <3>1, <1>1, <2>4, <2>7, <2>9 DEF Calls
      <4> QED
        BY <4>1, <4>2
    <3>2. \A f, g \in Handlers : hs'[f].client # None /\ hs'[f].client = hs'[g].client => f = g
      BY <1>1, <2>3, <2>4, <2>8 DEF Calls
    <3>3. \A d \in Clients : clients'[d].pc \in {"send", "waiting"}
                               => clients'[d].attempt <= Retries
      BY <1>1, <2>5, <2>7 DEF Calls
    <3> QED
      BY <3>1, <3>2, <3>3 DEF Calls
  <2> QED
    BY <1>2, <2>4, <2>6, <2>10 DEF Send, storage, TypeInv, TypeOK
<1>3. ASSUME Probe(c) \/ ProbeFails(c) \/ Resend(c)
      PROVE  \E cl \in Replies : clients' = [clients EXCEPT ![c] = cl]
  <2>1. CASE Probe(c)
    <3> DEFINE cl == [clients[c] EXCEPT !.pc = "send", !.attempt = 0, !.off = PartSize]
    <3>1. 0 \in 0..Retries + 1 /\ PartSize \in 0..FileSize /\ "send" \in ClientPc /\ 0 <= Retries
      BY SizesAssumption, PartSizeType DEF ClientPc, TypeInv
    <3>2. cl \in Client /\ cl.pc = "send" /\ cl.attempt = 0
      BY <1>1, <3>1 DEF Client
    <3>3. clients' = [clients EXCEPT ![c] = cl]
      BY <2>1 DEF Probe
    <3> QED
      BY <3>1, <3>2, <3>3 DEF Replies
  <2>2. CASE ProbeFails(c)
    <3> DEFINE cl == [clients[c] EXCEPT !.pc = "plain"]
    <3>1. cl \in Client /\ cl.pc = "plain"
      BY <1>1 DEF Client, ClientPc
    <3> QED
      BY <2>2, <3>1 DEF ProbeFails, Replies
  <2>3. CASE Resend(c)
    <3> DEFINE cl == [clients[c] EXCEPT !.pc = "probe", !.acked = 0]
    <3>1. 0 \in 0..FileSize /\ "probe" \in ClientPc
      BY SizesAssumption DEF ClientPc
    <3>2. cl \in Client /\ cl.pc = "probe"
      BY <1>1, <3>1 DEF Client
    <3>3. clients' = [clients EXCEPT ![c] = cl]
      BY <2>3 DEF Resend
    <3> QED
      BY <3>2, <3>3 DEF Replies
  <2> QED
    BY <1>3, <2>1, <2>2, <2>3
<1>4. CASE Probe(c) \/ ProbeFails(c) \/ Resend(c)
  <2>1. PICK cl \in Replies : clients' = [clients EXCEPT ![c] = cl]
    BY <1>3, <1>4
  <2>2. clients[c].pc # "waiting" /\ hs' = hs
    BY <1>4 DEF Probe, ProbeFails, Resend
  <2>3. clients' \in [Clients -> Client]
    BY <1>1, <2>1 DEF Replies
  <2>4. Calls'
    BY <1>1, <2>1, <2>2 DEF Calls, Replies, Handler
  <2>5. faults' \in [FaultKind -> Nat]
    BY <1>4, FaultsType DEF Probe, ProbeFails, Resend, TypeInv, TypeOK, FaultKind
  <2> QED
    BY <1>4, <2>2, <2>3, <2>4, <2>5
    DEF Probe, ProbeFails, Resend, storage, TypeInv, TypeOK
<1> QED
  BY <1>2, <1>4 DEF ClientStep

\* The steps of a request that is answered, or loses its page.
LEMMA TypeAnswer ==
  ASSUME TypeInv, NEW h \in Handlers,
         \/ LoseConnection(h) \/ OpenFails(h) \/ Mismatch(h) \/ Truncate(h) \/ Landed(h)
         \/ PlaceFails(h) \/ RenameFails(h) \/ Drop(h)
  PROVE  TypeInv'
<1>1. hs' \in [Handlers -> Handler] /\ clients' \in [Clients -> Client] /\ Calls'
  <2> DEFINE gone == [hs[h] EXCEPT !.client = None]
  <2>1. gone \in Handler /\ gone.client = None
    BY DEF TypeInv, TypeOK, Handler
  <2>2. \/ hs' = [hs EXCEPT ![h] = gone] /\ ReplyError(h)
        \/ /\ hs' = [hs EXCEPT ![h] = IdleHandler]
           /\ ReplyError(h) \/ ReplyConflict(h) \/ ReplyOffset(h) \/ ReplySaved(h)
    BY DEF LoseConnection, OpenFails, Mismatch, Truncate, Landed, PlaceFails, RenameFails,
           Drop, Return
  <2>3. \E reply : /\ ToClient(h, reply)
                   /\ hs[h].client # None => reply \in Replies
    <3>1. CASE ReplyError(h)
      BY <3>1, RepliesGiven DEF ReplyError
    <3>2. CASE ReplyConflict(h)
      BY <3>2, RepliesGiven DEF ReplyConflict
    <3>3. CASE ReplyOffset(h)
      BY <3>3, RepliesGiven DEF ReplyOffset
    <3>4. CASE ReplySaved(h)
      BY <3>4, RepliesGiven DEF ReplySaved
    <3> QED
      BY <2>2, <3>1, <3>2, <3>3, <3>4
  <2> QED
    BY <2>1, <2>2, <2>3, Answered, IdleType
<1>2. file' \in [Inodes -> Content] /\ aged' \in BOOLEAN /\ part' = part /\ saved' = saved
  <2>1. CASE Truncate(h)
    <3>1. hs[h].off \in 0..FileSize
      BY DEF TypeInv, TypeOK, Handler
    <3>2. part # None => TruncateTo(file[part], hs[h].off) \in Content
      BY <3>1, TruncateToFacts DEF TypeInv, TypeOK
    <3> QED
      BY <2>1, <3>2 DEF Truncate, TypeInv, TypeOK
  <2>2. CASE ~Truncate(h)
    BY <2>2 DEF LoseConnection, OpenFails, Mismatch, Landed, PlaceFails, RenameFails, Drop,
                storage, TypeInv, TypeOK
  <2> QED
    BY <2>1, <2>2
<1>3. placeholders' \in Int /\ entry' \in Mutexes \cup {None} /\ gc' = gc /\ split' = split
  BY DEF LoseConnection, OpenFails, Mismatch, Truncate, Landed, PlaceFails, RenameFails, Drop,
         storage, TypeInv, TypeOK
<1>4. faults' \in [FaultKind -> Nat]
  BY FaultsType DEF LoseConnection, OpenFails, Mismatch, Truncate, Landed, PlaceFails,
         RenameFails, Drop, TypeInv, TypeOK, FaultKind
<1> QED
  BY <1>1, <1>2, <1>3, <1>4 DEF TypeInv, TypeOK

\* The steps of a request that goes on.
LEMMA TypeWork ==
  ASSUME TypeInv, NEW h \in Handlers,
         \/ LookupLock(h) \/ LockAndOpen(h) \/ Match(h) \/ CopyUnit(h) \/ CopyFails(h)
         \/ Place(h) \/ Rename(h)
  PROVE  TypeInv'
<1>1. hs[h] \in Handler /\ hs \in [Handlers -> Handler] /\ file \in [Inodes -> Content]
  BY DEF TypeInv, TypeOK
<1>2. \A pc \in HandlerPc : hs' = [hs EXCEPT ![h].pc = pc] =>
        \E x \in Handler : x.client = hs[h].client /\ hs' = [hs EXCEPT ![h] = x]
  <2> TAKE pc \in HandlerPc
  <2> HAVE hs' = [hs EXCEPT ![h].pc = pc]
  <2>1. [hs[h] EXCEPT !.pc = pc] \in Handler
    BY <1>1 DEF Handler
  <2>2. [hs[h] EXCEPT !.pc = pc].client = hs[h].client
    BY <1>1 DEF Handler
  <2>3. hs' = [hs EXCEPT ![h] = [hs[h] EXCEPT !.pc = pc]]
    OBVIOUS
  <2> QED
    BY <2>1, <2>2, <2>3
<1>3. \E x \in Handler : x.client = hs[h].client /\ hs' = [hs EXCEPT ![h] = x]
  <2>1. CASE LookupLock(h)
    <3> DEFINE x == [hs[h] EXCEPT !.pc = "blocked", !.mu = entry']
    <3>1. entry' \in Mutexes /\ "blocked" \in HandlerPc
      BY <2>1, PartLockType DEF LookupLock, TypeInv, HandlerPc
    <3>2. x \in Handler /\ x.client = hs[h].client
      BY <1>1, <3>1 DEF Handler
    <3> QED
      BY <2>1, <3>2 DEF LookupLock
  <2>2. CASE LockAndOpen(h)
    <3> DEFINE x == [hs[h] EXCEPT !.pc = "check", !.fd = part']
    <3>1. part' \in Inodes /\ "check" \in HandlerPc
      BY <2>2, OpenPartFacts DEF LockAndOpen, TypeInv, HandlerPc
    <3>2. x \in Handler /\ x.client = hs[h].client
      BY <1>1, <3>1 DEF Handler
    <3> QED
      BY <2>2, <3>2 DEF LockAndOpen
  <2>3. CASE Match(h)
    <3> DEFINE x == [hs[h] EXCEPT !.pc = "copy", !.pos = hs[h].off]
    <3>1. hs[h].off \in 0..FileSize /\ "copy" \in HandlerPc
      BY <1>1 DEF Handler, HandlerPc
    <3>2. x \in Handler /\ x.client = hs[h].client
      BY <1>1, <3>1 DEF Handler
    <3> QED
      BY <2>3, <3>2 DEF Match
  <2>4. CASE CopyUnit(h)
    <3> DEFINE x == [hs[h] EXCEPT !.pos = hs[h].pos + 1]
    <3>1. hs[h].pos < End(hs[h].off) /\ hs[h].off \in 0..FileSize /\ hs[h].pos \in 0..FileSize
      BY <1>1, <2>4 DEF CopyUnit, Handler
    <3>2. hs[h].pos + 1 \in 0..FileSize
      BY <3>1, EndBounds, SizesAssumption
    <3>3. x \in Handler /\ x.client = hs[h].client
      BY <1>1, <3>2 DEF Handler
    <3> QED
      BY <2>4, <3>3 DEF CopyUnit
  <2>5. CASE CopyFails(h)
    <3>1. hs' = [hs EXCEPT ![h].pc = "truncate"] /\ "truncate" \in HandlerPc
      BY <2>5 DEF CopyFails, Goto, HandlerPc
    <3> QED
      BY <1>2, <3>1
  <2>6. CASE Place(h)
    <3>1. hs' = [hs EXCEPT ![h].pc = "rename"] /\ "rename" \in HandlerPc
      BY <2>6 DEF Place, Goto, HandlerPc
    <3> QED
      BY <1>2, <3>1
  <2>7. CASE Rename(h)
    <3>1. hs' = [hs EXCEPT ![h].pc = "drop"] /\ "drop" \in HandlerPc
      BY <2>7 DEF Rename, Goto, HandlerPc
    <3> QED
      BY <1>2, <3>1
  <2> QED
    BY <2>1, <2>2, <2>3, <2>4, <2>5, <2>6, <2>7
<1>4. clients' = clients
  BY DEF LookupLock, LockAndOpen, Match, CopyUnit, CopyFails, Place, Rename
<1>5. hs' \in [Handlers -> Handler] /\ clients' \in [Clients -> Client] /\ Calls'
  BY <1>3, <1>4, WentOn
<1>6. /\ part' \in Inodes \cup {None} /\ file' \in [Inodes -> Content]
      /\ saved' \subseteq Inodes /\ aged' \in BOOLEAN
  <2>1. CASE LockAndOpen(h)
    BY <2>1, OpenPartFacts DEF LockAndOpen, TypeInv, TypeOK
  <2>2. CASE CopyUnit(h)
    <3>1. hs[h].pos \in 0..FileSize /\ hs[h].pos < FileSize
      BY <1>1, <2>2, EndBounds, SizesAssumption DEF CopyUnit, Handler
    <3>2. hs[h].fd \in Inodes => WriteAt(file[hs[h].fd], hs[h].pos) \in Content
      BY <1>1, <3>1, WriteAtFacts
    <3>3. file' \in [Inodes -> Content]
      BY <1>1, <2>2, <3>2 DEF CopyUnit
    <3>4. aged' \in BOOLEAN
      BY <2>2, Zenon DEF CopyUnit
    <3> QED
      BY <2>2, <3>3, <3>4 DEF CopyUnit, TypeInv, TypeOK
  <2>3. CASE Rename(h)
    BY <2>3 DEF Rename, TypeInv, TypeOK
  <2>4. CASE LookupLock(h) \/ Match(h) \/ CopyFails(h) \/ Place(h)
    BY <2>4 DEF LookupLock, Match, CopyFails, Place, storage, TypeInv, TypeOK
  <2> QED
    BY <2>1, <2>2, <2>3, <2>4
<1>7. placeholders' \in Int /\ gc' = gc
  BY DEF LookupLock, LockAndOpen, Match, CopyUnit, CopyFails, Place, Rename, storage,
         TypeInv, TypeOK
<1>8. entry' \in Mutexes \cup {None}
  BY PartLockType DEF LookupLock, LockAndOpen, Match, CopyUnit, CopyFails, Place, Rename,
         TypeInv, TypeOK
<1>9. split' \in BOOLEAN
  BY Zenon DEF LookupLock, LockAndOpen, Match, CopyUnit, CopyFails, Place, Rename,
               TypeInv, TypeOK
<1>10. faults' \in [FaultKind -> Nat]
  BY FaultsType DEF LookupLock, LockAndOpen, Match, CopyUnit, CopyFails, Place, Rename,
         TypeInv, TypeOK, FaultKind
<1> QED
  BY <1>5, <1>6, <1>7, <1>8, <1>9, <1>10 DEF TypeInv, TypeOK

\* The sweep, and time.
LEMMA TypeSweep ==
  ASSUME TypeInv, GcFind \/ GcStep \/ Age
  PROVE  TypeInv'
<1>1. Calls'
  BY DEF GcFind, GcStep, GcLookupLock, GcSkip, GcRemove, GcDrop, Age, TypeInv, Calls
<1>2. gc' \in [pc : {"idle", "stale", "try", "drop"}, mu : Mutexes \cup {None}]
  BY PartLockType DEF GcFind, GcStep, GcLookupLock, GcSkip, GcRemove, GcDrop, Age,
         TypeInv, TypeOK
<1>3. entry' \in Mutexes \cup {None}
  BY PartLockType DEF GcFind, GcStep, GcLookupLock, GcSkip, GcRemove, GcDrop, Age,
         TypeInv, TypeOK
<1>4. faults' \in [FaultKind -> Nat]
  BY FaultsType DEF GcFind, GcStep, GcLookupLock, GcSkip, GcRemove, GcDrop, Age,
         TypeInv, TypeOK, FaultKind
<1> QED
  BY <1>1, <1>2, <1>3, <1>4
  DEF GcFind, GcStep, GcLookupLock, GcSkip, GcRemove, GcDrop, Age, storage, TypeInv, TypeOK

\* A restart frees every goroutine, and every page that waited tries again.
LEMMA TypeRestart == TypeInv /\ Restart => TypeInv'
<1> SUFFICES ASSUME TypeInv, Restart PROVE TypeInv'
  OBVIOUS
<1>1. hs' \in [Handlers -> Handler] /\ \A h \in Handlers : hs'[h].client = None
  BY IdleType DEF Restart
<1>2. \A c \in Clients : /\ clients'[c] \in Client
                         /\ clients'[c].pc \in {"send", "waiting"} => clients'[c].attempt <= Retries
  <2> TAKE c \in Clients
  <2>1. clients[c] \in Client /\ clients[c].off \in 0..FileSize
    BY DEF TypeInv, TypeOK, Client
  <2>2. CASE clients[c].pc = "waiting"
    <3>1. clients[c].attempt <= Retries
      BY <2>2 DEF TypeInv, Calls
    <3>2. Retry(clients[c], clients[c].off) \in Replies
      BY <2>1, <3>1, RetryIsReply
    <3> QED
      BY <2>2, <3>2 DEF Restart, Replies
  <2>3. CASE clients[c].pc # "waiting"
    BY <2>1, <2>3 DEF Restart, TypeInv, Calls
  <2> QED
    BY <2>2, <2>3
<1>3. clients' \in [Clients -> Client]
  BY <1>2 DEF Restart
<1>4. Calls'
  BY <1>1, <1>2 DEF Calls
<1>5. faults' \in [FaultKind -> Nat]
  BY FaultsType DEF Restart, TypeInv, FaultKind
<1>6. gc' \in [pc : {"idle", "stale", "try", "drop"}, mu : Mutexes \cup {None}]
  BY DEF Restart
<1> QED
  BY <1>1, <1>3, <1>4, <1>5, <1>6 DEF Restart, storage, TypeInv, TypeOK

LEMMA TypeNext == TypeInv /\ [Next]_vars => TypeInv'
<1> SUFFICES ASSUME TypeInv, [Next]_vars PROVE TypeInv'
  OBVIOUS
<1>1. ASSUME NEW h \in Handlers, HandlerStep(h) \/ HandlerFault(h) PROVE TypeInv'
  BY <1>1, TypeAnswer, TypeWork DEF HandlerStep, HandlerFault
<1>2. ASSUME NEW c \in Clients, ClientStep(c) \/ ProbeFails(c) \/ Resend(c) PROVE TypeInv'
  BY <1>2, TypePage
<1>3. CASE GcFind \/ GcStep \/ Age
  BY <1>3, TypeSweep
<1>4. CASE Restart
  BY <1>4, TypeRestart
<1>5. CASE UNCHANGED vars
  BY <1>5 DEF vars, TypeInv, TypeOK, Calls
<1> QED
  BY <1>1, <1>2, <1>3, <1>4, <1>5 DEF Next

\* Every reachable state has its type: in particular a page never counts more attempts than
\* its retries allow, and no offset leaves the file.
THEOREM TypeCorrect == Spec => []TypeOK
<1>1. Init => TypeInv
  BY TypeInit
<1>2. TypeInv /\ [Next]_vars => TypeInv'
  BY TypeNext
<1>3. TypeInv => TypeOK
  BY DEF TypeInv
<1> QED
  BY <1>1, <1>2, <1>3, PTL DEF Spec

----------------------------------------------------------------------------
(* What is saved is whole *)

\* Only opening the part puts a request to work on it.
LEMMA WorkBegins ==
  ASSUME TypeInv, [Next]_vars, \A h \in Handlers : ~LockAndOpen(h)
  PROVE  split' = split /\ \A g \in Handlers : AtWork(g)' => AtWork(g)
<1>1. hs \in [Handlers -> Handler]
  BY DEF TypeInv, TypeOK
<1>2. ASSUME NEW h \in Handlers, HandlerStep(h) \/ HandlerFault(h)
      PROVE  split' = split /\ \A g \in Handlers : AtWork(g)' => AtWork(g)
  <2>1. CASE \/ LookupLock(h) \/ Match(h) \/ CopyUnit(h) \/ CopyFails(h) \/ Place(h)
             \/ Rename(h) \/ LoseConnection(h)
    BY <1>1, <2>1 DEF LookupLock, Match, CopyUnit, CopyFails, Place, Rename, LoseConnection,
                      Goto, AtWork, Handler
  <2>2. CASE \/ OpenFails(h) \/ Mismatch(h) \/ Truncate(h) \/ Landed(h) \/ PlaceFails(h)
             \/ RenameFails(h) \/ Drop(h)
    BY <1>1, <2>2 DEF OpenFails, Mismatch, Truncate, Landed, PlaceFails, RenameFails, Drop,
                      Return, IdleHandler, AtWork, Handler
  <2> QED
    BY <1>2, <2>1, <2>2 DEF HandlerStep, HandlerFault
<1>3. ASSUME NEW c \in Clients, ClientStep(c) \/ ProbeFails(c) \/ Resend(c)
      PROVE  split' = split /\ \A g \in Handlers : AtWork(g)' => AtWork(g)
  BY <1>1, <1>3, ZenonT(40) DEF ClientStep, Probe, Send, ProbeFails, Resend, IdleHandler, AtWork, Handler
<1>4. CASE GcFind \/ GcStep \/ Age
  BY <1>4 DEF GcFind, GcStep, GcLookupLock, GcSkip, GcRemove, GcDrop, Age, AtWork
<1>5. CASE Restart
  BY <1>5 DEF Restart, IdleHandler, AtWork
<1>6. CASE UNCHANGED vars
  BY <1>6 DEF vars, AtWork
<1> QED
  BY <1>2, <1>3, <1>4, <1>5, <1>6 DEF Next

LEMMA AloneNext == TypeInv /\ Alone /\ [Next]_vars => Alone'
<1> SUFFICES ASSUME TypeInv, Alone, [Next]_vars PROVE Alone'
  OBVIOUS
<1>1. ASSUME NEW h \in Handlers, LockAndOpen(h) PROVE Alone'
  <2>1. \A g \in Handlers \ {h} : AtWork(g)' <=> AtWork(g)
    BY <1>1 DEF LockAndOpen, AtWork, TypeInv, TypeOK
  <2>2. split' = (split \/ \E g \in Handlers \ {h} : AtWork(g))
    BY <1>1 DEF LockAndOpen
  <2> QED
    BY <2>1, <2>2 DEF Alone
<1>2. CASE \A h \in Handlers : ~LockAndOpen(h)
  BY <1>2, WorkBegins DEF Alone
<1> QED
  BY <1>1, <1>2

\* A step that leaves the files alone, and every request at work where it is, leaves the
\* invariant alone.
LEMMA ContentsKept ==
  ASSUME Contents, split' = split, part' = part, file' = file, saved' = saved,
         \A g \in Handlers : AtWork(g)' =>
           /\ hs'[g].pc = hs[g].pc /\ hs'[g].off = hs[g].off
           /\ hs'[g].fd = hs[g].fd /\ hs'[g].pos = hs[g].pos
  PROVE  Contents'
<1> SUFFICES ASSUME ~split PROVE FilesRight' /\ \A g \in Handlers : WorkRight(g)'
  BY DEF Contents
<1>1. FilesRight'
  BY DEF Contents, FilesRight
<1>2. ASSUME NEW g \in Handlers PROVE WorkRight(g)'
  <2>1. WorkRight(g)
    BY DEF Contents
  <2>2. CASE AtWork(g)'
    BY <2>1, <2>2 DEF WorkRight, AtWork, OpenRight, CopyRight, TruncateRight, RenameRight
  <2>3. CASE ~AtWork(g)'
    BY <2>3 DEF WorkRight, AtWork
  <2> QED
    BY <2>2, <2>3
<1> QED
  BY <1>1, <1>2

\* A step of the one request at work.
LEMMA ContentsOfOne ==
  ASSUME Alone, NEW h \in Handlers, hs \in [Handlers -> Handler], NEW x,
         hs' = [hs EXCEPT ![h] = x],
         ~split, AtWork(h), FilesRight', WorkRight(h)'
  PROVE  Contents'
<1>1. ASSUME NEW g \in Handlers, g # h PROVE WorkRight(g)'
  <2>1. ~AtWork(g) /\ hs'[g] = hs[g]
    BY <1>1 DEF Alone
  <2> QED
    BY <2>1 DEF WorkRight, AtWork
<1> QED
  BY <1>1 DEF Contents

\* What the invariant says of the request at work.
LEMMA AtWorkFacts ==
  ASSUME IInv, ~split, NEW h \in Handlers, AtWork(h)
  PROVE  /\ hs[h] \in Handler /\ hs[h].off \in 0..FileSize /\ hs[h].pos \in 0..FileSize
         /\ FilesRight /\ WorkRight(h) /\ OpenRight(h)
         /\ file[hs[h].fd] \in Content /\ file[hs[h].fd].len \in 0..FileSize
         /\ part # None => part = hs[h].fd
<1>1. hs[h] \in Handler /\ file \in [Inodes -> Content]
  BY DEF IInv, TypeInv, TypeOK
<1>2. FilesRight /\ WorkRight(h)
  BY DEF IInv, Contents
<1>3. OpenRight(h)
  BY <1>2 DEF WorkRight
<1>4. file[hs[h].fd] \in Content
  BY <1>1, <1>3 DEF OpenRight
<1> QED
  BY <1>1, <1>2, <1>3, <1>4 DEF Handler, Content, OpenRight

LEMMA ContentsOpen ==
  ASSUME IInv, NEW h \in Handlers, LockAndOpen(h)
  PROVE  Contents'
<1> SUFFICES ASSUME ~split' PROVE FilesRight' /\ \A g \in Handlers : WorkRight(g)'
  BY DEF Contents
<1>1. ~split /\ \A g \in Handlers \ {h} : ~AtWork(g)
  BY DEF LockAndOpen
<1>2. FilesRight /\ saved' = saved
  BY <1>1 DEF IInv, Contents, LockAndOpen
<1>3. /\ part' \in Inodes /\ part' \notin saved /\ file'[part'].zeros = {}
      /\ \A i \in saved : file'[i] = file[i]
  BY <1>2, OpenPartFacts, NoneAssumption
  DEF LockAndOpen, IInv, TypeInv, TypeOK, FilesRight, Empty
<1>4. FilesRight'
  BY <1>2, <1>3 DEF FilesRight
<1>5. hs'[h].pc = "check" /\ hs'[h].fd = part'
  BY DEF LockAndOpen, IInv, TypeInv, TypeOK, Handler
<1>6. WorkRight(h)'
  BY <1>2, <1>3, <1>5 DEF WorkRight, OpenRight
<1>7. ASSUME NEW g \in Handlers, g # h PROVE WorkRight(g)'
  <2>1. ~AtWork(g) /\ hs'[g] = hs[g]
    BY <1>1, <1>7 DEF LockAndOpen, IInv, TypeInv, TypeOK
  <2> QED
    BY <2>1 DEF WorkRight, AtWork
<1> QED
  BY <1>4, <1>6, <1>7

\* The steps in which a request moves on through its slice without touching a file.
LEMMA ContentsMove ==
  ASSUME IInv, NEW h \in Handlers, Match(h) \/ CopyFails(h) \/ Place(h)
  PROVE  Contents'
<1> SUFFICES ASSUME ~split PROVE Contents'
  BY DEF Match, CopyFails, Place, Contents
<1>1. AtWork(h)
  BY DEF Match, CopyFails, Place, AtWork
<1>2. hs \in [Handlers -> Handler] /\ Alone
  BY DEF IInv, TypeInv, TypeOK
<1>3. part' = part /\ file' = file /\ saved' = saved
  BY DEF Match, CopyFails, Place, storage
<1>4. /\ hs[h].off \in 0..FileSize /\ hs[h].pos \in 0..FileSize /\ FilesRight
      /\ WorkRight(h) /\ OpenRight(h) /\ file[hs[h].fd].len \in 0..FileSize
      /\ part # None => part = hs[h].fd
  BY <1>1, AtWorkFacts
<1>5. FilesRight'
  BY <1>3, <1>4 DEF FilesRight
<1>6. hs'[h].fd = hs[h].fd /\ hs'[h].off = hs[h].off
  BY <1>2 DEF Match, CopyFails, Place, Goto, Handler
<1>7. OpenRight(h)'
  BY <1>3, <1>4, <1>6 DEF OpenRight
<1>8. CASE Match(h)
  <2>1. hs'[h].pc = "copy" /\ hs'[h].pos = hs[h].off /\ hs[h].off = PartSize
    BY <1>2, <1>8 DEF Match, Handler
  <2>2. CopyRight(h)'
    BY <1>3, <1>4, <1>6, <2>1, EndBounds, SizesAssumption DEF CopyRight, PartSize
  <2> QED
    BY <1>1, <1>2, <1>5, <1>7, <1>8, <2>1, <2>2, ContentsOfOne DEF WorkRight, Match
<1>9. CASE CopyFails(h)
  <2>1. hs[h].pc = "copy" /\ hs'[h].pc = "truncate"
    BY <1>2, <1>9 DEF CopyFails, Goto, Handler
  <2>2. TruncateRight(h)'
    BY <1>3, <1>4, <1>6, <2>1 DEF TruncateRight, WorkRight, CopyRight
  <2> QED
    BY <1>1, <1>2, <1>5, <1>7, <1>9, <2>1, <2>2, ContentsOfOne DEF WorkRight, CopyFails, Goto
<1>10. CASE Place(h)
  <2>1. /\ hs[h].pc = "copy" /\ hs'[h].pc = "rename"
        /\ hs[h].pos = End(hs[h].off) /\ Last(hs[h].off)
    BY <1>2, <1>10 DEF Place, Goto, Handler
  <2>2. RenameRight(h)'
    BY <1>3, <1>4, <1>6, <2>1, EndBounds DEF RenameRight, WorkRight, CopyRight
  <2> QED
    BY <1>1, <1>2, <1>5, <1>7, <1>10, <2>1, <2>2, ContentsOfOne DEF WorkRight, Place, Goto
<1> QED
  BY <1>8, <1>9, <1>10

LEMMA ContentsCopy ==
  ASSUME IInv, NEW h \in Handlers, CopyUnit(h)
  PROVE  Contents'
<1> SUFFICES ASSUME ~split PROVE Contents'
  BY DEF CopyUnit, Contents
<1> DEFINE fd == hs[h].fd
           pos == hs[h].pos
           new == WriteAt(file[fd], pos)
<1>1. AtWork(h) /\ hs[h].pc = "copy" /\ pos < End(hs[h].off)
  BY DEF CopyUnit, AtWork
<1>2. hs \in [Handlers -> Handler] /\ file \in [Inodes -> Content] /\ Alone
  BY DEF IInv, TypeInv, TypeOK
<1>3. /\ hs[h].off \in 0..FileSize /\ pos \in 0..FileSize /\ FilesRight /\ WorkRight(h)
      /\ OpenRight(h) /\ file[fd] \in Content /\ file[fd].len \in 0..FileSize
      /\ part # None => part = fd
  BY <1>1, AtWorkFacts
<1>4. fd \in Inodes \ saved /\ file[fd].zeros = {} /\ CopyRight(h)
  BY <1>1, <1>3 DEF OpenRight, WorkRight
<1>5. pos < FileSize
  BY <1>1, <1>3, EndBounds, SizesAssumption
<1>6. new.zeros = {} /\ new.len = IF pos < file[fd].len THEN file[fd].len ELSE pos + 1
  BY <1>3, <1>4, <1>5, WriteAtFacts DEF CopyRight
<1>7. file' = [file EXCEPT ![fd] = new] /\ part' = part /\ saved' = saved
  BY DEF CopyUnit
<1>8. file'[fd] = new /\ \A i \in Inodes \ {fd} : file'[i] = file[i]
  BY <1>2, <1>4, <1>7
<1>9. FilesRight'
  BY <1>3, <1>4, <1>6, <1>7, <1>8 DEF FilesRight, IInv, TypeInv, TypeOK
<1>10. /\ hs'[h].pc = "copy" /\ hs'[h].fd = fd /\ hs'[h].off = hs[h].off
       /\ hs'[h].pos = pos + 1
  BY <1>1, <1>2 DEF CopyUnit, Handler
<1>11. OpenRight(h)'
  BY <1>3, <1>4, <1>6, <1>7, <1>8, <1>10 DEF OpenRight
<1>12. End(hs[h].off) \in 0..FileSize
  BY <1>3, EndBounds
<1>13. CopyRight(h)'
  <2> HIDE DEF new, fd, pos
  <2>1. file[fd].len \in Int /\ pos \in Int /\ hs[h].off \in Int /\ End(hs[h].off) \in Int
    BY <1>3, <1>12
  <2>2. pos <= file[fd].len /\ hs[h].off <= pos /\ (part # None => pos = file[fd].len)
    BY <1>4 DEF CopyRight, fd, pos
  <2>3. file'[hs'[h].fd].len = IF pos < file[fd].len THEN file[fd].len ELSE pos + 1
    BY <1>6, <1>8, <1>10
  <2> QED
    BY <1>1, <1>7, <1>10, <2>1, <2>2, <2>3 DEF CopyRight
<1>14. WorkRight(h)'
  BY <1>10, <1>11, <1>13 DEF WorkRight
<1> QED
  BY <1>1, <1>2, <1>9, <1>14, ContentsOfOne DEF CopyUnit

LEMMA ContentsTruncate ==
  ASSUME IInv, NEW h \in Handlers, Truncate(h)
  PROVE  Contents'
<1> SUFFICES ASSUME ~split PROVE Contents'
  BY DEF Truncate, Contents
<1>1. AtWork(h) /\ hs[h].pc = "truncate"
  BY DEF Truncate, AtWork
<1>2. hs \in [Handlers -> Handler] /\ file \in [Inodes -> Content] /\ Alone
  BY DEF IInv, TypeInv, TypeOK
<1>3. /\ hs[h].off \in 0..FileSize /\ FilesRight /\ WorkRight(h)
      /\ file[hs[h].fd] \in Content
      /\ part # None => part = hs[h].fd
  BY <1>1, AtWorkFacts
<1>4. part # None => TruncateTo(file[part], hs[h].off).zeros = {}
  <2>1. part # None => hs[h].off <= file[part].len /\ file[part].zeros = {}
    BY <1>1, <1>3 DEF WorkRight, TruncateRight, FilesRight
  <2> QED
    BY <1>3, <2>1, TruncateToFacts
<1>5. FilesRight'
  <2>1. part' = part /\ saved' = saved
    BY DEF Truncate
  <2>2. CASE part = None
    BY <1>3, <2>1, <2>2 DEF Truncate, FilesRight
  <2>3. CASE part # None
    <3>1. file' = [file EXCEPT ![part] = TruncateTo(file[part], hs[h].off)] /\ part \in Inodes
      BY <1>2, <2>3 DEF Truncate, IInv, TypeInv, TypeOK
    <3> QED
      BY <1>2, <1>3, <1>4, <2>1, <2>3, <3>1 DEF FilesRight
  <2> QED
    BY <2>2, <2>3
<1>6. hs'[h].pc = "idle"
  BY <1>2 DEF Truncate, Return, IdleHandler
<1>7. WorkRight(h)'
  BY <1>6 DEF WorkRight, AtWork
<1> QED
  BY <1>1, <1>2, <1>5, <1>7, ContentsOfOne DEF Truncate, Return

\* The one step that saves: what it renames is complete and has no hole.
LEMMA ContentsRename ==
  ASSUME IInv, NEW h \in Handlers, Rename(h)
  PROVE  Contents'
<1> SUFFICES ASSUME ~split PROVE Contents'
  BY DEF Rename, Contents
<1>1. AtWork(h) /\ hs[h].pc = "rename" /\ part # None
  BY DEF Rename, AtWork
<1>2. hs \in [Handlers -> Handler] /\ Alone
  BY DEF IInv, TypeInv, TypeOK
<1>3. FilesRight /\ WorkRight(h) /\ file[hs[h].fd] \in Content /\ part = hs[h].fd
  BY <1>1, AtWorkFacts
<1>4. file[part].len = FileSize /\ file[part].zeros = {}
  BY <1>1, <1>3 DEF WorkRight, RenameRight, FilesRight
<1>5. file[part] = Whole
  <2>1. \A c \in Content : c.len = FileSize /\ c.zeros = {} => c = Whole
    BY DEF Content, Whole
  <2> QED
    BY <1>3, <1>4, <2>1
<1>6. FilesRight'
  BY <1>3, <1>5, NoneAssumption DEF Rename, FilesRight, IInv, TypeInv, TypeOK
<1>7. hs'[h].pc = "drop"
  BY <1>2 DEF Rename, Goto, Handler
<1>8. WorkRight(h)'
  BY <1>7 DEF WorkRight, AtWork
<1> QED
  BY <1>1, <1>2, <1>6, <1>8, ContentsOfOne DEF Rename, Goto

\* The sweep unlinks a part, whoever has it open.
LEMMA ContentsRemove ==
  ASSUME IInv, GcRemove
  PROVE  Contents'
<1> SUFFICES ASSUME ~split PROVE FilesRight' /\ \A g \in Handlers : WorkRight(g)'
  BY DEF GcRemove, Contents
<1>1. FilesRight /\ \A g \in Handlers : WorkRight(g)
  BY DEF IInv, Contents
<1>2. part' = None /\ file' = file /\ saved' = saved /\ hs' = hs /\ None \notin saved
  BY NoneAssumption DEF GcRemove, IInv, TypeInv, TypeOK
<1>3. FilesRight'
  BY <1>1, <1>2 DEF FilesRight
<1>4. ASSUME NEW g \in Handlers PROVE WorkRight(g)'
  <2>1. AtWork(g)' => OpenRight(g)'
    BY <1>1, <1>2 DEF WorkRight, AtWork, OpenRight
  <2>2. hs'[g].pc = "copy" => CopyRight(g)'
    BY <1>1, <1>2 DEF WorkRight, CopyRight
  <2> QED
    BY <1>2, <2>1, <2>2 DEF WorkRight, TruncateRight, RenameRight
<1> QED
  BY <1>3, <1>4

\* The steps that touch a file or move a request at work.
Working(h) ==
  \/ LockAndOpen(h) \/ Match(h) \/ CopyFails(h) \/ Place(h)
  \/ CopyUnit(h) \/ Truncate(h) \/ Rename(h)

\* Every other step leaves the requests at work where they are.
LEMMA Elsewhere ==
  ASSUME TypeInv, [Next]_vars, ~GcRemove, \A h \in Handlers : ~Working(h)
  PROVE  /\ split' = split /\ part' = part /\ file' = file /\ saved' = saved
         /\ \A g \in Handlers : AtWork(g)' =>
              /\ hs'[g].pc = hs[g].pc /\ hs'[g].off = hs[g].off
              /\ hs'[g].fd = hs[g].fd /\ hs'[g].pos = hs[g].pos
<1> DEFINE Same(g) == /\ hs'[g].pc = hs[g].pc /\ hs'[g].off = hs[g].off
                      /\ hs'[g].fd = hs[g].fd /\ hs'[g].pos = hs[g].pos
           Goal == /\ split' = split /\ part' = part /\ file' = file /\ saved' = saved
                   /\ \A g \in Handlers : AtWork(g)' => Same(g)
<1>1. hs \in [Handlers -> Handler]
  BY DEF TypeInv, TypeOK
<1>2. ASSUME NEW h \in Handlers, HandlerStep(h) \/ HandlerFault(h) PROVE Goal
  <2>1. CASE LookupLock(h)
    BY <1>1, <2>1 DEF LookupLock, storage, AtWork, Handler
  <2>2. CASE LoseConnection(h)
    BY <1>1, <2>2 DEF LoseConnection, storage, AtWork, Handler
  <2>3. CASE \/ OpenFails(h) \/ Mismatch(h) \/ Landed(h) \/ PlaceFails(h)
             \/ RenameFails(h) \/ Drop(h)
    BY <1>1, <2>3 DEF OpenFails, Mismatch, Landed, PlaceFails, RenameFails, Drop, Return,
                      IdleHandler, storage, AtWork
  <2> QED
    BY <1>2, <2>1, <2>2, <2>3 DEF HandlerStep, HandlerFault, Working
<1>3. ASSUME NEW c \in Clients, ClientStep(c) \/ ProbeFails(c) \/ Resend(c) PROVE Goal
  BY <1>1, <1>3 DEF ClientStep, Probe, Send, ProbeFails, Resend, IdleHandler, storage, AtWork
<1>4. ASSUME GcFind \/ GcStep \/ Age PROVE Goal
  BY <1>4 DEF GcFind, GcStep, GcLookupLock, GcSkip, GcDrop, Age, storage, AtWork
<1>5. ASSUME Restart PROVE Goal
  BY <1>5 DEF Restart, IdleHandler, storage, AtWork
<1>6. ASSUME UNCHANGED vars PROVE Goal
  BY <1>6 DEF vars, AtWork
<1>7. Goal
  BY <1>2, <1>3, <1>4, <1>5, <1>6 DEF Next
<1> QED
  BY <1>7

LEMMA ContentsElse ==
  ASSUME IInv, [Next]_vars, ~GcRemove, \A h \in Handlers : ~Working(h)
  PROVE  Contents'
BY Elsewhere, ContentsKept DEF IInv

LEMMA IInvInit == Init => IInv
<1> SUFFICES ASSUME Init PROVE IInv
  OBVIOUS
<1>1. \A h \in Handlers : ~AtWork(h) /\ hs[h].pc = "idle"
  BY DEF Init, AtWork, IdleHandler
<1>2. FilesRight
  BY DEF Init, FilesRight
<1> QED
  BY <1>1, <1>2, TypeInit DEF IInv, Alone, Contents, WorkRight

LEMMA IInvNext == IInv /\ [Next]_vars => IInv'
<1> SUFFICES ASSUME IInv, [Next]_vars PROVE IInv'
  OBVIOUS
<1>1. TypeInv'
  BY TypeNext DEF IInv
<1>2. Alone'
  BY AloneNext DEF IInv
<1>3. Contents'
  BY ContentsOpen, ContentsMove, ContentsCopy, ContentsTruncate, ContentsRename,
     ContentsRemove, ContentsElse DEF Working
<1> QED
  BY <1>1, <1>2, <1>3 DEF IInv

\* However many pages send the file at once, whatever connections, writes and restarts go
\* wrong and whenever the sweep runs: unless two requests get to work on the part together,
\* every file that reaches the destination folder is the whole file.
THEOREM SavedWhole == Spec => []SavedWholeWhenSerialized
<1>1. Init => IInv
  BY IInvInit
<1>2. IInv /\ [Next]_vars => IInv'
  BY IInvNext
<1>3. IInv => SavedWholeWhenSerialized
  BY DEF IInv, Contents, FilesRight, SavedWholeWhenSerialized
<1> QED
  BY <1>1, <1>2, <1>3, PTL DEF Spec

----------------------------------------------------------------------------
(* What was acknowledged is kept *)

Acked(n) == \A c \in Clients : clients[c].acked <= n

\* Until the sweep finds something to take, and until something is saved, the part holds what
\* any page was told of: a request at work has it open, and starts behind all of that.
Acks ==
  (~split /\ faults.ages = 0) =>
    /\ ~aged /\ gc.pc = "idle"
    /\ saved = {} =>
         /\ Acked(PartSize)
         /\ \A h \in Handlers : /\ AtWork(h) => part # None
                                /\ hs[h].pc \in {"copy", "truncate"} => Acked(hs[h].off)

AcksInv == IInv /\ Acks

\* Only a slice that has landed tells a page of more.
LEMMA AckedGrows ==
  ASSUME TypeInv, [Next]_vars, \A h \in Handlers : ~Landed(h)
  PROVE  \A c \in Clients : clients'[c].acked \in {clients[c].acked, 0}
<1>1. clients \in [Clients -> Client] /\ hs \in [Handlers -> Handler]
  BY DEF TypeInv, TypeOK
<1>2. \A cl \in Client : \A off : Retry(cl, off).acked = cl.acked
  BY DEF Retry, Client
<1>4. ASSUME NEW h \in Handlers, ReplyError(h) \/ ReplyConflict(h) \/ ReplySaved(h)
      PROVE  \A c \in Clients : clients'[c].acked \in {clients[c].acked, 0}
  <2>1. CASE hs[h].client = None
    BY <1>4, <2>1 DEF ReplyError, ReplyConflict, ReplySaved, ToClient
  <2>2. CASE hs[h].client # None
    <3> DEFINE cl == clients[hs[h].client]
    <3>1. cl \in Client /\ hs[h].client \in Clients
      BY <1>1, <2>2 DEF Handler
    <3>2. [cl EXCEPT !.pc = "done", !.attempt = 0].acked = cl.acked
      BY <3>1 DEF Client
    <3>3. \E reply : clients' = [clients EXCEPT ![hs[h].client] = reply] /\ reply.acked = cl.acked
      BY <1>2, <1>4, <2>2, <3>1, <3>2 DEF ReplyError, ReplyConflict, ReplySaved, ToClient
    <3> QED
      BY <1>1, <3>1, <3>3
  <2> QED
    BY <2>1, <2>2
<1>5. ASSUME NEW h \in Handlers, HandlerStep(h) \/ HandlerFault(h)
      PROVE  \A c \in Clients : clients'[c].acked \in {clients[c].acked, 0}
  <2>1. CASE ReplyError(h) \/ ReplyConflict(h) \/ ReplySaved(h)
    BY <1>4, <2>1
  <2>2. CASE clients' = clients
    BY <2>2
  <2> QED
    BY <1>5, <2>1, <2>2
    DEF HandlerStep, HandlerFault, LookupLock, LockAndOpen, Mismatch, Match, CopyUnit, Truncate, Place,
        Rename, RenameFails, Drop, LoseConnection, OpenFails, CopyFails, PlaceFails
<1>6. ASSUME NEW c \in Clients, ClientStep(c) \/ ProbeFails(c) \/ Resend(c)
      PROVE  \A d \in Clients : clients'[d].acked \in {clients[d].acked, 0}
  BY <1>1, <1>6 DEF ClientStep, Probe, Send, ProbeFails, Resend, Client
<1>7. CASE GcFind \/ GcStep \/ Age \/ UNCHANGED vars
  BY <1>7 DEF GcFind, GcStep, GcLookupLock, GcSkip, GcRemove, GcDrop, Age, vars
<1>8. CASE Restart
  BY <1>1, <1>2, <1>8 DEF Restart
<1> QED
  BY <1>5, <1>6, <1>7, <1>8 DEF Next

\* Without a day gone by, the sweep finds nothing.
LEMMA NothingAges ==
  ASSUME TypeInv, Acks, [Next]_vars, ~split', faults'.ages = 0
  PROVE  /\ ~split /\ faults.ages = 0 /\ ~aged' /\ gc'.pc = "idle" /\ ~GcRemove
         /\ saved' = {} => saved = {}
<1>1. ~split /\ (saved' = {} => saved = {})
  <2>1. ~split
    BY WorkBegins, Zenon DEF LockAndOpen
  <2>2. CASE \E h \in Handlers : Rename(h)
    BY <2>2 DEF Rename
  <2>3. ASSUME NEW h \in Handlers, HandlerStep(h) \/ HandlerFault(h), ~Rename(h) PROVE saved' = saved
    BY <2>3 DEF HandlerStep, HandlerFault, LookupLock, LockAndOpen, Mismatch, Match, CopyUnit, Truncate,
                Landed, Place, RenameFails, Drop, LoseConnection, OpenFails, CopyFails, PlaceFails, storage
  <2>4. ASSUME \A h \in Handlers : ~(HandlerStep(h) \/ HandlerFault(h)) PROVE saved' = saved
    BY <2>4 DEF Next, ClientStep, GcStep, Probe, Send, ProbeFails, Resend, GcFind, GcLookupLock, GcSkip,
                GcRemove, GcDrop, Age, Restart, vars, storage
  <2> QED
    BY <2>1, <2>2, <2>3, <2>4
<1>2. faults.ages = 0 /\ ~Age
  <2>1. \A kind \in FaultKind : Happens(kind) =>
          faults'.ages = IF kind = "ages" THEN faults.ages + 1 ELSE faults.ages
    BY DEF Happens, TypeInv, TypeOK, FaultKind
  <2>2. faults.ages \in Nat
    BY DEF TypeInv, TypeOK, FaultKind
  <2>3. faults' = faults \/ \E kind \in FaultKind : Happens(kind)
    BY DEF Next, HandlerStep, HandlerFault, ClientStep, GcStep, LookupLock, LockAndOpen, Mismatch, Match,
           CopyUnit, Truncate, Landed, Place, Rename, RenameFails, Drop, LoseConnection, OpenFails,
           CopyFails, PlaceFails, Probe, Send, ProbeFails, Resend, GcFind, GcLookupLock, GcSkip,
           GcRemove, GcDrop, Age, Restart, vars, FaultKind
  <2>4. ~Age
    BY <2>1, <2>2 DEF Age, FaultKind
  <2> QED
    BY <2>1, <2>2, <2>3, <2>4
<1>3. ~aged /\ gc.pc = "idle"
  BY <1>1, <1>2 DEF Acks
<1>4. ~GcStep /\ ~GcFind
  BY <1>3 DEF GcStep, GcLookupLock, GcSkip, GcRemove, GcDrop, GcFind
<1>5. gc'.pc = "idle"
  <2>1. ASSUME NEW h \in Handlers, HandlerStep(h) \/ HandlerFault(h) PROVE gc' = gc
    BY <2>1 DEF HandlerStep, HandlerFault, LookupLock, LockAndOpen, Mismatch, Match, CopyUnit, Truncate,
                Landed, Place, Rename, RenameFails, Drop, LoseConnection, OpenFails, CopyFails, PlaceFails
  <2>2. ASSUME NEW c \in Clients, ClientStep(c) \/ ProbeFails(c) \/ Resend(c) PROVE gc' = gc
    BY <2>2 DEF ClientStep, Probe, Send, ProbeFails, Resend
  <2>3. CASE Restart
    BY <2>3 DEF Restart
  <2>4. CASE UNCHANGED vars
    BY <1>3, <2>4 DEF vars
  <2> QED
    BY <1>2, <1>3, <1>4, <2>1, <2>2, <2>3, <2>4, Zenon DEF Next
<1>6. ~aged'
  BY <1>2, <1>3, <1>4, Zenon DEF Next, HandlerStep, HandlerFault, ClientStep, LookupLock, LockAndOpen,
         Mismatch, Match, CopyUnit, Truncate, Landed, Place, Rename, RenameFails, Drop, LoseConnection,
         OpenFails, CopyFails, PlaceFails, Probe, Send, ProbeFails, Resend, Restart, OpenPart, vars, storage
<1> QED
  BY <1>1, <1>2, <1>4, <1>5, <1>6 DEF GcStep

LEMMA AcksInit == Init => Acks
<1> SUFFICES ASSUME Init PROVE Acks
  OBVIOUS
<1>1. \A h \in Handlers : hs[h].pc = "idle"
  BY DEF Init, IdleHandler
<1>2. \A c \in Clients : clients[c].acked = 0
  BY DEF Init
<1> QED
  BY <1>1, <1>2 DEF Init, Acks, Acked, AtWork, PartSize

\* The size of the part, and where the requests at work begin, after each step.
LEMMA AcksNext ==
  ASSUME IInv, Acks, [Next]_vars
  PROVE  Acks'
<1> SUFFICES ASSUME ~split', faults'.ages = 0 PROVE Acks'
  BY DEF Acks
<1>1. TypeInv /\ Alone
  BY DEF IInv
<1>2. /\ ~split /\ faults.ages = 0 /\ ~aged' /\ gc'.pc = "idle" /\ ~GcRemove
      /\ saved' = {} => saved = {}
  BY <1>1, NothingAges
<1> SUFFICES ASSUME saved' = {}
             PROVE  /\ Acked(PartSize)'
                    /\ \A h \in Handlers : /\ AtWork(h)' => part' # None
                                           /\ hs'[h].pc \in {"copy", "truncate"} => Acked(hs[h].off)'
  BY <1>2 DEF Acks
<1>3. /\ Acked(PartSize)
      /\ \A h \in Handlers : /\ AtWork(h) => part # None
                             /\ hs[h].pc \in {"copy", "truncate"} => Acked(hs[h].off)
  BY <1>2 DEF Acks
<1>4. /\ hs \in [Handlers -> Handler] /\ clients \in [Clients -> Client] /\ file \in [Inodes -> Content]
      /\ part \in Inodes \cup {None} /\ PartSize \in 0..FileSize
      /\ \A h \in Handlers : hs[h].off \in 0..FileSize /\ hs[h].pos \in 0..FileSize
      /\ \A c \in Clients : clients[c].acked \in 0..FileSize
  BY <1>1, PartSizeType DEF TypeInv, TypeOK, Handler, Client
<1>5. ASSUME NEW h \in Handlers, AtWork(h)
      PROVE  /\ part = hs[h].fd /\ part \in Inodes /\ PartSize = file[hs[h].fd].len /\ WorkRight(h)
             /\ \A g \in Handlers \ {h} : ~AtWork(g)
  <2>1. part # None
    BY <1>3, <1>5
  <2>2. part = hs[h].fd /\ WorkRight(h)
    BY <1>2, <1>5, <2>1, AtWorkFacts
  <2> QED
    BY <1>1, <1>2, <1>4, <1>5, <2>1, <2>2 DEF PartSize, Alone
<1>6. ASSUME NEW h \in Handlers, LockAndOpen(h)
      PROVE  /\ Acked(PartSize)'
             /\ \A g \in Handlers : /\ AtWork(g)' => part' # None
                                    /\ hs'[g].pc \in {"copy", "truncate"} => Acked(hs[g].off)'
  <2>1. \A g \in Handlers \ {h} : ~AtWork(g) /\ hs'[g] = hs[g]
    BY <1>2, <1>4, <1>6 DEF LockAndOpen
  <2>2. part' # None
    BY <1>1, <1>6, OpenPartFacts, NoneAssumption DEF LockAndOpen, TypeInv
  <2>3. PartSize' = PartSize
    BY <1>1, <1>4, <1>6, <2>2, OpenPartFacts DEF LockAndOpen, TypeInv, PartSize, Empty
  <2>4. clients' = clients /\ hs'[h].pc = "check"
    BY <1>4, <1>6 DEF LockAndOpen
  <2> QED
    BY <1>3, <2>1, <2>2, <2>3, <2>4 DEF Acked, AtWork
<1>7. ASSUME NEW h \in Handlers, Match(h) \/ CopyFails(h) \/ Place(h)
      PROVE  /\ Acked(PartSize)'
             /\ \A g \in Handlers : /\ AtWork(g)' => part' # None
                                    /\ hs'[g].pc \in {"copy", "truncate"} => Acked(hs[g].off)'
  <2>1. AtWork(h)
    BY <1>7 DEF Match, CopyFails, Place, AtWork
  <2>2. \A g \in Handlers \ {h} : ~AtWork(g) /\ hs'[g] = hs[g]
    BY <1>4, <1>5, <1>7, <2>1 DEF Match, CopyFails, Place, Goto
  <2>3. /\ clients' = clients /\ part' = part /\ PartSize' = PartSize /\ part # None
        /\ hs'[h].off = hs[h].off
    BY <1>3, <1>4, <1>7, <2>1 DEF Match, CopyFails, Place, Goto, storage, PartSize, Handler
  <2>4. hs'[h].pc \in {"copy", "truncate"} => Acked(hs[h].off)
    BY <1>3, <1>4, <1>7 DEF Match, CopyFails, Place, Goto, Handler
  <2> QED
    BY <1>3, <2>2, <2>3, <2>4 DEF Acked, AtWork
<1>8. ASSUME NEW h \in Handlers, CopyUnit(h)
      PROVE  /\ Acked(PartSize)'
             /\ \A g \in Handlers : /\ AtWork(g)' => part' # None
                                    /\ hs'[g].pc \in {"copy", "truncate"} => Acked(hs[g].off)'
  <2>1. AtWork(h) /\ hs[h].pc = "copy" /\ clients' = clients /\ part' = part
    BY <1>8 DEF CopyUnit, AtWork
  <2>2. \A g \in Handlers \ {h} : ~AtWork(g) /\ hs'[g] = hs[g]
    BY <1>4, <1>5, <1>8, <2>1 DEF CopyUnit
  <2>3. hs'[h].off = hs[h].off /\ hs'[h].pc = "copy"
    BY <1>4, <1>8, <2>1 DEF CopyUnit, Handler
  <2>4. PartSize' \in Nat /\ PartSize <= PartSize'
    <3>1. hs[h].pos < FileSize
      BY <1>4, <1>8, EndBounds, SizesAssumption DEF CopyUnit
    <3>2. part \in Inodes /\ part = hs[h].fd /\ file[part] \in Content /\ PartSize = file[part].len
      BY <1>4, <1>5, <2>1
    <3>3. /\ WriteAt(file[part], hs[h].pos).len
                = IF hs[h].pos < file[part].len THEN file[part].len ELSE hs[h].pos + 1
          /\ file'[part] = WriteAt(file[part], hs[h].pos)
      BY <1>4, <1>8, <3>1, <3>2, WriteAtFacts DEF CopyUnit
    <3>4. PartSize' = file'[part].len
      BY <2>1, <3>2, NoneAssumption DEF PartSize
    <3>5. file[part].len \in Nat /\ hs[h].pos \in Nat
      BY <1>4, <3>2, SizesAssumption
    <3> QED
      BY <3>2, <3>3, <3>4, <3>5
  <2>5. Acked(PartSize)'
    BY <1>3, <1>4, <2>1, <2>4 DEF Acked
  <2> QED
    BY <1>3, <2>1, <2>2, <2>3, <2>5 DEF Acked, AtWork
<1>9. ASSUME NEW h \in Handlers, Truncate(h)
      PROVE  /\ Acked(PartSize)'
             /\ \A g \in Handlers : /\ AtWork(g)' => part' # None
                                    /\ hs'[g].pc \in {"copy", "truncate"} => Acked(hs[g].off)'
  <2>1. AtWork(h) /\ hs[h].pc = "truncate" /\ part' = part
    BY <1>9 DEF Truncate, AtWork
  <2>2. \A g \in Handlers : ~AtWork(g)'
    BY <1>4, <1>5, <1>9, <2>1 DEF Truncate, Return, IdleHandler, AtWork
  <2>3. PartSize' = hs[h].off
    <3>1. part \in Inodes /\ part # None
      BY <1>3, <1>5, <2>1
    <3>2. file'[part] = TruncateTo(file[part], hs[h].off)
      BY <1>4, <1>9, <3>1 DEF Truncate
    <3> QED
      BY <2>1, <3>1, <3>2 DEF PartSize, TruncateTo
  <2>4. Acked(hs[h].off) /\ hs[h].off \in Nat /\ \A g \in Handlers : ~Landed(g)
    <3>1. \A g \in Handlers : ~Landed(g)
      BY <1>5, <2>1 DEF Landed, AtWork
    <3> QED
      BY <1>3, <1>4, <2>1, <3>1
  <2>5. \A c \in Clients : clients'[c].acked <= hs[h].off
    BY <1>1, <2>4, AckedGrows DEF Acked
  <2> QED
    BY <2>2, <2>3, <2>5 DEF Acked, AtWork
<1>10. ASSUME NEW h \in Handlers, Landed(h)
       PROVE  /\ Acked(PartSize)'
              /\ \A g \in Handlers : /\ AtWork(g)' => part' # None
                                     /\ hs'[g].pc \in {"copy", "truncate"} => Acked(hs[g].off)'
  <2>1. AtWork(h) /\ hs[h].pc = "copy" /\ PartSize' = PartSize
    BY <1>10 DEF Landed, AtWork, storage, PartSize
  <2>2. \A g \in Handlers : ~AtWork(g)'
    BY <1>4, <1>5, <1>10, <2>1 DEF Landed, Return, IdleHandler, AtWork
  <2>3. hs[h].pos = PartSize
    BY <1>5, <2>1, NoneAssumption DEF WorkRight, CopyRight
  <2>4. \A c \in Clients : clients'[c].acked \in {clients[c].acked, PartSize}
    BY <1>4, <1>10, <2>3 DEF Landed, ReplyOffset, ToClient
  <2>5. \A c \in Clients : clients'[c].acked <= PartSize
    BY <1>3, <1>4, <2>4 DEF Acked
  <2> QED
    BY <2>1, <2>2, <2>5 DEF Acked, AtWork
<1>11. ASSUME \A h \in Handlers : ~Working(h) /\ ~Landed(h)
       PROVE  /\ Acked(PartSize)'
              /\ \A g \in Handlers : /\ AtWork(g)' => part' # None
                                     /\ hs'[g].pc \in {"copy", "truncate"} => Acked(hs[g].off)'
  <2>1. /\ part' = part /\ PartSize' = PartSize
        /\ \A g \in Handlers : AtWork(g)' => /\ hs'[g].pc = hs[g].pc /\ hs'[g].off = hs[g].off
    BY <1>1, <1>2, <1>11, Elsewhere DEF PartSize
  <2>2. \A c \in Clients : clients'[c].acked \in {clients[c].acked, 0}
    BY <1>1, <1>11, AckedGrows
  <2>3. \A n \in Nat : Acked(n) => \A c \in Clients : clients'[c].acked <= n
    BY <2>2 DEF Acked
  <2>4. \A c \in Clients : clients'[c].acked <= PartSize
    BY <1>3, <1>4, <2>3
  <2>5. ASSUME NEW g \in Handlers, AtWork(g)'
        PROVE  part # None /\ (hs[g].pc \in {"copy", "truncate"} => Acked(hs[g].off)')
    <3>1. AtWork(g) /\ hs'[g].off = hs[g].off /\ hs[g].off \in Nat
      BY <1>4, <2>1, <2>5 DEF AtWork
    <3> QED
      BY <1>3, <2>3, <3>1 DEF Acked
  <2> QED
    BY <2>1, <2>4, <2>5 DEF Acked, AtWork
<1>12. \A h \in Handlers : ~Rename(h)
  BY DEF Rename
<1> QED
  BY <1>6, <1>7, <1>8, <1>9, <1>10, <1>11, <1>12, Zenon DEF Working

\* As long as requests are never at work together and the sweep finds nothing to take: what a
\* page was told has landed is there, through lost connections, failed writes and restarts.
THEOREM AckedStays == Spec => []AckedBytesKept
<1>1. Init => AcksInv
  BY IInvInit, AcksInit DEF AcksInv
<1>2. AcksInv /\ [Next]_vars => AcksInv'
  BY IInvNext, AcksNext DEF AcksInv
<1>3. AcksInv => AckedBytesKept
  BY DEF AcksInv, Acks, Acked, AckedBytesKept
<1> QED
  BY <1>1, <1>2, <1>3, PTL DEF Spec

----------------------------------------------------------------------------
(* Copies and successes *)

Nobody == {h \in Handlers : hs[h].pc # "idle" /\ hs[h].client = None}
Renaming == {h \in Handlers : hs[h].pc = "rename"}

\* However many goroutines there are, few enough are busy to be counted.
Countable ==
  /\ IsFiniteSet(saved) /\ IsFiniteSet(Renaming) /\ IsFiniteSet(Dropping) /\ IsFiniteSet(Nobody)
  /\ part \notin saved

\* Each copy is answered for: by a page that is done, by a request about to say so, or by a
\* connection that was lost, of which those whose request still runs have answered for none yet.
Tally ==
  /\ Cardinality(Done) + Cardinality(Dropping) <= Cardinality(saved)
  /\ Cardinality(saved) + Cardinality(Nobody)
       <= Cardinality(Done) + Cardinality(Dropping) + faults.lost + Cardinality(Clients) * faults.crashes

\* A placeholder is there for each request between createUnique and Rename.
Blanks == faults.crashes = 0 => placeholders = Cardinality(Renaming)

CountInv == TypeInv /\ Countable /\ Tally /\ Blanks

\* By how much a count changes with one member.
Change(before, after) == IF before THEN IF after THEN 0 ELSE -1 ELSE IF after THEN 1 ELSE 0

LEMMA WithElement ==
  ASSUME NEW S, IsFiniteSet(S), NEW x, NEW T, T = S \cup {x}
  PROVE  IsFiniteSet(T) /\ Cardinality(T) = Cardinality(S) + Change(x \in S, TRUE)
BY FS_AddElement, FS_CardinalityType DEF Change

LEMMA WithoutElement ==
  ASSUME NEW S, IsFiniteSet(S), NEW x, NEW T, T = S \ {x}
  PROVE  IsFiniteSet(T) /\ Cardinality(T) = Cardinality(S) + Change(x \in S, FALSE)
BY FS_RemoveElement, FS_CardinalityType DEF Change

\* What a step of one request does to the counts of requests.
LEMMA RequestsCounted ==
  ASSUME TypeInv, Countable, NEW h \in Handlers, NEW x, hs' = [hs EXCEPT ![h] = x]
  PROVE  /\ IsFiniteSet(Renaming') /\ IsFiniteSet(Dropping') /\ IsFiniteSet(Nobody')
         /\ Cardinality(Renaming')
              = Cardinality(Renaming) + Change(hs[h].pc = "rename", x.pc = "rename")
         /\ Cardinality(Dropping') = Cardinality(Dropping) + Change(hs[h].pc = "drop", x.pc = "drop")
         /\ Cardinality(Nobody')
              = Cardinality(Nobody) + Change(hs[h].pc # "idle" /\ hs[h].client = None,
                                             x.pc # "idle" /\ x.client = None)
<1>1. \A g \in Handlers : hs'[g] = IF g = h THEN x ELSE hs[g]
  BY DEF TypeInv, TypeOK
<1>2. Renaming' = IF x.pc = "rename" THEN Renaming \cup {h} ELSE Renaming \ {h}
  BY <1>1 DEF Renaming
<1>3. Dropping' = IF x.pc = "drop" THEN Dropping \cup {h} ELSE Dropping \ {h}
  BY <1>1 DEF Dropping
<1>4. Nobody' = IF x.pc # "idle" /\ x.client = None THEN Nobody \cup {h} ELSE Nobody \ {h}
  BY <1>1 DEF Nobody
<1>5. /\ h \in Renaming <=> hs[h].pc = "rename"
      /\ h \in Dropping <=> hs[h].pc = "drop"
      /\ h \in Nobody <=> hs[h].pc # "idle" /\ hs[h].client = None
  BY DEF Renaming, Dropping, Nobody
<1>6. IsFiniteSet(Renaming) /\ IsFiniteSet(Dropping) /\ IsFiniteSet(Nobody)
  BY DEF Countable
<1>7. /\ IsFiniteSet(Renaming')
      /\ Cardinality(Renaming') = Cardinality(Renaming) + Change(hs[h].pc = "rename", x.pc = "rename")
  <2>1. CASE x.pc = "rename"
    BY <1>2, <1>5, <1>6, <2>1, WithElement DEF Change
  <2>2. CASE x.pc # "rename"
    BY <1>2, <1>5, <1>6, <2>2, WithoutElement DEF Change
  <2> QED
    BY <2>1, <2>2
<1>8. /\ IsFiniteSet(Dropping')
      /\ Cardinality(Dropping') = Cardinality(Dropping) + Change(hs[h].pc = "drop", x.pc = "drop")
  <2>1. CASE x.pc = "drop"
    BY <1>3, <1>5, <1>6, <2>1, WithElement DEF Change
  <2>2. CASE x.pc # "drop"
    BY <1>3, <1>5, <1>6, <2>2, WithoutElement DEF Change
  <2> QED
    BY <2>1, <2>2
<1>9. /\ IsFiniteSet(Nobody')
      /\ Cardinality(Nobody')
           = Cardinality(Nobody) + Change(hs[h].pc # "idle" /\ hs[h].client = None,
                                          x.pc # "idle" /\ x.client = None)
  <2>1. CASE x.pc # "idle" /\ x.client = None
    BY <1>4, <1>5, <1>6, <2>1, WithElement DEF Change
  <2>2. CASE ~(x.pc # "idle" /\ x.client = None)
    BY <1>4, <1>5, <1>6, <2>2, WithoutElement DEF Change
  <2> QED
    BY <2>1, <2>2
<1> QED
  BY <1>7, <1>8, <1>9

\* What an answer does to the count of pages that are done: only "saved" makes one more.
LEMMA DoneCounted ==
  ASSUME TypeInv, NEW h \in Handlers
  PROVE  /\ IsFiniteSet(Done)
         /\ ReplyError(h) \/ ReplyConflict(h) \/ ReplyOffset(h) => Done' = Done
         /\ ReplySaved(h) => Cardinality(Done') = Cardinality(Done) + Change(hs[h].client = None, TRUE)
<1>1. clients \in [Clients -> Client] /\ hs[h] \in Handler /\ Calls
  BY DEF TypeInv, TypeOK
<1>2. IsFiniteSet(Done)
  BY ClientsAssumption, FS_Subset DEF Done
<1>3. CASE hs[h].client = None
  <2>1. ReplyError(h) \/ ReplyConflict(h) \/ ReplyOffset(h) \/ ReplySaved(h) => Done' = Done
    BY <1>3 DEF ReplyError, ReplyConflict, ReplyOffset, ReplySaved, ToClient, Done
  <2> QED
    BY <1>2, <1>3, <2>1, FS_CardinalityType DEF Change
<1>4. CASE hs[h].client # None
  <2> DEFINE c == hs[h].client
             cl == clients[c]
  <2>1. c \in Clients /\ cl \in Client /\ cl.pc = "waiting" /\ c \notin Done
    BY <1>1, <1>4 DEF Handler, Calls, Done
  <2>2. \A off : Retry(cl, off).pc # "done"
    BY <2>1 DEF Retry, Client
  <2>3. [cl EXCEPT !.pc = "done", !.attempt = 0].pc = "done"
    BY <2>1 DEF Client
  <2>4. ReplyError(h) \/ ReplyConflict(h) \/ ReplyOffset(h) =>
          \E reply : clients' = [clients EXCEPT ![c] = reply] /\ reply.pc # "done"
    BY <1>4, <2>2 DEF ReplyError, ReplyConflict, ReplyOffset, ToClient
  <2>5. ReplySaved(h) => \E reply : clients' = [clients EXCEPT ![c] = reply] /\ reply.pc = "done"
    BY <1>4, <2>3 DEF ReplySaved, ToClient
  <2>6. \A reply : clients' = [clients EXCEPT ![c] = reply] =>
          \A d \in Clients : clients'[d] = IF d = c THEN reply ELSE clients[d]
    BY <1>1
  <2>7. ReplyError(h) \/ ReplyConflict(h) \/ ReplyOffset(h) => Done' = Done
    BY <2>1, <2>4, <2>6 DEF Done
  <2>8. ReplySaved(h) => Done' = Done \cup {c}
    BY <2>1, <2>5, <2>6 DEF Done
  <2>9. ReplySaved(h) => Cardinality(Done') = Cardinality(Done) + 1
    BY <1>2, <2>1, <2>8, WithElement, FS_CardinalityType DEF Change
  <2> QED
    BY <1>2, <1>4, <2>7, <2>9 DEF Change
<1> QED
  BY <1>3, <1>4

\* The numbers behind the counts.
LEMMA Numbers ==
  ASSUME TypeInv, Countable
  PROVE  /\ Cardinality(saved) \in Nat /\ Cardinality(Renaming) \in Nat /\ Cardinality(Dropping) \in Nat
         /\ Cardinality(Nobody) \in Nat /\ Cardinality(Done) \in Nat /\ Cardinality(Clients) \in Nat
         /\ faults.lost \in Nat /\ faults.crashes \in Nat /\ placeholders \in Int
         /\ Cardinality(Clients) * faults.crashes \in Nat
<1>1. IsFiniteSet(Done)
  BY ClientsAssumption, FS_Subset DEF Done
<1>2. Cardinality(Clients) \in Nat /\ faults.crashes \in Nat
  BY ClientsAssumption, FS_CardinalityType DEF TypeInv, TypeOK, FaultKind
<1>3. \A m, n \in Nat : m * n \in Nat
  OBVIOUS
<1> QED
  BY <1>1, <1>2, <1>3, FS_CardinalityType DEF Countable, TypeInv, TypeOK, FaultKind

LEMMA FaultsCounted ==
  ASSUME TypeInv, NEW kind \in FaultKind, Happens(kind)
  PROVE  /\ faults'.lost = faults.lost + Change(FALSE, kind = "lost")
         /\ faults'.crashes = faults.crashes + Change(FALSE, kind = "crashes")
BY DEF TypeInv, TypeOK, FaultKind, Happens, Change

\* A step that changes the counts together keeps them in balance.
LEMMA Balanced ==
  ASSUME CountInv, TypeInv', Countable', faults'.crashes = faults.crashes,
         placeholders' - placeholders = Cardinality(Renaming') - Cardinality(Renaming),
         (Cardinality(Done') - Cardinality(Done)) + (Cardinality(Dropping') - Cardinality(Dropping))
           <= Cardinality(saved') - Cardinality(saved),
         (Cardinality(saved') - Cardinality(saved)) + (Cardinality(Nobody') - Cardinality(Nobody))
           <= (Cardinality(Done') - Cardinality(Done)) + (Cardinality(Dropping') - Cardinality(Dropping))
                + (faults'.lost - faults.lost)
  PROVE  CountInv'
<1> DEFINE owed == Cardinality(Clients) * faults.crashes
<1>1. /\ Cardinality(saved) \in Nat /\ Cardinality(Renaming) \in Nat /\ Cardinality(Dropping) \in Nat
      /\ Cardinality(Nobody) \in Nat /\ Cardinality(Done) \in Nat /\ owed \in Nat
      /\ faults.lost \in Nat /\ placeholders \in Int
  BY Numbers DEF CountInv
<1>2. /\ Cardinality(saved') \in Nat /\ Cardinality(Renaming') \in Nat /\ Cardinality(Dropping') \in Nat
      /\ Cardinality(Nobody') \in Nat /\ Cardinality(Done') \in Nat
      /\ faults'.lost \in Nat /\ placeholders' \in Int
  <2>1. IsFiniteSet(Done')
    BY ClientsAssumption, FS_Subset DEF Done
  <2> QED
    BY <2>1, FS_CardinalityType DEF Countable, TypeInv, TypeOK, FaultKind
<1>3. owed' = owed
  OBVIOUS
<1>4. /\ Cardinality(Done) + Cardinality(Dropping) <= Cardinality(saved)
      /\ Cardinality(saved) + Cardinality(Nobody)
           <= Cardinality(Done) + Cardinality(Dropping) + faults.lost + owed
  BY DEF CountInv, Tally
<1> HIDE DEF owed
<1>5. /\ Cardinality(Done') + Cardinality(Dropping') <= Cardinality(saved')
      /\ Cardinality(saved') + Cardinality(Nobody')
           <= Cardinality(Done') + Cardinality(Dropping') + faults'.lost + owed'
  BY <1>1, <1>2, <1>3, <1>4
<1>6. Tally'
  BY <1>5 DEF Tally, owed
<1>7. Blanks'
  BY <1>1, <1>2 DEF CountInv, Blanks
<1> QED
  BY <1>6, <1>7 DEF CountInv

\* A request is answered, or loses its page.
LEMMA CountAnswer ==
  ASSUME CountInv, TypeInv', NEW h \in Handlers,
         \/ LoseConnection(h) \/ OpenFails(h) \/ Mismatch(h) \/ Truncate(h) \/ Landed(h)
         \/ PlaceFails(h) \/ RenameFails(h) \/ Drop(h)
  PROVE  CountInv'
<1>1. TypeInv /\ Countable /\ hs[h] \in Handler
  BY DEF CountInv, TypeInv, TypeOK
<1>2. part' = part /\ saved' = saved
  BY DEF LoseConnection, OpenFails, Mismatch, Truncate, Landed, PlaceFails, RenameFails, Drop, storage
<1>3. /\ faults.lost \in Nat /\ Cardinality(Done) \in Nat /\ Cardinality(Renaming) \in Nat
      /\ Cardinality(Dropping) \in Nat /\ Cardinality(Nobody) \in Nat /\ Cardinality(saved) \in Nat
      /\ placeholders \in Int /\ faults.crashes \in Nat
  BY <1>1, Numbers
<1>4. CASE LoseConnection(h)
  <2> DEFINE x == [hs[h] EXCEPT !.client = None]
  <2>1. x.pc = hs[h].pc /\ x.client = None /\ hs[h].pc # "idle" /\ hs[h].client # None
    BY <1>1, <1>4 DEF LoseConnection, Handler
  <2>2. hs' = [hs EXCEPT ![h] = x] /\ placeholders' = placeholders /\ Done' = Done
    BY <1>1, <1>4, DoneCounted DEF LoseConnection, storage
  <2>3. faults'.lost = faults.lost + 1 /\ faults'.crashes = faults.crashes
    BY <1>1, <1>3, <1>4, FaultsCounted DEF LoseConnection, FaultKind, Change
  <2> HIDE DEF x
  <2>4. /\ Countable'
        /\ Cardinality(Renaming') = Cardinality(Renaming) /\ Cardinality(Dropping') = Cardinality(Dropping)
        /\ Cardinality(Nobody') = Cardinality(Nobody) + 1
    <3>1. /\ IsFiniteSet(Renaming') /\ IsFiniteSet(Dropping') /\ IsFiniteSet(Nobody')
          /\ Cardinality(Renaming') = Cardinality(Renaming) + Change(hs[h].pc = "rename", x.pc = "rename")
          /\ Cardinality(Dropping') = Cardinality(Dropping) + Change(hs[h].pc = "drop", x.pc = "drop")
          /\ Cardinality(Nobody')
               = Cardinality(Nobody) + Change(hs[h].pc # "idle" /\ hs[h].client = None,
                                              x.pc # "idle" /\ x.client = None)
      BY <1>1, <2>2, RequestsCounted
    <3> QED
      BY <1>1, <1>2, <1>3, <2>1, <3>1 DEF Change, Countable
  <2> QED
    BY <1>2, <1>3, <2>2, <2>3, <2>4, Balanced
<1>5. CASE \/ OpenFails(h) \/ Mismatch(h) \/ Truncate(h) \/ Landed(h) \/ PlaceFails(h)
           \/ RenameFails(h) \/ Drop(h)
  <2>1. hs' = [hs EXCEPT ![h] = IdleHandler] /\ IdleHandler.pc = "idle"
    BY <1>5 DEF OpenFails, Mismatch, Truncate, Landed, PlaceFails, RenameFails, Drop, Return, IdleHandler
  <2>2. /\ Countable'
        /\ Cardinality(Renaming') = Cardinality(Renaming) + Change(hs[h].pc = "rename", FALSE)
        /\ Cardinality(Dropping') = Cardinality(Dropping) + Change(hs[h].pc = "drop", FALSE)
        /\ Cardinality(Nobody')
             = Cardinality(Nobody) + Change(hs[h].pc # "idle" /\ hs[h].client = None, FALSE)
    BY <1>1, <1>2, <2>1, RequestsCounted DEF Change, Countable
  <2>3. faults' = faults \/ Happens("errors")
    BY <1>5 DEF OpenFails, Mismatch, Truncate, Landed, PlaceFails, RenameFails, Drop
  <2>4. faults'.lost = faults.lost /\ faults'.crashes = faults.crashes
    BY <1>1, <1>3, <2>3, FaultsCounted DEF FaultKind, Change
  <2>5. CASE Drop(h)
    <3>1. hs[h].pc = "drop" /\ placeholders' = placeholders /\ ReplySaved(h)
      BY <2>5 DEF Drop, storage
    <3>2. Cardinality(Done') = Cardinality(Done) + Change(hs[h].client = None, TRUE)
      BY <1>1, <3>1, DoneCounted
    <3> QED
      BY <1>2, <1>3, <2>2, <2>4, <3>1, <3>2, Balanced DEF Change
  <2>6. CASE RenameFails(h)
    <3>1. hs[h].pc = "rename" /\ placeholders' = placeholders - 1 /\ Done' = Done
      BY <1>1, <2>6, DoneCounted DEF RenameFails
    <3> QED
      BY <1>2, <1>3, <2>2, <2>4, <3>1, Balanced DEF Change
  <2>7. CASE OpenFails(h) \/ Mismatch(h) \/ Truncate(h) \/ Landed(h) \/ PlaceFails(h)
    <3>1. hs[h].pc \notin {"drop", "rename"} /\ placeholders' = placeholders
      BY <2>7 DEF OpenFails, Mismatch, Truncate, Landed, PlaceFails, storage
    <3>2. Done' = Done
      BY <1>1, <2>7, DoneCounted DEF OpenFails, Mismatch, Truncate, Landed, PlaceFails
    <3> QED
      BY <1>2, <1>3, <2>2, <2>4, <3>1, <3>2, Balanced DEF Change
  <2> QED
    BY <1>5, <2>5, <2>6, <2>7
<1> QED
  BY <1>4, <1>5

\* A request goes on.
LEMMA CountWork ==
  ASSUME CountInv, TypeInv', NEW h \in Handlers,
         \/ LookupLock(h) \/ LockAndOpen(h) \/ Match(h) \/ CopyUnit(h) \/ CopyFails(h)
         \/ Place(h) \/ Rename(h)
  PROVE  CountInv'
<1>1. TypeInv /\ Countable /\ hs[h] \in Handler
  BY DEF CountInv, TypeInv, TypeOK
<1>2. /\ faults.lost \in Nat /\ Cardinality(Done) \in Nat /\ Cardinality(Renaming) \in Nat
      /\ Cardinality(Dropping) \in Nat /\ Cardinality(Nobody) \in Nat /\ Cardinality(saved) \in Nat
      /\ placeholders \in Int /\ faults.crashes \in Nat
  BY <1>1, Numbers
<1>3. Done' = Done
  BY DEF LookupLock, LockAndOpen, Match, CopyUnit, CopyFails, Place, Rename, Done
<1>4. faults'.lost = faults.lost /\ faults'.crashes = faults.crashes
  <2>1. faults' = faults \/ Happens("errors")
    BY DEF LookupLock, LockAndOpen, Match, CopyUnit, CopyFails, Place, Rename
  <2> QED
    BY <1>1, <1>2, <2>1, FaultsCounted DEF FaultKind, Change
<1>5. ASSUME NEW x, hs' = [hs EXCEPT ![h] = x], x.client = hs[h].client, x.pc # "idle", hs[h].pc # "idle"
      PROVE  /\ IsFiniteSet(Renaming') /\ IsFiniteSet(Dropping') /\ IsFiniteSet(Nobody')
             /\ Cardinality(Renaming')
                  = Cardinality(Renaming) + Change(hs[h].pc = "rename", x.pc = "rename")
             /\ Cardinality(Dropping') = Cardinality(Dropping) + Change(hs[h].pc = "drop", x.pc = "drop")
             /\ Cardinality(Nobody') = Cardinality(Nobody)
  <2>1. /\ IsFiniteSet(Renaming') /\ IsFiniteSet(Dropping') /\ IsFiniteSet(Nobody')
        /\ Cardinality(Renaming') = Cardinality(Renaming) + Change(hs[h].pc = "rename", x.pc = "rename")
        /\ Cardinality(Dropping') = Cardinality(Dropping) + Change(hs[h].pc = "drop", x.pc = "drop")
        /\ Cardinality(Nobody')
             = Cardinality(Nobody) + Change(hs[h].pc # "idle" /\ hs[h].client = None,
                                            x.pc # "idle" /\ x.client = None)
    BY <1>1, <1>5, RequestsCounted
  <2>2. Change(hs[h].pc # "idle" /\ hs[h].client = None, x.pc # "idle" /\ x.client = None) = 0
    BY <1>5 DEF Change
  <2> QED
    BY <1>2, <2>1, <2>2
<1>6. CASE Rename(h)
  <2> DEFINE x == [hs[h] EXCEPT !.pc = "drop"]
  <2>1. /\ hs' = [hs EXCEPT ![h] = x] /\ x.client = hs[h].client /\ x.pc = "drop" /\ hs[h].pc = "rename"
        /\ placeholders' = placeholders - 1 /\ saved' = saved \cup {part} /\ part' = None
    BY <1>1, <1>6 DEF Rename, Goto, Handler
  <2>2. /\ IsFiniteSet(saved') /\ Cardinality(saved') = Cardinality(saved) + 1
    BY <1>1, <1>2, <2>1, WithElement DEF Countable, Change
  <2>3. None \notin saved'
    BY <1>1, <1>6, <2>1, NoneAssumption DEF Rename, TypeInv, TypeOK
  <2> HIDE DEF x
  <2>4. /\ IsFiniteSet(Renaming') /\ IsFiniteSet(Dropping') /\ IsFiniteSet(Nobody')
        /\ Cardinality(Renaming') = Cardinality(Renaming) - 1
        /\ Cardinality(Dropping') = Cardinality(Dropping) + 1
        /\ Cardinality(Nobody') = Cardinality(Nobody)
    <3>1. /\ IsFiniteSet(Renaming') /\ IsFiniteSet(Dropping') /\ IsFiniteSet(Nobody')
          /\ Cardinality(Renaming')
               = Cardinality(Renaming) + Change(hs[h].pc = "rename", x.pc = "rename")
          /\ Cardinality(Dropping') = Cardinality(Dropping) + Change(hs[h].pc = "drop", x.pc = "drop")
          /\ Cardinality(Nobody') = Cardinality(Nobody)
      BY <1>5, <2>1
    <3> QED
      BY <1>2, <2>1, <3>1 DEF Change
  <2>5. Countable'
    BY <2>1, <2>2, <2>3, <2>4 DEF Countable
  <2> QED
    BY <1>2, <1>3, <1>4, <2>1, <2>2, <2>4, <2>5, Balanced
<1>7. CASE Place(h)
  <2> DEFINE x == [hs[h] EXCEPT !.pc = "rename"]
  <2>1. /\ hs' = [hs EXCEPT ![h] = x] /\ x.client = hs[h].client /\ x.pc = "rename" /\ hs[h].pc = "copy"
        /\ placeholders' = placeholders + 1 /\ saved' = saved /\ part' = part
    BY <1>1, <1>7 DEF Place, Goto, Handler
  <2> HIDE DEF x
  <2>2. /\ IsFiniteSet(Renaming') /\ IsFiniteSet(Dropping') /\ IsFiniteSet(Nobody')
        /\ Cardinality(Renaming') = Cardinality(Renaming) + 1
        /\ Cardinality(Dropping') = Cardinality(Dropping)
        /\ Cardinality(Nobody') = Cardinality(Nobody)
    <3>1. /\ IsFiniteSet(Renaming') /\ IsFiniteSet(Dropping') /\ IsFiniteSet(Nobody')
          /\ Cardinality(Renaming')
               = Cardinality(Renaming) + Change(hs[h].pc = "rename", x.pc = "rename")
          /\ Cardinality(Dropping') = Cardinality(Dropping) + Change(hs[h].pc = "drop", x.pc = "drop")
          /\ Cardinality(Nobody') = Cardinality(Nobody)
      BY <1>5, <2>1
    <3> QED
      BY <1>2, <2>1, <3>1 DEF Change
  <2>3. Countable'
    BY <1>1, <2>1, <2>2 DEF Countable
  <2> QED
    BY <1>2, <1>3, <1>4, <2>1, <2>2, <2>3, Balanced
<1>8. CASE LookupLock(h) \/ LockAndOpen(h) \/ Match(h) \/ CopyUnit(h) \/ CopyFails(h)
  <2>1. PICK x : /\ hs' = [hs EXCEPT ![h] = x] /\ x.client = hs[h].client
                 /\ x.pc \notin {"idle", "rename", "drop"} /\ hs[h].pc \notin {"idle", "rename", "drop"}
    <3>1. CASE LookupLock(h)
      <4> DEFINE x == [hs[h] EXCEPT !.pc = "blocked", !.mu = entry']
      <4>1. hs' = [hs EXCEPT ![h] = x] /\ x.client = hs[h].client /\ x.pc = "blocked"
        BY <1>1, <3>1 DEF LookupLock, Handler
      <4> QED
        BY <3>1, <4>1 DEF LookupLock
    <3>2. CASE LockAndOpen(h)
      <4> DEFINE x == [hs[h] EXCEPT !.pc = "check", !.fd = part']
      <4>1. hs' = [hs EXCEPT ![h] = x] /\ x.client = hs[h].client /\ x.pc = "check"
        BY <1>1, <3>2 DEF LockAndOpen, Handler
      <4> QED
        BY <3>2, <4>1 DEF LockAndOpen
    <3>3. CASE Match(h)
      <4> DEFINE x == [hs[h] EXCEPT !.pc = "copy", !.pos = hs[h].off]
      <4>1. hs' = [hs EXCEPT ![h] = x] /\ x.client = hs[h].client /\ x.pc = "copy"
        BY <1>1, <3>3 DEF Match, Handler
      <4> QED
        BY <3>3, <4>1 DEF Match
    <3>4. CASE CopyUnit(h)
      <4> DEFINE x == [hs[h] EXCEPT !.pos = hs[h].pos + 1]
      <4>1. hs' = [hs EXCEPT ![h] = x] /\ x.client = hs[h].client /\ x.pc = hs[h].pc
        BY <1>1, <3>4 DEF CopyUnit, Handler
      <4> QED
        BY <3>4, <4>1 DEF CopyUnit
    <3>5. CASE CopyFails(h)
      <4> DEFINE x == [hs[h] EXCEPT !.pc = "truncate"]
      <4>1. hs' = [hs EXCEPT ![h] = x] /\ x.client = hs[h].client /\ x.pc = "truncate"
        BY <1>1, <3>5 DEF CopyFails, Goto, Handler
      <4> QED
        BY <3>5, <4>1 DEF CopyFails
    <3> QED
      BY <1>8, <3>1, <3>2, <3>3, <3>4, <3>5
  <2>2. /\ IsFiniteSet(Renaming') /\ IsFiniteSet(Dropping') /\ IsFiniteSet(Nobody')
        /\ Cardinality(Renaming') = Cardinality(Renaming)
        /\ Cardinality(Dropping') = Cardinality(Dropping)
        /\ Cardinality(Nobody') = Cardinality(Nobody)
    <3>1. /\ IsFiniteSet(Renaming') /\ IsFiniteSet(Dropping') /\ IsFiniteSet(Nobody')
          /\ Cardinality(Renaming')
               = Cardinality(Renaming) + Change(hs[h].pc = "rename", x.pc = "rename")
          /\ Cardinality(Dropping') = Cardinality(Dropping) + Change(hs[h].pc = "drop", x.pc = "drop")
          /\ Cardinality(Nobody') = Cardinality(Nobody)
      BY <1>5, <2>1
    <3> QED
      BY <1>2, <2>1, <3>1 DEF Change
  <2>3. saved' = saved /\ placeholders' = placeholders
    BY <1>8 DEF LookupLock, LockAndOpen, Match, CopyUnit, CopyFails, storage
  <2>4. part' \notin saved
    <3>1. CASE LockAndOpen(h)
      BY <1>1, <3>1, OpenPartFacts DEF LockAndOpen, TypeInv, Countable
    <3>2. CASE ~LockAndOpen(h)
      BY <1>1, <1>8, <3>2 DEF LookupLock, Match, CopyUnit, CopyFails, storage, Countable
    <3> QED
      BY <3>1, <3>2
  <2>5. Countable'
    BY <1>1, <2>2, <2>3, <2>4 DEF Countable
  <2> QED
    BY <1>2, <1>3, <1>4, <2>2, <2>3, <2>5, Balanced
<1> QED
  BY <1>6, <1>7, <1>8

\* The page's own steps, the sweep's, and time: they neither answer nor save.
LEMMA CountElse ==
  ASSUME CountInv, TypeInv',
         \/ \E c \in Clients : ClientStep(c) \/ ProbeFails(c) \/ Resend(c)
         \/ GcFind \/ GcStep \/ Age \/ UNCHANGED vars
  PROVE  CountInv'
<1>1. TypeInv /\ Countable
  BY DEF CountInv
<1>2. /\ faults.lost \in Nat /\ Cardinality(Done) \in Nat /\ Cardinality(Renaming) \in Nat
      /\ Cardinality(Dropping) \in Nat /\ Cardinality(Nobody) \in Nat /\ Cardinality(saved) \in Nat
      /\ placeholders \in Int /\ faults.crashes \in Nat
  BY <1>1, Numbers
<1>3. /\ saved' = saved /\ placeholders' = placeholders /\ part' \in {part, None}
  BY DEF ClientStep, GcStep, Probe, Send, ProbeFails, Resend, GcFind, GcLookupLock, GcSkip, GcRemove,
         GcDrop, Age, vars, storage
<1>4. part' \notin saved
  BY <1>1, <1>3, NoneAssumption DEF Countable, TypeInv, TypeOK
<1>5. Done' = Done
  <2>1. ASSUME NEW c \in Clients, ClientStep(c) \/ ProbeFails(c) \/ Resend(c) PROVE Done' = Done
    <3>1. clients \in [Clients -> Client] /\ clients[c].pc # "done"
      BY <1>1, <2>1 DEF ClientStep, Probe, Send, ProbeFails, Resend, TypeInv, TypeOK
    <3>2. \A d \in Clients : clients'[d].pc = "done" <=> clients[d].pc = "done"
      BY <2>1, <3>1 DEF ClientStep, Probe, Send, ProbeFails, Resend, Client
    <3> QED
      BY <3>2 DEF Done
  <2>2. CASE GcFind \/ GcStep \/ Age \/ UNCHANGED vars
    BY <2>2 DEF GcFind, GcStep, GcLookupLock, GcSkip, GcRemove, GcDrop, Age, vars, Done
  <2> QED
    BY <2>1, <2>2
<1>6. Renaming' = Renaming /\ Dropping' = Dropping /\ Nobody' = Nobody
  <2>1. CASE hs' = hs
    BY <2>1 DEF Renaming, Dropping, Nobody
  <2>2. ASSUME NEW c \in Clients, Send(c)
        PROVE  Renaming' = Renaming /\ Dropping' = Dropping /\ Nobody' = Nobody
    <3> DEFINE h == CHOOSE h \in Handlers : hs[h].pc = "idle"
               x == [IdleHandler EXCEPT !.pc = "arrived", !.client = c, !.off = clients[c].off]
    <3>1. h \in Handlers /\ hs[h].pc = "idle" /\ hs' = [hs EXCEPT ![h] = x]
      BY <2>2 DEF Send
    <3>2. x.pc = "arrived" /\ x.client = c /\ c # None
      BY NoneAssumption DEF IdleHandler
    <3> HIDE DEF h, x
    <3>3. \A g \in Handlers : hs'[g] = IF g = h THEN x ELSE hs[g]
      BY <1>1, <3>1 DEF TypeInv, TypeOK
    <3> QED
      BY <3>1, <3>2, <3>3 DEF Renaming, Dropping, Nobody
  <2> QED
    BY <2>1, <2>2 DEF ClientStep, GcStep, Probe, ProbeFails, Resend, GcFind, GcLookupLock, GcSkip,
                      GcRemove, GcDrop, Age, vars
<1>7. faults'.crashes = faults.crashes /\ faults'.lost \in Nat /\ faults'.lost >= faults.lost
  <2>1. faults' = faults \/ Happens("lost") \/ Happens("resends") \/ Happens("ages")
    BY DEF ClientStep, GcStep, Probe, Send, ProbeFails, Resend, GcFind, GcLookupLock, GcSkip, GcRemove,
           GcDrop, Age, vars
  <2> QED
    BY <1>1, <1>2, <2>1, FaultsCounted DEF FaultKind, Change
<1>8. Countable'
  BY <1>1, <1>3, <1>4, <1>6 DEF Countable
<1> QED
  BY <1>2, <1>3, <1>5, <1>6, <1>7, <1>8, Balanced

\* A restart forgets at most one request of each page, and those whose page is gone.
LEMMA CountRestart ==
  ASSUME CountInv, TypeInv', Restart
  PROVE  CountInv'
<1>1. TypeInv /\ Countable /\ Tally
  BY DEF CountInv
<1>2. /\ faults.lost \in Nat /\ Cardinality(Done) \in Nat /\ Cardinality(Dropping) \in Nat
      /\ Cardinality(Nobody) \in Nat /\ Cardinality(saved) \in Nat /\ faults.crashes \in Nat
      /\ Cardinality(Clients) \in Nat
  BY <1>1, Numbers
<1>3. \A h \in Handlers : hs'[h].pc = "idle"
  BY DEF Restart, IdleHandler
<1>4. Renaming' = {} /\ Dropping' = {} /\ Nobody' = {}
  BY <1>3 DEF Renaming, Dropping, Nobody
<1>5. Done' = Done
  <2>1. \A cl \in Client : \A off : Retry(cl, off).pc # "done"
    BY DEF Retry, Client
  <2> QED
    BY <1>1, <2>1 DEF Restart, Done, TypeInv, TypeOK
<1>6. saved' = saved /\ part' = part
  BY DEF Restart, storage
<1>7. Countable'
  BY <1>1, <1>4, <1>6, FS_EmptySet DEF Countable
<1>8. faults'.lost = faults.lost /\ faults'.crashes = faults.crashes + 1
  BY <1>1, <1>2, FaultsCounted DEF Restart, FaultKind, Change
<1>9. Cardinality(Dropping) <= Cardinality(Nobody) + Cardinality(Clients)
  <2> DEFINE asked == Dropping \ Nobody
             of == [h \in asked |-> hs[h].client]
  <2>1. \A h \in asked : hs[h].client \in Clients
    BY <1>1 DEF Dropping, Nobody, TypeInv, TypeOK, Handler
  <2>2. \A g, h \in asked : hs[g].client = hs[h].client => g = h
    BY <1>1, <2>1, NoneAssumption DEF TypeInv, Calls, Dropping
  <2>3. of \in Injection(asked, Clients)
    <3>1. of \in [asked -> Clients]
      BY <2>1
    <3>2. \A g, h \in asked : of[g] = of[h] => g = h
      BY <2>2
    <3> HIDE DEF asked, of
    <3> QED
      BY <3>1, <3>2 DEF Injection, IsInjective
  <2>4. IsFiniteSet(asked) /\ Cardinality(asked) <= Cardinality(Clients)
    BY <2>3, ClientsAssumption, FS_Injection
  <2>5. Dropping \subseteq asked \cup Nobody
    OBVIOUS
  <2> HIDE DEF asked
  <2>6. /\ IsFiniteSet(asked \cup Nobody)
        /\ Cardinality(asked \cup Nobody)
             = Cardinality(asked) + Cardinality(Nobody) - Cardinality(asked \cap Nobody)
    BY <1>1, <2>4, FS_Union DEF Countable
  <2>7. Cardinality(asked) \in Nat /\ Cardinality(asked \cap Nobody) \in Nat
    BY <2>4, FS_CardinalityType, FS_Intersection
  <2>8. Cardinality(Dropping) <= Cardinality(asked \cup Nobody)
    BY <2>5, <2>6, FS_Subset
  <2> QED
    BY <1>2, <2>4, <2>6, <2>7, <2>8
<1>10. Tally'
  <2> DEFINE n == Cardinality(Clients)
             k == faults.crashes
  <2>1. n * k \in Nat /\ n * (k + 1) = n * k + n
    BY <1>2
  <2>2. /\ Cardinality(Done) <= Cardinality(saved)
        /\ Cardinality(saved) <= Cardinality(Done) + faults.lost + n * (k + 1)
    <3>1. /\ Cardinality(Done) + Cardinality(Dropping) <= Cardinality(saved)
          /\ Cardinality(saved) + Cardinality(Nobody)
               <= Cardinality(Done) + Cardinality(Dropping) + faults.lost + n * k
      BY <1>1 DEF Tally
    <3>2. n \in Nat
      BY <1>2
    <3> DEFINE owed == n * k
               more == n * (k + 1)
    <3>3. owed \in Nat /\ more = owed + n
      BY <2>1
    <3> HIDE DEF owed, more, n
    <3>4. Cardinality(saved) + Cardinality(Nobody)
            <= Cardinality(Done) + Cardinality(Dropping) + faults.lost + owed
      BY <3>1 DEF owed
    <3>5. Cardinality(Dropping) <= Cardinality(Nobody) + n
      BY <1>9 DEF n
    <3>6. Cardinality(saved) <= Cardinality(Done) + faults.lost + more
      BY <1>2, <3>2, <3>3, <3>4, <3>5
    <3>7. Cardinality(Done) <= Cardinality(saved)
      BY <1>2, <3>1
    <3> QED
      BY <3>6, <3>7 DEF more
  <2>3. Cardinality({}) = 0
    BY FS_EmptySet
  <2> HIDE DEF n, k
  <2>4. /\ Cardinality(Done') + Cardinality(Dropping') <= Cardinality(saved')
        /\ Cardinality(saved') + Cardinality(Nobody')
             <= Cardinality(Done') + Cardinality(Dropping') + faults'.lost + n * faults'.crashes
    BY <1>2, <1>4, <1>5, <1>6, <1>8, <2>2, <2>3 DEF k
  <2> QED
    BY <2>4 DEF Tally, n
<1>11. Blanks'
  BY <1>2, <1>8 DEF Blanks
<1> QED
  BY <1>7, <1>10, <1>11 DEF CountInv

LEMMA CountInit == Init => CountInv
<1> SUFFICES ASSUME Init PROVE CountInv
  OBVIOUS
<1>1. TypeInv
  BY TypeInit
<1>2. Renaming = {} /\ Dropping = {} /\ Nobody = {} /\ Done = {} /\ saved = {} /\ placeholders = 0
  BY DEF Init, IdleHandler, Renaming, Dropping, Nobody, Done
<1>3. Countable
  BY <1>2, FS_EmptySet DEF Countable
<1>4. Cardinality({}) = 0 /\ Cardinality(Clients) * faults.crashes \in Nat /\ faults.lost \in Nat
  BY <1>1, <1>3, Numbers, FS_EmptySet
<1>5. Tally /\ Blanks
  BY <1>2, <1>4 DEF Tally, Blanks
<1> QED
  BY <1>1, <1>3, <1>5 DEF CountInv

LEMMA CountNext == CountInv /\ [Next]_vars => CountInv'
<1> SUFFICES ASSUME CountInv, [Next]_vars PROVE CountInv'
  OBVIOUS
<1>1. TypeInv'
  BY TypeNext DEF CountInv
<1>2. ASSUME NEW h \in Handlers, HandlerStep(h) \/ HandlerFault(h) PROVE CountInv'
  BY <1>1, <1>2, CountAnswer, CountWork DEF HandlerStep, HandlerFault
<1>3. CASE Restart
  BY <1>1, <1>3, CountRestart
<1>4. CASE \/ \E c \in Clients : ClientStep(c) \/ ProbeFails(c) \/ Resend(c)
           \/ GcFind \/ GcStep \/ Age \/ UNCHANGED vars
  BY <1>1, <1>4, CountElse
<1> QED
  BY <1>2, <1>3, <1>4 DEF Next

LEMMA Counted == Spec => []CountInv
BY CountInit, CountNext, PTL DEF Spec

\* Copies in the folder match the successes reported, however chunks interleave: none is
\* reported without its copy, and a copy too many has a lost connection or a restart behind it.
THEOREM CopiesMatch == Spec => []CopiesMatchSuccesses
<1>1. CountInv => CopiesMatchSuccesses
  BY Numbers DEF CountInv, Tally, CopiesMatchSuccesses
<1> QED
  BY <1>1, Counted, PTL

\* Each empty file under a name has a request about to rename over it, unless the server stopped.
THEOREM BlanksAreTakenBack == Spec => []NoEmptyFileLeftBehind
<1>1. CountInv => NoEmptyFileLeftBehind
  BY DEF CountInv, Blanks, Renaming, NoEmptyFileLeftBehind
<1> QED
  BY <1>1, Counted, PTL
============================================================================
