-------------------------- MODULE ResumableUpload --------------------------
(***************************************************************************)
(* Chunked, resumable uploads: the page's uploadResumable loop             *)
(* (web/static/js/app/transfer.js), the server's status and chunk handlers *)
(* and the sweep of abandoned parts (internal/handler/upload.go).          *)
(*                                                                         *)
(* One upload is modelled: one file, one destination folder, hence one     *)
(* part path.  Uploads of different files share nothing but the map of     *)
(* locks, whose entries are per path.  Several clients may send that same  *)
(* file (two tabs, a tab and its own earlier request still being served);  *)
(* the upload id is derived from the file, so they all meet in one part.   *)
(*                                                                         *)
(* A file is a row of FileSize units, each 8 MB chunk ChunkSize of them.   *)
(* What is stored is kept as its length and the set of positions that hold *)
(* zeros instead of the file's own bytes (a hole left by writing past the  *)
(* end): every writer of one part sends the same bytes.                    *)
(***************************************************************************)
EXTENDS Integers, FiniteSets

CONSTANTS
  Clients,     \* pages uploading the file
  Handlers,    \* goroutines that can be serving a chunk at the same time
  Mutexes,     \* identities of the sync.Mutex values partLock hands out
  Inodes,      \* identities of the files a part path can name over time
  FileSize,    \* units in the file; more than one chunk, or putFile would not chunk it
  ChunkSize,   \* CHUNK_BYTES
  Retries,     \* CHUNK_RETRIES
  None,        \* no client, no mutex, no inode
  MaxFaults    \* bound: lost connections, failed file operations, days without a write,
               \* restarts of the server and repeats by the user, taken together

ASSUME SizesAssumption ==
  /\ FileSize \in Nat /\ ChunkSize \in Nat /\ Retries \in Nat /\ MaxFaults \in Nat
  /\ 0 < ChunkSize /\ ChunkSize < FileSize

ASSUME NoneAssumption == None \notin Clients \cup Mutexes \cup Inodes

ASSUME ClientsAssumption == IsFiniteSet(Clients)

VARIABLES
  part,          \* the inode at the part's path, or None
  file,          \* inode -> [len, zeros]
  saved,         \* inodes moved into the destination folder, each under a name of its own
  placeholders,  \* empty files createUnique left in the destination folder
  aged,          \* the part's mtime is older than partMaxAge
  entry,         \* s.parts[path]: the mutex the map holds for the part, or None
  hs,            \* handler -> what the goroutine is doing
  clients,       \* client -> where the page's loop is
  gc,            \* the sweep's goroutine
  faults,        \* how often each kind of fault has happened
  split          \* observer: two handlers have been at work on the part at once

vars == <<part, file, saved, placeholders, aged, entry, hs, clients, gc, faults, split>>
storage == <<part, file, saved, placeholders, aged>>

----------------------------------------------------------------------------
(* Data *)

Content == [len : 0..FileSize, zeros : SUBSET (1..FileSize)]
Empty == [len |-> 0, zeros |-> {}]
Whole == [len |-> FileSize, zeros |-> {}]

\* Writing the unit at offset p: a seek past the end leaves zeros behind it.
WriteAt(c, p) ==
  [len |-> IF p < c.len THEN c.len ELSE p + 1,
   zeros |-> (c.zeros \ {p + 1}) \cup ((c.len + 1)..p)]

\* os.Truncate: cuts the tail off, or extends with zeros.
TruncateTo(c, k) ==
  [len |-> k, zeros |-> (c.zeros \cap (1..k)) \cup ((c.len + 1)..k)]

\* partSize: a part that is not there yet is 0.
PartSize == IF part = None THEN 0 ELSE file[part].len

\* The slice the page cuts at an offset, and whether it is marked last=1.
End(off) == IF off + ChunkSize < FileSize THEN off + ChunkSize ELSE FileSize
Last(off) == off + ChunkSize >= FileSize

HandlerPc ==
  {"idle", "arrived", "blocked", "check", "copy", "truncate", "place", "rename", "drop"}
Handler ==
  [pc : HandlerPc, client : Clients \cup {None}, off : 0..FileSize,
   mu : Mutexes \cup {None}, fd : Inodes \cup {None}, pos : 0..FileSize]
IdleHandler ==
  [pc |-> "idle", client |-> None, off |-> 0, mu |-> None, fd |-> None, pos |-> 0]

\* Between Lock and Unlock, and between opening the part and being done with it.
Holding(h) == hs[h].pc \in {"check", "copy", "truncate", "place", "rename", "drop"}
AtWork(h) == hs[h].pc \in {"check", "copy", "truncate", "place", "rename"}

ClientPc == {"probe", "send", "waiting", "done", "failed", "plain"}
Client == [pc : ClientPc, off : 0..FileSize, attempt : 0..Retries + 1, acked : 0..FileSize]

\* Lost connections and probes, failed file operations, partMaxAge without a write,
\* restarts, and files sent again after the page gave up.
FaultKind == {"lost", "errors", "ages", "crashes", "resends"}
Total == faults.lost + faults.errors + faults.ages + faults.crashes + faults.resends

\* A new mutex or inode is any that nothing refers to any more.
FreeMutexes == {m \in Mutexes : m # entry /\ m # gc.mu /\ \A h \in Handlers : hs[h].mu # m}
FreeInodes == {i \in Inodes \ (saved \cup {part}) : \A h \in Handlers : hs[h].fd # i}

Init ==
  /\ part = None
  /\ file = [i \in Inodes |-> Empty]
  /\ saved = {}
  /\ placeholders = 0
  /\ aged = FALSE
  /\ entry = None
  /\ hs = [h \in Handlers |-> IdleHandler]
  /\ clients = [c \in Clients |-> [pc |-> "probe", off |-> 0, attempt |-> 0, acked |-> 0]]
  /\ gc = [pc |-> "idle", mu |-> None]
  /\ faults = [k \in FaultKind |-> 0]
  /\ split = FALSE

----------------------------------------------------------------------------
(* What a response does to the page's loop.  A request whose connection is  *)
(* gone has no client any more, and its response reaches nobody.            *)

\* A failed request, or a 409: both count as an attempt.
Retry(cl, off) ==
  [cl EXCEPT !.attempt = @ + 1, !.off = off,
             !.pc = IF cl.attempt + 1 > Retries THEN "failed" ELSE "send"]

ToClient(h, reply) ==
  LET c == hs[h].client
  IN clients' = IF c = None THEN clients ELSE [clients EXCEPT ![c] = reply]

ReplyOffset(h) ==
  LET c == hs[h].client
  IN ToClient(h, [pc |-> "send", off |-> hs[h].pos, attempt |-> 0, acked |-> hs[h].pos])

ReplySaved(h) == ToClient(h, [clients[hs[h].client] EXCEPT !.pc = "done", !.attempt = 0])
ReplyConflict(h) == ToClient(h, Retry(clients[hs[h].client], PartSize))
ReplyError(h) ==
  ToClient(h, Retry(clients[hs[h].client], clients[hs[h].client].off))

\* The handler returns: its deferred Unlock runs.
Return(h) == hs' = [hs EXCEPT ![h] = IdleHandler]
Goto(h, where) == hs' = [hs EXCEPT ![h].pc = where]

\* One more event of a kind that nothing in the protocol causes.
Happens(kind) == Total < MaxFaults /\ faults' = [faults EXCEPT ![kind] = @ + 1]

----------------------------------------------------------------------------
(* The page *)

\* GET upload/status: start from what has landed.
Probe(c) ==
  /\ clients[c].pc = "probe"
  /\ clients' = [clients EXCEPT ![c].pc = "send", ![c].attempt = 0, ![c].off = PartSize]
  /\ UNCHANGED <<storage, entry, hs, gc, faults, split>>

\* The probe itself failed: the file goes up in one piece, outside this protocol.
ProbeFails(c) ==
  /\ clients[c].pc = "probe"
  /\ Happens("lost")
  /\ clients' = [clients EXCEPT ![c].pc = "plain"]
  /\ UNCHANGED <<storage, entry, hs, gc, split>>

\* sendChunk: a goroutine starts on the request.
Send(c) ==
  /\ clients[c].pc = "send"
  /\ \E h \in Handlers : hs[h].pc = "idle"
  /\ LET h == CHOOSE h \in Handlers : hs[h].pc = "idle"
     IN hs' = [hs EXCEPT ![h] = [IdleHandler EXCEPT !.pc = "arrived", !.client = c,
                                                    !.off = clients[c].off]]
  /\ clients' = [clients EXCEPT ![c].pc = "waiting"]
  /\ UNCHANGED <<storage, entry, gc, faults, split>>

\* The connection drops: the page retries while the goroutine may still be running.
LoseConnection(h) ==
  /\ hs[h].pc # "idle" /\ hs[h].client # None
  /\ Happens("lost")
  /\ ReplyError(h)
  /\ hs' = [hs EXCEPT ![h].client = None]
  /\ UNCHANGED <<storage, entry, gc, split>>

\* The user sends the file again after the page gave up on it.
Resend(c) ==
  /\ clients[c].pc = "failed"
  /\ Happens("resends")
  /\ clients' = [clients EXCEPT ![c].pc = "probe", ![c].acked = 0]
  /\ UNCHANGED <<storage, entry, hs, gc, split>>

----------------------------------------------------------------------------
(* uploadChunkHandler *)

\* partLock: the mutex in the map, or a new one.
PartLock ==
  IF entry # None THEN UNCHANGED entry
  ELSE FreeMutexes # {} /\ entry' = CHOOSE m \in FreeMutexes : TRUE

\* OpenFile with O_CREATE: the file at the part's path, or a new empty one.
OpenPart ==
  IF part # None THEN UNCHANGED <<part, file, aged>>
  ELSE /\ FreeInodes # {}
       /\ part' = CHOOSE i \in FreeInodes : TRUE
       /\ file' = [file EXCEPT ![part'] = Empty]
       /\ aged' = FALSE

LookupLock(h) ==
  /\ hs[h].pc = "arrived"
  /\ PartLock
  /\ hs' = [hs EXCEPT ![h].pc = "blocked", ![h].mu = entry']
  /\ UNCHANGED <<storage, clients, gc, faults, split>>

\* mu.Lock and OpenFile with O_CREATE.
LockAndOpen(h) ==
  /\ hs[h].pc = "blocked"
  /\ \A g \in Handlers : Holding(g) => hs[g].mu # hs[h].mu
  /\ OpenPart
  /\ hs' = [hs EXCEPT ![h].pc = "check", ![h].fd = part']
  /\ split' = (split \/ \E g \in Handlers \ {h} : AtWork(g))
  /\ UNCHANGED <<saved, placeholders, entry, clients, gc, faults>>

\* mu.Lock, then MkdirAll or OpenFile fails.
OpenFails(h) ==
  /\ hs[h].pc = "blocked"
  /\ \A g \in Handlers : Holding(g) => hs[g].mu # hs[h].mu
  /\ Happens("errors")
  /\ ReplyError(h)
  /\ Return(h)
  /\ UNCHANGED <<storage, entry, gc, split>>

\* Seeded fault (see the README): a 409 that leaves the mutex locked.
MismatchStillLocked(h) ==
  /\ hs[h].pc = "check" /\ hs[h].client # None
  /\ hs[h].off # PartSize
  /\ ReplyConflict(h)
  /\ hs' = [hs EXCEPT ![h].client = None]
  /\ UNCHANGED <<storage, entry, gc, faults, split>>

\* The offset is behind or ahead of what landed: 409 with the truth.
Mismatch(h) ==
  /\ hs[h].pc = "check"
  /\ hs[h].off # PartSize
  /\ ReplyConflict(h)
  /\ Return(h)
  /\ UNCHANGED <<storage, entry, gc, faults, split>>

\* Seeded fault: the offset the page claims is taken as it is.
MatchAnything(h) ==
  /\ hs[h].pc = "check"
  /\ hs' = [hs EXCEPT ![h].pc = "copy", ![h].pos = hs[h].off]
  /\ UNCHANGED <<storage, entry, clients, gc, faults, split>>

\* The offset is where the part ends: seek there.
Match(h) ==
  /\ hs[h].pc = "check"
  /\ hs[h].off = PartSize
  /\ hs' = [hs EXCEPT ![h].pc = "copy", ![h].pos = hs[h].off]
  /\ UNCHANGED <<storage, entry, clients, gc, faults, split>>

\* io.Copy, one unit at a time, into the open file wherever its name has gone.
CopyUnit(h) ==
  /\ hs[h].pc = "copy"
  /\ hs[h].pos < End(hs[h].off)
  /\ file' = [file EXCEPT ![hs[h].fd] = WriteAt(@, hs[h].pos)]
  /\ hs' = [hs EXCEPT ![h].pos = @ + 1]
  /\ aged' = (aged /\ hs[h].fd # part)
  /\ UNCHANGED <<part, saved, placeholders, entry, clients, gc, faults, split>>

\* The body breaks off, which a lost connection can do at any unit, or the write fails.
CopyFails(h) ==
  /\ hs[h].pc = "copy"
  /\ \/ hs[h].client = None /\ hs[h].pos < End(hs[h].off) /\ UNCHANGED faults
     \/ Happens("errors")
  /\ Goto(h, "truncate")
  /\ UNCHANGED <<storage, entry, clients, gc, split>>

\* Seeded fault: a failed slice empties the part.
TruncateAll(h) ==
  /\ hs[h].pc = "truncate"
  /\ file' = IF part = None THEN file ELSE [file EXCEPT ![part] = Empty]
  /\ aged' = FALSE
  /\ ReplyError(h)
  /\ Return(h)
  /\ UNCHANGED <<part, saved, placeholders, entry, gc, faults, split>>

\* Back to what was whole.  Truncate takes the path, not the open file.
Truncate(h) ==
  /\ hs[h].pc = "truncate"
  /\ file' = IF part = None THEN file
             ELSE [file EXCEPT ![part] = TruncateTo(@, hs[h].off)]
  /\ aged' = FALSE
  /\ ReplyError(h)
  /\ Return(h)
  /\ UNCHANGED <<part, saved, placeholders, entry, gc, faults, split>>

\* The slice has landed and more is to come.
Landed(h) ==
  /\ hs[h].pc = "copy"
  /\ hs[h].pos = End(hs[h].off) /\ ~Last(hs[h].off)
  /\ ReplyOffset(h)
  /\ Return(h)
  /\ UNCHANGED <<storage, entry, gc, faults, split>>

\* finishPart, createUnique: an empty file holds the name.
Place(h) ==
  /\ hs[h].pc = "copy"
  /\ hs[h].pos = End(hs[h].off) /\ Last(hs[h].off)
  /\ placeholders' = placeholders + 1
  /\ Goto(h, "rename")
  /\ UNCHANGED <<part, file, saved, aged, entry, clients, gc, faults, split>>

\* finishPart, createUnique fails: the part stays, complete.
PlaceFails(h) ==
  /\ hs[h].pc = "copy"
  /\ hs[h].pos = End(hs[h].off) /\ Last(hs[h].off)
  /\ Happens("errors")
  /\ ReplyError(h)
  /\ Return(h)
  /\ UNCHANGED <<storage, entry, gc, split>>

\* finishPart, Rename over the placeholder.
Rename(h) ==
  /\ hs[h].pc = "rename"
  /\ part # None
  /\ saved' = saved \cup {part}
  /\ part' = None
  /\ aged' = FALSE
  /\ placeholders' = placeholders - 1
  /\ Goto(h, "drop")
  /\ UNCHANGED <<file, entry, clients, gc, faults, split>>

\* Seeded fault: the rename's error goes unnoticed.
RenameFailsUnnoticed(h) ==
  /\ hs[h].pc = "rename"
  /\ IF part = None THEN UNCHANGED faults ELSE Happens("errors")
  /\ Goto(h, "drop")
  /\ UNCHANGED <<storage, entry, clients, gc, split>>

\* Seeded fault: the placeholder is not cleaned up.
RenameFailsKeepsPlaceholder(h) ==
  /\ hs[h].pc = "rename"
  /\ IF part = None THEN UNCHANGED faults ELSE Happens("errors")
  /\ ReplyError(h)
  /\ Return(h)
  /\ UNCHANGED <<storage, entry, gc, split>>

\* finishPart, Rename fails (the part may be gone): the placeholder is removed.
RenameFails(h) ==
  /\ hs[h].pc = "rename"
  /\ IF part = None THEN UNCHANGED faults ELSE Happens("errors")
  /\ placeholders' = placeholders - 1
  /\ ReplyError(h)
  /\ Return(h)
  /\ UNCHANGED <<part, file, saved, aged, entry, gc, split>>

\* dropPartLock while still holding the mutex, then the response and the Unlock.
Drop(h) ==
  /\ hs[h].pc = "drop"
  /\ entry' = None
  /\ ReplySaved(h)
  /\ Return(h)
  /\ UNCHANGED <<storage, gc, faults, split>>

----------------------------------------------------------------------------
(* purgePartsOnce *)

\* The part goes partMaxAge without a write.
Age ==
  /\ part # None /\ ~aged
  /\ Happens("ages")
  /\ aged' = TRUE
  /\ UNCHANGED <<part, file, saved, placeholders, entry, hs, clients, gc, split>>

\* ReadDir and Info: the mtime is judged here, before any lock.
GcFind ==
  /\ gc.pc = "idle" /\ part # None /\ aged
  /\ gc' = [gc EXCEPT !.pc = "stale"]
  /\ UNCHANGED <<storage, entry, hs, clients, faults, split>>

GcLookupLock ==
  /\ gc.pc = "stale"
  /\ PartLock
  /\ gc' = [pc |-> "try", mu |-> entry']
  /\ UNCHANGED <<storage, hs, clients, faults, split>>

GcHeld == \E h \in Handlers : Holding(h) /\ hs[h].mu = gc.mu

\* TryLock fails: a chunk is landing.
GcSkip ==
  /\ gc.pc = "try" /\ GcHeld
  /\ gc' = [pc |-> "idle", mu |-> None]
  /\ UNCHANGED <<storage, entry, hs, clients, faults, split>>

\* TryLock, Remove, Unlock.
GcRemove ==
  /\ gc.pc = "try" /\ ~GcHeld
  /\ part' = None
  /\ aged' = FALSE
  /\ gc' = [gc EXCEPT !.pc = "drop"]
  /\ UNCHANGED <<file, saved, placeholders, entry, hs, clients, faults, split>>

GcDrop ==
  /\ gc.pc = "drop"
  /\ entry' = None
  /\ gc' = [pc |-> "idle", mu |-> None]
  /\ UNCHANGED <<storage, hs, clients, faults, split>>

----------------------------------------------------------------------------

\* The server stops and starts again: every goroutine and every lock is gone, the files stay.
Restart ==
  /\ Happens("crashes")
  /\ hs' = [h \in Handlers |-> IdleHandler]
  /\ clients' = [c \in Clients |->
                   IF clients[c].pc = "waiting" THEN Retry(clients[c], clients[c].off)
                   ELSE clients[c]]
  /\ entry' = None
  /\ gc' = [pc |-> "idle", mu |-> None]
  /\ UNCHANGED <<storage, split>>

HandlerStep(h) ==
  \/ LookupLock(h) \/ LockAndOpen(h) \/ Mismatch(h) \/ Match(h) \/ CopyUnit(h)
  \/ Truncate(h) \/ Landed(h) \/ Place(h) \/ Rename(h) \/ RenameFails(h) \/ Drop(h)
HandlerFault(h) == LoseConnection(h) \/ OpenFails(h) \/ CopyFails(h) \/ PlaceFails(h)
ClientStep(c) == Probe(c) \/ Send(c)
GcStep == GcLookupLock \/ GcSkip \/ GcRemove \/ GcDrop

Next ==
  \/ \E h \in Handlers : HandlerStep(h) \/ HandlerFault(h)
  \/ \E c \in Clients : ClientStep(c) \/ ProbeFails(c) \/ Resend(c)
  \/ GcFind \/ GcStep \/ Age \/ Restart

Spec == Init /\ [][Next]_vars

\* Goroutines are scheduled and the mutex is granted in the end; the page's loop runs on.
\* Nothing makes a connection drop, a disk fail, a server restart or a user come back.
Fairness ==
  /\ \A h \in Handlers : WF_vars(HandlerStep(h))
  /\ \A c \in Clients : WF_vars(ClientStep(c))
  /\ WF_vars(GcStep)

FairSpec == Spec /\ Fairness

----------------------------------------------------------------------------
(* Properties *)

\* Every variable has its type.
TypeOK ==
  /\ part \in Inodes \cup {None}
  /\ file \in [Inodes -> Content]
  /\ saved \subseteq Inodes
  /\ placeholders \in Int
  /\ aged \in BOOLEAN
  /\ entry \in Mutexes \cup {None}
  /\ hs \in [Handlers -> Handler]
  /\ clients \in [Clients -> Client]
  /\ gc \in [pc : {"idle", "stale", "try", "drop"}, mu : Mutexes \cup {None}]
  /\ faults \in [FaultKind -> Nat]
  /\ split \in BOOLEAN

\* partLock "serializes chunks of one upload" (upload.go:50): two handlers are never at
\* work on the part at the same time.
Serialized == ~split

\* The protocol of offsets, truncation and rename is right as long as chunks are in fact
\* serialized: then every file that reaches the destination folder is the whole file,
\* through lost connections, failed writes, restarts and the sweep of parts.
SavedWholeWhenSerialized == ~split => \A i \in saved : file[i] = Whole

\* What a page was told has landed stays landed: the part still holds it, or the upload
\* was completed, unless the sweep took the part away as abandoned.
AckedBytesKept ==
  (~split /\ faults.ages = 0) =>
    \A c \in Clients :
      \/ clients[c].acked <= PartSize
      \/ saved # {}

Done == {c \in Clients : clients[c].pc = "done"}
Dropping == {h \in Handlers : hs[h].pc = "drop"}

\* Copies and successes match, even when chunks are not serialized: a page that is told "saved" has
\* a copy in the folder that no other page's success stands for, and a second copy appears only
\* where a response was lost, each answering a page that is done, is about to be, or whose
\* connection had gone (finishPart's createUnique, sent again by uploadResumable).
CopiesMatchSuccesses ==
  LET successes == Cardinality(Done) + Cardinality(Dropping) IN
    /\ successes <= Cardinality(saved)
    /\ Cardinality(saved) <= successes + faults.lost + Cardinality(Clients) * faults.crashes

\* finishPart leaves no empty file under the user's chosen name: only a restart between
\* createUnique and Rename can.
NoEmptyFileLeftBehind ==
  faults.crashes = 0 => placeholders = Cardinality({h \in Handlers : hs[h].pc = "rename"})

\* Every page's loop ends: saved, given up after CHUNK_RETRIES, or handed to uploadOne.
UploadsEnd ==
  []<>(\A c \in Clients : clients[c].pc \in {"done", "failed", "plain"})
============================================================================
