------------------------------- MODULE Vault -------------------------------
(***************************************************************************)
(* Encrypted folders (web/static/js/vault.js) over the server's overwrite  *)
(* of one file at a time (internal/handler/vault.go).                      *)
(*                                                                         *)
(* A page keeps one unlocked vault in "open" and works on its copy of the  *)
(* index; each call that changes something is an async function, cut here  *)
(* where it awaits the worker or the server.  Several calls of a page may  *)
(* be under way at once, and several pages may have the vault open.        *)
(*                                                                         *)
(* Of an index the model keeps whose key it is sealed under and which      *)
(* blobs it files; names, folders and sizes are left out.                  *)
(***************************************************************************)
EXTENDS Integers, FiniteSets

CONSTANTS
  Pages,      \* browser tabs
  Vaults,     \* encrypted folders
  Files,      \* blob ids (randomId: never twice the same)
  Calls,      \* async calls that can be under way at once
  None,       \* no page, vault, file
  MaxOps,     \* bound: calls and unlocks
  MaxFaults   \* bound: failed requests and reloads of a page

ASSUME BoundsAssumption ==
  MaxOps \in Nat /\ MaxFaults \in Nat /\ None \notin Pages \cup Vaults \cup Files

VARIABLES
  index,      \* vault -> index.age: the key it is sealed under and the blobs it files
  blobs,      \* vault -> the blobs in its folder
  open,       \* page -> the unlocked vault: session, vault and its copy of the index
  calls,      \* call -> where the async function is
  ops,        \* calls and unlocks so far
  faults,     \* failures so far
  filed,      \* observer: <<vault, file>> of each add that resolved
  removing,   \* observer: <<vault, file>> of each remove that has begun
  removed,    \* observer: <<vault, file>> of each remove whose index was stored
  raced,      \* observer: two index writes of one vault overlapped, or a write and an unlock,
              \* or two pages had it open at once
  crossed,    \* observer: an index sealed for one vault was sent to another
  unread      \* observer: an index could not be read and its vault was taken for empty

vars == <<index, blobs, open, calls, ops, faults, filed, removing, removed, raced, crossed, unread>>

----------------------------------------------------------------------------

Shut == [session |-> 0, vault |-> None, files |-> {}]

\* session: that of "open" when the call began.  key and snap: the vault whose index it seals,
\* and what that files.  target: the folder its request goes to.  page: None once nobody awaits.
Done == [op |-> "none", pc |-> "idle", page |-> None, session |-> 0, file |-> None,
         key |-> None, snap |-> {}, target |-> None]

Init ==
  /\ index = [v \in Vaults |-> [key |-> v, files |-> {}]]
  /\ blobs = [v \in Vaults |-> {}]
  /\ open = [p \in Pages |-> Shut]
  /\ calls = [c \in Calls |-> Done]
  /\ ops = 0
  /\ faults = 0
  /\ filed = {}
  /\ removing = {}
  /\ removed = {}
  /\ raced = FALSE
  /\ crossed = FALSE
  /\ unread = FALSE

IsOpen(p) == open[p] # Shut
Count == ops < MaxOps /\ ops' = ops + 1
Fault == faults < MaxFaults /\ faults' = faults + 1
Return(c) == calls' = [calls EXCEPT ![c] = Done]

\* The index writes of v under way: being sealed for it, or on their way to its folder.
Writing(v) ==
  {c \in Calls : \/ calls[c].pc = "seal" /\ calls[c].key = v
                 \/ calls[c].pc = "index" /\ calls[c].target = v}

\* randomId: no folder, index, page or call has seen it.
Fresh(f) ==
  /\ \A v \in Vaults : f \notin blobs[v] \cup index[v].files /\ <<v, f>> \notin removing
  /\ \A p \in Pages : f \notin open[p].files
  /\ \A c \in Calls : f # calls[c].file /\ f \notin calls[c].snap

----------------------------------------------------------------------------
(* unlock and lock *)

\* unlock: the index is read and "open" replaced.  The panel is shown only while this vault is
\* not the open one.  Whatever goes wrong with the index, the vault counts as empty.
Unlock(p, v) ==
  /\ Count
  /\ open[p].vault # v
  /\ \E files \in {index[v].files, {}} :
       /\ open' = [open EXCEPT ![p] = [session |-> ops', vault |-> v, files |-> files]]
       /\ \/ /\ index[v].key = v /\ files = index[v].files
             /\ UNCHANGED <<unread, faults>>
          \/ /\ files = {} /\ unread' = TRUE
             /\ IF index[v].key = v THEN Fault ELSE UNCHANGED faults
  /\ raced' = (raced \/ Writing(v) # {} \/ \E q \in Pages : open[q].vault = v)
  /\ UNCHANGED <<index, blobs, calls, filed, removing, removed, crossed>>

\* lock, from the button or the idle timer.
Lock(p) ==
  /\ IsOpen(p)
  /\ open' = [open EXCEPT ![p] = Shut]
  /\ UNCHANGED <<index, blobs, calls, ops, faults, filed, removing, removed, raced, crossed, unread>>

\* The page is reloaded or closed; requests it has sent may still land.
Reload(p) ==
  /\ Fault
  /\ IsOpen(p) \/ \E c \in Calls : calls[c].page = p
  /\ open' = [open EXCEPT ![p] = Shut]
  /\ calls' = [c \in Calls |->
                 IF calls[c].page # p THEN calls[c]
                 ELSE IF calls[c].pc \in {"blob", "index", "unlink"}
                   THEN [calls[c] EXCEPT !.page = None]
                   ELSE Done]
  /\ UNCHANGED <<index, blobs, ops, filed, removing, removed, raced, crossed, unread>>

----------------------------------------------------------------------------
(* writeIndex: seals the index of the vault open now, then sends it to the vault open then *)

\* Its first half, once the page's index is files.
WriteIndex(c, p, call, files) ==
  LET v == open[p].vault IN
  /\ open' = [open EXCEPT ![p].files = files]
  /\ calls' = [calls EXCEPT ![c] = [call EXCEPT !.pc = "seal", !.key = v, !.snap = files]]
  /\ raced' = (raced \/ Writing(v) \ {c} # {})

\* The sealed bytes are back.  Locked by now, open.path throws.
Sealed(c) ==
  LET call == calls[c] IN
  /\ call.pc = "seal"
  /\ \/ ~IsOpen(call.page) /\ Return(c) /\ UNCHANGED <<raced, crossed>>
     \/ IsOpen(call.page)
        /\ LET v == open[call.page].vault IN
           /\ calls' = [calls EXCEPT ![c] = [@ EXCEPT !.pc = "index", !.target = v]]
           /\ crossed' = (crossed \/ v # call.key)
           /\ raced' = (raced \/ Writing(v) \ {c} # {})
  /\ UNCHANGED <<index, blobs, open, ops, faults, filed, removing, removed, unread>>

\* saveOverwrite replaces index.age in one step.  The call then resolves; remove goes on to
\* delete the blob from the folder open now.
IndexPut(c) ==
  LET call == calls[c]
      noted == {<<call.key, call.file>>} IN
  /\ call.pc = "index"
  /\ index' = [index EXCEPT ![call.target] = [key |-> call.key, files |-> call.snap]]
  /\ IF call.op = "remove" /\ call.page # None /\ IsOpen(call.page)
       THEN calls' = [calls EXCEPT ![c] = [@ EXCEPT !.pc = "unlink",
                                                    !.target = open[call.page].vault]]
       ELSE Return(c)
  /\ filed' = IF call.op = "add" /\ call.page # None THEN filed \cup noted ELSE filed
  /\ removed' = IF call.op = "remove" THEN removed \cup noted ELSE removed
  /\ UNCHANGED <<blobs, open, ops, faults, removing, raced, crossed, unread>>

\* Seeded fault (see the README): the status of the answer is not looked at.
IndexPutFailsUnnoticed(c) ==
  /\ calls[c].pc = "index"
  /\ IF calls[c].page = None THEN UNCHANGED faults ELSE Fault
  /\ Return(c)
  /\ filed' = IF calls[c].op = "add" THEN filed \cup {<<calls[c].key, calls[c].file>>} ELSE filed
  /\ UNCHANGED <<index, blobs, open, ops, removing, removed, raced, crossed, unread>>

\* The write is refused or never arrives: the call rejects, the page's index stays changed.
IndexPutFails(c) ==
  /\ calls[c].pc = "index"
  /\ IF calls[c].page = None THEN UNCHANGED faults ELSE Fault
  /\ Return(c)
  /\ UNCHANGED <<index, blobs, open, ops, filed, removing, removed, raced, crossed, unread>>

\* The connection is lost with the request on the server: the call rejects, it may still land.
ReplyLost(c) ==
  /\ calls[c].pc \in {"blob", "index"} /\ calls[c].page # None
  /\ Fault
  /\ calls' = [calls EXCEPT ![c].page = None]
  /\ UNCHANGED <<index, blobs, open, ops, filed, removing, removed, raced, crossed, unread>>

----------------------------------------------------------------------------
(* The calls *)

Begin(p, op, f) ==
  [Done EXCEPT !.op = op, !.page = p, !.session = open[p].session, !.file = f]

\* addBytes, addFile: the blob is sealed for, and sent to, the session it began in.
AddBegin(c, p, f) ==
  /\ calls[c] = Done /\ IsOpen(p) /\ Count /\ Fresh(f)
  /\ calls' = [calls EXCEPT ![c] = [Begin(p, "add", f) EXCEPT !.pc = "blob",
                                                                 !.target = open[p].vault]]
  /\ UNCHANGED <<index, blobs, open, faults, filed, removing, removed, raced, crossed, unread>>

\* writeFile: the blob of a listed file is sealed again ...
SaveBegin(c, p, f) ==
  /\ calls[c] = Done /\ f \in open[p].files /\ Count
  /\ calls' = [calls EXCEPT ![c] = [Begin(p, "save", f) EXCEPT !.pc = "encrypt"]]
  /\ UNCHANGED <<index, blobs, open, faults, filed, removing, removed, raced, crossed, unread>>

\* ... and sent to the folder open after that, if any.
SaveSealed(c) ==
  LET call == calls[c] IN
  /\ call.pc = "encrypt"
  /\ \/ ~IsOpen(call.page) /\ Return(c)
     \/ IsOpen(call.page)
        /\ calls' = [calls EXCEPT ![c] = [@ EXCEPT !.pc = "blob", !.target = open[call.page].vault]]
  /\ UNCHANGED <<index, blobs, open, ops, faults, filed, removing, removed, raced, crossed, unread>>

\* The server has stored the blob.
BlobPut(c) ==
  LET call == calls[c] IN
  /\ call.pc = "blob"
  /\ blobs' = [blobs EXCEPT ![call.target] = @ \cup {call.file}]
  /\ IF call.page = None THEN Return(c) ELSE calls' = [calls EXCEPT ![c].pc = "file"]
  /\ UNCHANGED <<index, open, ops, faults, filed, removing, removed, raced, crossed, unread>>

BlobFails(c) ==
  /\ calls[c].pc = "blob"
  /\ IF calls[c].page = None THEN UNCHANGED faults ELSE Fault
  /\ Return(c)
  /\ UNCHANGED <<index, blobs, open, ops, filed, removing, removed, raced, crossed, unread>>

\* Seeded fault: filed in whatever session is open by then.
AddFileAnySession(c) ==
  LET call == calls[c]  p == call.page IN
  /\ call.pc = "file" /\ call.op = "add"
  /\ \/ ~IsOpen(p) /\ Return(c) /\ UNCHANGED <<open, raced>>
     \/ IsOpen(p) /\ WriteIndex(c, p, call, open[p].files \cup {call.file})
  /\ UNCHANGED <<index, blobs, ops, faults, filed, removing, removed, crossed, unread>>

\* addBytes after its blob: filed only in the very session it began in.
AddFile(c) ==
  LET call == calls[c]  p == call.page IN
  /\ call.pc = "file" /\ call.op = "add"
  /\ \/ open[p].session # call.session /\ Return(c) /\ UNCHANGED <<open, raced>>
     \/ open[p].session = call.session /\ WriteIndex(c, p, call, open[p].files \cup {call.file})
  /\ UNCHANGED <<index, blobs, ops, faults, filed, removing, removed, crossed, unread>>

\* writeFile after its blob: there is no such check.
SaveIndex(c) ==
  LET call == calls[c]  p == call.page IN
  /\ call.pc = "file" /\ call.op = "save"
  /\ \/ ~IsOpen(p) /\ Return(c) /\ UNCHANGED <<open, raced>>
     \/ IsOpen(p) /\ WriteIndex(c, p, call, open[p].files)
  /\ UNCHANGED <<index, blobs, ops, faults, filed, removing, removed, crossed, unread>>

\* mkdir, rename, move: the same files under other names.
Arrange(c, p) ==
  /\ calls[c] = Done /\ IsOpen(p) /\ Count
  /\ WriteIndex(c, p, Begin(p, "arrange", None), open[p].files)
  /\ UNCHANGED <<index, blobs, faults, filed, removing, removed, crossed, unread>>

\* Seeded fault: the entry is left in the page's own index.
RemoveStoredOnly(c, p, f) ==
  /\ calls[c] = Done /\ f \in open[p].files /\ Count
  /\ calls' = [calls EXCEPT ![c] = [Begin(p, "remove", f) EXCEPT
                                      !.pc = "seal", !.key = open[p].vault,
                                      !.snap = open[p].files \ {f}]]
  /\ raced' = (raced \/ Writing(open[p].vault) # {})
  /\ removing' = removing \cup {<<open[p].vault, f>>}
  /\ UNCHANGED <<index, blobs, open, faults, filed, removed, crossed, unread>>

\* remove: dropped from the page's index, then from the stored one, then the blob.
Remove(c, p, f) ==
  /\ calls[c] = Done /\ f \in open[p].files /\ Count
  /\ WriteIndex(c, p, Begin(p, "remove", f), open[p].files \ {f})
  /\ removing' = removing \cup {<<open[p].vault, f>>}
  /\ UNCHANGED <<index, blobs, faults, filed, removed, crossed, unread>>

\* deleteFile: a failure is swallowed.
Unlink(c) ==
  LET call == calls[c] IN
  /\ call.pc = "unlink"
  /\ blobs' = [blobs EXCEPT ![call.target] = @ \ {call.file}]
  /\ Return(c)
  /\ UNCHANGED <<index, open, ops, faults, filed, removing, removed, raced, crossed, unread>>

UnlinkFails(c) ==
  /\ calls[c].pc = "unlink"
  /\ IF calls[c].page = None THEN UNCHANGED faults ELSE Fault
  /\ Return(c)
  /\ UNCHANGED <<index, blobs, open, ops, filed, removing, removed, raced, crossed, unread>>

Step(c) ==
  \/ Sealed(c) \/ IndexPut(c) \/ IndexPutFails(c) \/ ReplyLost(c)
  \/ SaveSealed(c) \/ BlobPut(c) \/ BlobFails(c)
  \/ AddFile(c) \/ SaveIndex(c) \/ Unlink(c) \/ UnlinkFails(c)

Next ==
  \/ \E p \in Pages, v \in Vaults : Unlock(p, v)
  \/ \E p \in Pages : Lock(p) \/ Reload(p)
  \/ \E c \in Calls, p \in Pages, f \in Files :
       AddBegin(c, p, f) \/ SaveBegin(c, p, f) \/ Remove(c, p, f)
  \/ \E c \in Calls, p \in Pages : Arrange(c, p)
  \/ \E c \in Calls : Step(c)

Spec == Init /\ [][Next]_vars

----------------------------------------------------------------------------
(* Properties *)

\* What the stored index lists can be read: its blobs are in the folder (addBytes writes the
\* blob first, remove deletes it last).  Overlapping index writes can undo this, since the
\* older may land last.
IndexNamesBlobs ==
  raced \/ crossed \/ \A v \in Vaults : index[v].key = v /\ index[v].files \subseteq blobs[v]

\* A file whose add resolved stays in the stored index until somebody removes it, through
\* locks, reloads, failed writes and other vaults being opened meanwhile.
FiledStaysFiled ==
  raced \/ crossed \/ unread \/ \A e \in filed \ removing : e[2] \in index[e[1]].files

\* A file whose removal was stored never comes back to the stored index.
RemovedStaysGone ==
  raced \/ crossed \/ \A e \in removed : e[2] \notin index[e[1]].files

\* readIndex says of an index it cannot read that "a corrupt one must not erase itself"
\* (vault.js:249): files stay filed, whether or not an index could be read.
UnreadIndexKept ==
  raced \/ crossed \/ \A e \in filed \ removing : e[2] \in index[e[1]].files

============================================================================
