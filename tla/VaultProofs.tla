----------------------------- MODULE VaultProofs -----------------------------
(***************************************************************************)
(* For any pages, vaults, files and numbers of calls at once: as long as   *)
(* no two index writes overlapped and none went to another vault, the      *)
(* stored index names only blobs that are there, what was added stays      *)
(* filed until it is removed, and what was removed does not come back.     *)
(***************************************************************************)
EXTENDS Vault, TLAPS

----------------------------------------------------------------------------
(* The inductive invariant *)

Call ==
  [op : {"none", "add", "save", "arrange", "remove"},
   pc : {"idle", "encrypt", "blob", "file", "seal", "index", "unlink"},
   page : Pages \cup {None}, session : Nat, file : Files \cup {None},
   key : Vaults \cup {None}, snap : SUBSET Files, target : Vaults \cup {None}]

Types ==
  /\ index \in [Vaults -> [key : Vaults, files : SUBSET Files]]
  /\ blobs \in [Vaults -> SUBSET Files]
  /\ open \in [Pages -> [session : Nat, vault : Vaults \cup {None}, files : SUBSET Files]]
  /\ calls \in [Calls -> Call]
  /\ ops \in Nat
  /\ filed \subseteq Vaults \X Files
  /\ removing \subseteq Vaults \X Files
  /\ removed \subseteq removing
  /\ raced \in BOOLEAN /\ crossed \in BOOLEAN /\ unread \in BOOLEAN

\* A call that files a new blob, until it does.
Adding(c) == calls[c].op = "add" /\ calls[c].pc \in {"blob", "file"}

\* A session is entered once: the vault open in the one an add began in is the one its blob
\* was sent to.
Sessions ==
  /\ \A p \in Pages : \/ open[p] = Shut
                      \/ open[p].session \in 1..ops /\ open[p].vault \in Vaults
  /\ \A c \in Calls : Adding(c) =>
       /\ calls[c].session \in 1..ops
       /\ \A p \in Pages : calls[c].page = p /\ open[p].session = calls[c].session
                             => open[p].vault = calls[c].target

\* What a call holds at each await.
Sound(call) ==
  /\ call.pc \in {"encrypt", "file", "seal"} => call.page \in Pages
  /\ call.pc = "file" => call.op \in {"add", "save"}
  /\ call.pc = "encrypt" => call.op = "save"
  /\ call.pc = "blob" => call.op \in {"add", "save"}
  /\ call.pc \in {"blob", "file", "index", "unlink"} => call.target \in Vaults
  /\ call.op \in {"add", "save", "remove"} => call.file \in Files
  /\ call.pc \in {"seal", "index"} =>
       /\ call.key \in Vaults
       /\ call.op = "add" => call.file \in call.snap
       /\ call.op = "remove" => call.file \notin call.snap /\ <<call.key, call.file>> \in removing
  /\ call.pc = "unlink" => \E v \in Vaults : <<v, call.file>> \in removed

Underway == \A c \in Calls : Sound(calls[c])

\* f is in a copy of the index of v: the stored one, an open one, or one being written.
Lists(v, f) ==
  \/ f \in index[v].files
  \/ \E p \in Pages : open[p].vault = v /\ f \in open[p].files
  \/ \E c \in Writing(v) : f \in calls[c].snap

Calm == ~raced /\ ~crossed

\* One page has a vault open, and one write of its index is under way, which is of what that
\* page holds; it is sealed for the vault it goes to, and so is the stored index.
Alone ==
  /\ \A v \in Vaults : index[v].key = v
  /\ \A p, q \in Pages : open[p].vault = open[q].vault /\ open[p].vault # None => p = q
  /\ \A c \in Calls : calls[c].pc = "index" => calls[c].target = calls[c].key
  /\ \A v \in Vaults : \A c, d \in Writing(v) : c = d
  /\ \A p \in Pages, v \in Vaults : \A c \in Writing(v) :
       open[p].vault = v => calls[c].snap = open[p].files

\* The blobs of what is listed are there.
Whole == \A v \in Vaults, f \in Files : Lists(v, f) => f \in blobs[v]

\* A file is listed by one vault, the one it may have been removed from.
Apart ==
  \A v, w \in Vaults, f \in Files :
    Lists(w, f) /\ (Lists(v, f) \/ <<v, f>> \in removing) => w = v

\* A removed file is listed nowhere any more.
Gone == \A v \in Vaults, f \in Files : <<v, f>> \in removed => ~Lists(v, f)

\* Nobody else knows the file of an add before it is filed.
New ==
  \A c \in Calls : Adding(c) =>
    /\ \A v \in Vaults : ~Lists(v, calls[c].file) /\ <<v, calls[c].file>> \notin removing
    /\ \A d \in Calls \ {c} : calls[d].file # calls[c].file
    /\ calls[c].pc = "file" => calls[c].file \in blobs[calls[c].target]

\* What was added and not removed is in every copy of the index.
Everywhere ==
  \A v \in Vaults, f \in Files : <<v, f>> \in filed \ removing =>
    /\ f \in index[v].files
    /\ \A p \in Pages : open[p].vault = v => f \in open[p].files
    /\ \A c \in Writing(v) : f \in calls[c].snap

Basics == Types /\ Sessions /\ Underway
CalmInv == Alone /\ Whole /\ Apart /\ Gone /\ New /\ (~unread => Everywhere)
IInv == Basics /\ (Calm => CalmInv)

----------------------------------------------------------------------------
(* Types, sessions and the state of calls *)

LEMMA DoneSound == Sound(Done) /\ Done \in Call /\ Done.pc = "idle" /\ Done.op = "none"
BY DEF Sound, Done, Call

\* What WriteIndex leaves behind.
LEMMA WriteIndexBasics ==
  ASSUME Basics, NEW c \in Calls, NEW p \in Pages, NEW call \in Call, NEW files \in SUBSET Files,
         WriteIndex(c, p, call, files), open[p].vault \in Vaults, open[p].session \in 1..ops,
         call.page = p
  PROVE  /\ open' \in [Pages -> [session : Nat, vault : Vaults \cup {None}, files : SUBSET Files]]
         /\ calls' \in [Calls -> Call]
         /\ raced' \in BOOLEAN
         /\ \A q \in Pages \ {p} : open'[q] = open[q]
         /\ open'[p].vault = open[p].vault /\ open'[p].files = files
         /\ open'[p].session = open[p].session
         /\ \A d \in Calls \ {c} : calls'[d] = calls[d]
         /\ calls'[c].pc = "seal" /\ calls'[c].op = call.op /\ calls'[c].page = p
         /\ calls'[c].file = call.file /\ calls'[c].key = open[p].vault /\ calls'[c].snap = files
<1> DEFINE new == [call EXCEPT !.pc = "seal", !.key = open[p].vault, !.snap = files]
<1>1. /\ open' = [open EXCEPT ![p].files = files]
      /\ calls' = [calls EXCEPT ![c] = new]
      /\ raced' = (raced \/ Writing(open[p].vault) \ {c} # {})
  BY DEF WriteIndex
<1>2. /\ new \in Call /\ new.pc = "seal" /\ new.op = call.op /\ new.page = p
      /\ new.file = call.file /\ new.key = open[p].vault /\ new.snap = files
  BY DEF Call
<1>3. raced' \in BOOLEAN
  BY <1>1, Zenon
<1> HIDE DEF new
<1>4. calls \in [Calls -> Call]
  BY DEF Basics, Types
<1>5. calls' \in [Calls -> Call] /\ calls'[c] = new /\ \A d \in Calls \ {c} : calls'[d] = calls[d]
  BY <1>1, <1>2, <1>4
<1> QED
  BY <1>1, <1>2, <1>3, <1>5 DEF Basics, Types

LEMMA BasicsInit == Init => Basics
<1> SUFFICES ASSUME Init PROVE Basics
  OBVIOUS
<1>1. Types
  BY DoneSound DEF Init, Types, Shut
<1>2. Sessions /\ Underway
  BY DoneSound DEF Init, Sessions, Underway, Adding
<1> QED
  BY <1>1, <1>2 DEF Basics

LEMMA PageBasics ==
  ASSUME Basics, NEW p \in Pages,
         Lock(p) \/ Reload(p) \/ \E v \in Vaults : Unlock(p, v)
  PROVE  Basics'
<1>1. CASE Lock(p)
  <2>1. /\ open' = [open EXCEPT ![p] = Shut]
        /\ UNCHANGED <<index, blobs, calls, ops, filed, removing, removed, raced, crossed, unread>>
    BY <1>1 DEF Lock
  <2>2. Types'
    BY <2>1 DEF Basics, Types, Shut
  <2>3. Sessions'
    <3>1. \A q \in Pages : open'[q] = open[q] \/ (open'[q] = Shut /\ open'[q].session = 0)
      BY <2>1 DEF Basics, Types, Shut
    <3> QED
      BY <2>1, <3>1 DEF Basics, Sessions, Adding
  <2>4. Underway'
    BY <2>1 DEF Basics, Underway, Sound
  <2> QED
    BY <2>2, <2>3, <2>4 DEF Basics
<1>2. CASE Reload(p)
  <2> DEFINE Cut(c) == IF calls[c].page # p THEN calls[c]
                       ELSE IF calls[c].pc \in {"blob", "index", "unlink"}
                         THEN [calls[c] EXCEPT !.page = None]
                         ELSE Done
  <2>1. /\ open' = [open EXCEPT ![p] = Shut] /\ calls' = [c \in Calls |-> Cut(c)]
        /\ UNCHANGED <<index, blobs, ops, filed, removing, removed, raced, crossed, unread>>
    BY <1>2 DEF Reload
  <2>2. ASSUME NEW c \in Calls
        PROVE  /\ Cut(c) \in Call
               /\ \/ Cut(c) = Done
                  \/ /\ Cut(c).op = calls[c].op /\ Cut(c).pc = calls[c].pc
                     /\ Cut(c).session = calls[c].session /\ Cut(c).file = calls[c].file
                     /\ Cut(c).key = calls[c].key /\ Cut(c).snap = calls[c].snap
                     /\ Cut(c).target = calls[c].target
                     /\ \/ Cut(c).page = calls[c].page
                        \/ Cut(c).page = None /\ calls[c].pc \in {"blob", "index", "unlink"}
    <3>1. calls[c] \in Call
      BY DEF Basics, Types
    <3> QED
      BY <3>1, DoneSound DEF Call
  <2> HIDE DEF Cut
  <2>3. Types'
    BY <2>1, <2>2 DEF Basics, Types, Shut
  <2>4. Sessions'
    <3>1. \A q \in Pages : open'[q] = open[q] \/ (open'[q] = Shut /\ open'[q].session = 0)
      BY <2>1 DEF Basics, Types, Shut
    <3>2. \A c \in Calls : Adding(c)' => /\ Adding(c) /\ calls'[c].session = calls[c].session
                                         /\ calls'[c].target = calls[c].target
                                         /\ calls'[c].page \in {calls[c].page, None}
      BY <2>1, <2>2, DoneSound DEF Adding
    <3> QED
      BY <2>1, <3>1, <3>2, BoundsAssumption DEF Basics, Sessions
  <2>5. Underway'
    <3> SUFFICES ASSUME NEW c \in Calls PROVE Sound(calls[c])'
      BY DEF Underway
    <3>1. Sound(calls[c]) /\ UNCHANGED <<removing, removed>> /\ calls'[c] = Cut(c)
      BY <2>1 DEF Basics, Underway
    <3>2. CASE Cut(c) = Done
      BY <3>1, <3>2, DoneSound DEF Sound, Done
    <3>3. CASE Cut(c) # Done
      BY <2>2, <3>1, <3>3 DEF Sound
    <3> QED
      BY <3>2, <3>3
  <2> QED
    BY <2>3, <2>4, <2>5 DEF Basics
<1>3. ASSUME NEW v \in Vaults, Unlock(p, v) PROVE Basics'
  <2>1. PICK files \in {index[v].files, {}} :
          /\ open' = [open EXCEPT ![p] = [session |-> ops', vault |-> v, files |-> files]]
          /\ \/ UNCHANGED unread
             \/ unread' = TRUE
    BY <1>3 DEF Unlock
  <2>2. /\ ops' = ops + 1
        /\ UNCHANGED <<index, blobs, calls, filed, removing, removed, crossed>>
    BY <1>3 DEF Unlock, Count
  <2>3. raced' \in BOOLEAN
    BY <1>3, Zenon DEF Unlock
  <2>4. files \in SUBSET Files /\ ops' \in Nat
    BY <2>2 DEF Basics, Types
  <2>5. Types'
    BY <2>1, <2>2, <2>3, <2>4 DEF Basics, Types
  <2>6. Sessions'
    <3>1. /\ \A q \in Pages \ {p} : open'[q] = open[q]
          /\ open'[p].session = ops + 1 /\ open'[p].vault = v
      BY <2>1, <2>2 DEF Basics, Types
    <3> QED
      BY <2>2, <3>1 DEF Basics, Types, Sessions, Adding
  <2>7. Underway'
    BY <2>2 DEF Basics, Underway, Sound
  <2> QED
    BY <2>5, <2>6, <2>7 DEF Basics
<1> QED
  BY <1>1, <1>2, <1>3

\* One call moves on: the others and the open vaults stay as they are.
LEMMA CallBasics ==
  ASSUME Basics, NEW c \in Calls,
         calls' \in [Calls -> Call], \A d \in Calls \ {c} : calls'[d] = calls[d],
         \A p \in Pages : /\ open'[p] = open[p] \/ open[p] # Shut
                          /\ open'[p].session = open[p].session
                          /\ open'[p].vault = open[p].vault,
         ops' \in Nat, ops' >= ops, removing \subseteq removing', removed \subseteq removed',
         Sound(calls[c])',
         Adding(c)' => \/ /\ Adding(c) /\ calls'[c].session = calls[c].session
                          /\ calls'[c].target = calls[c].target
                          /\ calls'[c].page \in {calls[c].page, None}
                       \/ /\ calls'[c].page \in Pages
                          /\ open[calls'[c].page].session \in 1..ops
                          /\ calls'[c].session = open[calls'[c].page].session
                          /\ calls'[c].target = open[calls'[c].page].vault
  PROVE  Sessions' /\ Underway'
<1>1. \A p \in Pages : \/ open'[p] = Shut
                       \/ open'[p].session \in 1..ops' /\ open'[p].vault \in Vaults
  <2>1. ops \in Nat /\ (\A p \in Pages : open[p] # Shut =>
                            open[p].session \in 1..ops /\ open[p].vault \in Vaults)
    BY DEF Basics, Types, Sessions
  <2> QED
    BY <2>1
<1>2. ASSUME NEW d \in Calls, Adding(d)'
      PROVE  /\ calls'[d].session \in 1..ops'
             /\ \A p \in Pages : calls'[d].page = p /\ open'[p].session = calls'[d].session
                                   => open'[p].vault = calls'[d].target
  <2>1. CASE d # c
    <3>1. Adding(d) /\ calls'[d] = calls[d]
      BY <1>2, <2>1 DEF Adding
    <3> QED
      BY <3>1 DEF Basics, Types, Sessions
  <2>2. CASE d = c
    BY <1>2, <2>2, BoundsAssumption DEF Basics, Types, Sessions
  <2> QED
    BY <2>1, <2>2
<1>3. ASSUME NEW d \in Calls PROVE Sound(calls[d])'
  <2>1. CASE d # c
    <3>1. Sound(calls[d]) /\ calls'[d] = calls[d]
      BY <2>1 DEF Basics, Underway
    <3> QED
      BY <3>1 DEF Sound
  <2> QED
    BY <2>1
<1> QED
  BY <1>1, <1>2, <1>3 DEF Sessions, Underway

LEMMA StepBasics == ASSUME Basics, NEW c \in Calls, Step(c) PROVE Basics'
<1> DEFINE call == calls[c]
<1>0. /\ call \in Call /\ Sound(call) /\ calls \in [Calls -> Call] /\ ops \in Nat
      /\ \A p \in Pages : open[p] # Shut =>
           open[p].session \in 1..ops /\ open[p].vault \in Vaults
  BY DEF Basics, Types, Sessions, Underway
<1> SUFFICES Types' /\ Sessions' /\ Underway'
  BY DEF Basics
\* The request fails, or the call gives up: it returns.
<1>1. CASE /\ Return(c)
           /\ UNCHANGED <<index, open, ops, filed, removing, removed, unread>>
           /\ blobs' \in [Vaults -> SUBSET Files] /\ raced' \in BOOLEAN /\ crossed' \in BOOLEAN
  <2>1. /\ calls' \in [Calls -> Call] /\ calls'[c] = Done
        /\ \A d \in Calls \ {c} : calls'[d] = calls[d]
    BY <1>0, <1>1, DoneSound DEF Return
  <2>2. Types'
    BY <1>1, <2>1 DEF Basics, Types
  <2>3. Sound(calls[c])' /\ ~Adding(c)'
    BY <2>1, DoneSound DEF Sound, Done, Adding
  <2>4. Sessions' /\ Underway'
    BY <1>0, <1>1, <2>1, <2>3, CallBasics
  <2> QED
    BY <2>2, <2>4
<1>2. CASE IndexPutFails(c) \/ BlobFails(c) \/ UnlinkFails(c)
  BY <1>1, <1>2 DEF IndexPutFails, BlobFails, UnlinkFails, Basics, Types
<1>3. CASE Unlink(c)
  <2>1. call.target \in Vaults /\ blobs' = [blobs EXCEPT ![call.target] = @ \ {call.file}]
    BY <1>0, <1>3 DEF Unlink, Sound
  <2>2. blobs' \in [Vaults -> SUBSET Files]
    BY <2>1 DEF Basics, Types
  <2> QED
    BY <1>1, <1>3, <2>2 DEF Unlink, Basics, Types
<1>4. CASE Sealed(c)
  <2>1. CASE Return(c) /\ UNCHANGED <<raced, crossed>>
    BY <1>1, <1>4, <2>1 DEF Sealed, Basics, Types
  <2>2. CASE ~(Return(c) /\ UNCHANGED <<raced, crossed>>)
    <3> DEFINE v == open[call.page].vault
               new == [call EXCEPT !.pc = "index", !.target = v]
    <3>1. /\ call.pc = "seal" /\ IsOpen(call.page) /\ call.page \in Pages /\ v \in Vaults
          /\ calls' = [calls EXCEPT ![c] = new]
          /\ crossed' = (crossed \/ v # call.key)
          /\ raced' = (raced \/ Writing(v) \ {c} # {})
          /\ UNCHANGED <<index, blobs, open, ops, filed, removing, removed, unread>>
      BY <1>0, <1>4, <2>2 DEF Sealed, Sound, IsOpen
    <3>2. /\ new \in Call /\ new.pc = "index" /\ new.target = v /\ new.op = call.op
          /\ new.file = call.file /\ new.key = call.key /\ new.snap = call.snap
      BY <1>0, <3>1 DEF Call
    <3> HIDE DEF new
    <3>3. /\ calls' \in [Calls -> Call] /\ calls'[c] = new
          /\ \A d \in Calls \ {c} : calls'[d] = calls[d]
      BY <1>0, <3>1, <3>2
    <3>4. raced' \in BOOLEAN /\ crossed' \in BOOLEAN
      BY <3>1, Zenon
    <3>5. Types'
      BY <3>1, <3>3, <3>4 DEF Basics, Types
    <3>6. Sound(calls[c])' /\ ~Adding(c)'
      BY <1>0, <3>1, <3>2, <3>3 DEF Sound, Adding
    <3>7. Sessions' /\ Underway'
      BY <1>0, <3>1, <3>3, <3>6, CallBasics
    <3> QED
      BY <3>5, <3>7
  <2> QED
    BY <2>1, <2>2
<1>5. CASE IndexPut(c)
  <2> DEFINE noted == {<<call.key, call.file>>}
             new == [calls[c] EXCEPT !.pc = "unlink", !.target = open[call.page].vault]
  <2>1. /\ call.pc = "index" /\ call.target \in Vaults /\ call.key \in Vaults
        /\ index' = [index EXCEPT ![call.target] = [key |-> call.key, files |-> call.snap]]
        /\ filed' = IF call.op = "add" /\ call.page # None THEN filed \cup noted ELSE filed
        /\ removed' = IF call.op = "remove" THEN removed \cup noted ELSE removed
        /\ UNCHANGED <<blobs, open, ops, removing, raced, crossed, unread>>
    BY <1>0, <1>5 DEF IndexPut, Sound
  <2>2. \/ calls' = [calls EXCEPT ![c] = Done]
        \/ /\ call.op = "remove" /\ call.page \in Pages /\ open[call.page] # Shut
           /\ calls' = [calls EXCEPT ![c] = new]
    BY <1>0, <1>5 DEF IndexPut, Return, IsOpen, Call
  <2>3. open[call.page] # Shut /\ call.page \in Pages =>
          new \in Call /\ new.pc = "unlink" /\ new.target \in Vaults /\ new.op = call.op
            /\ new.file = call.file
    BY <1>0 DEF Call
  <2> HIDE DEF new
  <2>4. /\ calls' \in [Calls -> Call] /\ \A d \in Calls \ {c} : calls'[d] = calls[d]
        /\ \/ calls'[c] = Done
           \/ /\ call.op = "remove" /\ calls'[c].op = "remove" /\ calls'[c].pc = "unlink"
              /\ calls'[c].target \in Vaults /\ calls'[c].file = call.file
    BY <1>0, <2>2, <2>3, DoneSound
  <2>5. call.op \in {"add", "remove"} => noted \subseteq Vaults \X Files
    BY <1>0, <2>1 DEF Sound
  <2>6. call.op = "remove" => noted \subseteq removing
    BY <1>0, <2>1 DEF Sound
  <2>7. index' \in [Vaults -> [key : Vaults, files : SUBSET Files]]
    BY <1>0, <2>1 DEF Basics, Types, Call
  <2>8. Types'
    BY <2>1, <2>4, <2>5, <2>6, <2>7 DEF Basics, Types
  <2>9. Sound(calls[c])' /\ ~Adding(c)'
    <3>1. CASE calls'[c] = Done
      BY <3>1, DoneSound DEF Sound, Done, Adding
    <3>2. CASE calls'[c] # Done
      <4>1. <<call.key, call.file>> \in removed' /\ call.file \in Files
        BY <1>0, <2>1, <2>4, <3>2 DEF Sound
      <4> QED
        BY <2>1, <2>4, <3>2, <4>1 DEF Sound, Adding
    <3> QED
      BY <3>1, <3>2
  <2>10. Sessions' /\ Underway'
    BY <1>0, <2>1, <2>4, <2>9, CallBasics
  <2> QED
    BY <2>8, <2>10
<1>6. CASE ReplyLost(c)
  <2> DEFINE new == [call EXCEPT !.page = None]
  <2>1. /\ call.pc \in {"blob", "index"} /\ calls' = [calls EXCEPT ![c] = new]
        /\ UNCHANGED <<index, blobs, open, ops, filed, removing, removed, raced, crossed, unread>>
    BY <1>6 DEF ReplyLost
  <2>2. /\ new \in Call /\ new.pc = call.pc /\ new.target = call.target /\ new.op = call.op
        /\ new.file = call.file /\ new.key = call.key /\ new.snap = call.snap
        /\ new.page = None /\ new.session = call.session
    BY <1>0 DEF Call
  <2> HIDE DEF new
  <2>3. /\ calls' \in [Calls -> Call] /\ calls'[c] = new
        /\ \A d \in Calls \ {c} : calls'[d] = calls[d]
    BY <1>0, <2>1, <2>2
  <2>4. Types'
    BY <2>1, <2>3 DEF Basics, Types
  <2>5. Sound(calls[c])' /\ (Adding(c)' => Adding(c))
    BY <1>0, <2>1, <2>2, <2>3 DEF Sound, Adding
  <2>6. Sessions' /\ Underway'
    BY <1>0, <2>1, <2>2, <2>3, <2>5, CallBasics
  <2> QED
    BY <2>4, <2>6
<1>7. CASE SaveSealed(c)
  <2>1. CASE Return(c)
    BY <1>1, <1>7, <2>1 DEF SaveSealed, Basics, Types
  <2>2. CASE ~Return(c)
    <3> DEFINE new == [call EXCEPT !.pc = "blob", !.target = open[call.page].vault]
    <3>1. /\ call.pc = "encrypt" /\ open[call.page] # Shut /\ call.page \in Pages
          /\ call.op = "save" /\ calls' = [calls EXCEPT ![c] = new]
          /\ UNCHANGED <<index, blobs, open, ops, filed, removing, removed, raced, crossed, unread>>
      BY <1>0, <1>7, <2>2 DEF SaveSealed, Sound, IsOpen
    <3>2. /\ new \in Call /\ new.pc = "blob" /\ new.target \in Vaults /\ new.op = "save"
          /\ new.file = call.file
      BY <1>0, <3>1 DEF Call
    <3> HIDE DEF new
    <3>3. /\ calls' \in [Calls -> Call] /\ calls'[c] = new
          /\ \A d \in Calls \ {c} : calls'[d] = calls[d]
      BY <1>0, <3>1, <3>2
    <3>4. Types'
      BY <3>1, <3>3 DEF Basics, Types
    <3>5. Sound(calls[c])' /\ ~Adding(c)'
      BY <1>0, <3>1, <3>2, <3>3 DEF Sound, Adding
    <3>6. Sessions' /\ Underway'
      BY <1>0, <3>1, <3>3, <3>5, CallBasics
    <3> QED
      BY <3>4, <3>6
  <2> QED
    BY <2>1, <2>2
<1>8. CASE BlobPut(c)
  <2>1. /\ call.pc = "blob" /\ blobs' = [blobs EXCEPT ![call.target] = @ \cup {call.file}]
        /\ UNCHANGED <<index, open, ops, filed, removing, removed, raced, crossed, unread>>
        /\ call.target \in Vaults
    BY <1>0, <1>8 DEF BlobPut, Sound
  <2>2. blobs' \in [Vaults -> SUBSET Files]
    BY <1>0, <2>1 DEF Sound, Basics, Types
  <2>3. CASE Return(c)
    BY <1>1, <2>1, <2>2, <2>3 DEF Basics, Types
  <2>4. CASE ~Return(c)
    <3> DEFINE new == [call EXCEPT !.pc = "file"]
    <3>1. call.page \in Pages /\ calls' = [calls EXCEPT ![c] = new]
      BY <1>0, <1>8, <2>4 DEF BlobPut, Call
    <3>2. /\ new \in Call /\ new.pc = "file" /\ new.target = call.target /\ new.op = call.op
          /\ new.file = call.file /\ new.page = call.page /\ new.session = call.session
      BY <1>0 DEF Call
    <3> HIDE DEF new
    <3>3. /\ calls' \in [Calls -> Call] /\ calls'[c] = new
          /\ \A d \in Calls \ {c} : calls'[d] = calls[d]
      BY <1>0, <3>1, <3>2
    <3>4. Types'
      BY <2>1, <2>2, <3>3 DEF Basics, Types
    <3>5. call.op \in {"add", "save"}
      BY <1>0, <2>1 DEF Sound
    <3>6. Sound(calls[c])' /\ (Adding(c)' => Adding(c))
      BY <1>0, <2>1, <3>1, <3>2, <3>3, <3>5 DEF Sound, Adding
    <3>7. Sessions' /\ Underway'
      BY <1>0, <2>1, <3>2, <3>3, <3>6, CallBasics
    <3> QED
      BY <3>4, <3>7
  <2> QED
    BY <2>3, <2>4
<1>9. CASE AddFile(c) \/ SaveIndex(c)
  <2> DEFINE p == call.page
  <2>1. CASE Return(c) /\ UNCHANGED <<open, raced>>
    BY <1>1, <1>9, <2>1 DEF AddFile, SaveIndex, Basics, Types
  <2>2. CASE ~(Return(c) /\ UNCHANGED <<open, raced>>)
    <3>1. /\ call.pc = "file" /\ p \in Pages /\ call.file \in Files
          /\ UNCHANGED <<index, blobs, ops, filed, removing, removed, crossed, unread>>
      BY <1>0, <1>9 DEF AddFile, SaveIndex, Sound
    <3>2. open[p] # Shut
      <4>1. CASE AddFile(c)
        <5>1. open[p].session = call.session /\ Adding(c)
          BY <2>2, <4>1 DEF AddFile, Adding
        <5> QED
          BY <5>1 DEF Shut, Basics, Sessions
      <4>2. CASE SaveIndex(c)
        BY <2>2, <4>2 DEF SaveIndex, IsOpen
      <4> QED
        BY <1>9, <4>1, <4>2
    <3>3. PICK files : /\ files \in SUBSET Files /\ WriteIndex(c, p, call, files)
                       /\ call.op = "add" => call.file \in files
                       /\ call.op \in {"add", "save"}
      <4>1. open[p].files \in SUBSET Files
        BY <3>1 DEF Basics, Types
      <4>2. CASE AddFile(c)
        BY <2>2, <3>1, <4>1, <4>2 DEF AddFile
      <4>3. CASE SaveIndex(c)
        BY <2>2, <4>1, <4>3 DEF SaveIndex
      <4> QED
        BY <1>9, <4>2, <4>3
    <3>4. open[p].vault \in Vaults /\ open[p].session \in 1..ops
      BY <1>0, <3>1, <3>2
    <3>5. /\ open' \in [Pages -> [session : Nat, vault : Vaults \cup {None}, files : SUBSET Files]]
          /\ calls' \in [Calls -> Call]
          /\ raced' \in BOOLEAN
          /\ \A q \in Pages \ {p} : open'[q] = open[q]
          /\ open'[p].vault = open[p].vault /\ open'[p].session = open[p].session
          /\ \A d \in Calls \ {c} : calls'[d] = calls[d]
          /\ calls'[c].pc = "seal" /\ calls'[c].op = call.op /\ calls'[c].page = p
          /\ calls'[c].file = call.file /\ calls'[c].key = open[p].vault
          /\ calls'[c].snap = files
      BY <1>0, <3>1, <3>3, <3>4, WriteIndexBasics
    <3>6. Types'
      BY <3>1, <3>5 DEF Basics, Types
    <3>7. Sound(calls[c])' /\ ~Adding(c)'
      BY <3>1, <3>3, <3>4, <3>5 DEF Sound, Adding
    <3>8. Sessions' /\ Underway'
      BY <1>0, <3>1, <3>2, <3>5, <3>7, CallBasics
    <3> QED
      BY <3>6, <3>8
  <2> QED
    BY <2>1, <2>2
<1> QED
  BY <1>2, <1>3, <1>4, <1>5, <1>6, <1>7, <1>8, <1>9 DEF Step

LEMMA BeginBasics ==
  ASSUME Basics, NEW c \in Calls, NEW p \in Pages,
         \/ Arrange(c, p)
         \/ \E f \in Files : AddBegin(c, p, f) \/ SaveBegin(c, p, f) \/ Remove(c, p, f)
  PROVE  Basics'
<1>0. /\ calls \in [Calls -> Call] /\ ops \in Nat /\ ops' = ops + 1
      /\ open[p] # Shut => open[p].session \in 1..ops /\ open[p].vault \in Vaults
      /\ open[p].files \in SUBSET Files /\ open[p].session \in Nat
  BY DEF Basics, Types, Sessions, Arrange, AddBegin, SaveBegin, Remove, Count
<1>1. ASSUME NEW op \in {"add", "save", "arrange", "remove"}, NEW f \in Files \cup {None}
      PROVE  /\ Begin(p, op, f) \in Call /\ Begin(p, op, f).op = op
             /\ Begin(p, op, f).page = p /\ Begin(p, op, f).session = open[p].session
             /\ Begin(p, op, f).file = f
  BY <1>0, DoneSound DEF Begin, Done, Call
<1> SUFFICES Types' /\ Sessions' /\ Underway'
  BY DEF Basics
<1>2. ASSUME NEW f \in Files, AddBegin(c, p, f) \/ SaveBegin(c, p, f)
      PROVE  Types' /\ Sessions' /\ Underway'
  <2>1. UNCHANGED <<index, blobs, open, filed, removing, removed, raced, crossed, unread>>
    BY <1>2 DEF AddBegin, SaveBegin
  <2>2. PICK new \in Call :
          /\ calls' = [calls EXCEPT ![c] = new] /\ new.page = p /\ new.file = f
          /\ \/ /\ new.op = "add" /\ new.pc = "blob" /\ open[p] # Shut
                /\ new.target = open[p].vault /\ new.session = open[p].session
             \/ new.op = "save" /\ new.pc = "encrypt"
    <3>1. CASE AddBegin(c, p, f)
      <4> DEFINE new == [Begin(p, "add", f) EXCEPT !.pc = "blob", !.target = open[p].vault]
      <4>1. open[p] # Shut /\ calls' = [calls EXCEPT ![c] = new]
        BY <3>1 DEF AddBegin, IsOpen
      <4>2. /\ new \in Call /\ new.page = p /\ new.file = f /\ new.op = "add" /\ new.pc = "blob"
            /\ new.target = open[p].vault /\ new.session = open[p].session
        <5> DEFINE b == Begin(p, "add", f)
        <5>1. b \in Call /\ b.op = "add" /\ b.page = p /\ b.session = open[p].session /\ b.file = f
          BY <1>1
        <5> HIDE DEF b
        <5>2. new = [b EXCEPT !.pc = "blob", !.target = open[p].vault]
          BY DEF b
        <5>3. open[p].vault \in Vaults
          BY <1>0, <4>1
        <5> HIDE DEF new
        <5> QED
          BY <5>1, <5>2, <5>3 DEF Call
      <4> QED
        BY <4>1, <4>2
    <3>2. CASE SaveBegin(c, p, f)
      <4> DEFINE new == [Begin(p, "save", f) EXCEPT !.pc = "encrypt"]
      <4>1. calls' = [calls EXCEPT ![c] = new]
        BY <3>2 DEF SaveBegin
      <4>2. new \in Call /\ new.page = p /\ new.file = f /\ new.op = "save" /\ new.pc = "encrypt"
        BY <1>1 DEF Call
      <4> QED
        BY <4>1, <4>2
    <3> QED
      BY <1>2, <3>1, <3>2
  <2>3. /\ calls' \in [Calls -> Call] /\ calls'[c] = new
        /\ \A d \in Calls \ {c} : calls'[d] = calls[d]
    BY <1>0, <2>2
  <2>4. Types'
    BY <1>0, <2>1, <2>3 DEF Basics, Types
  <2>5. Sound(calls[c])'
    BY <1>0, <2>1, <2>2, <2>3 DEF Sound
  <2>6. Adding(c)' => new.op = "add" /\ open[p] # Shut
    BY <2>2, <2>3 DEF Adding
  <2>7. Sessions' /\ Underway'
    BY <1>0, <2>1, <2>2, <2>3, <2>5, <2>6, CallBasics
  <2> QED
    BY <2>4, <2>7
<1>3. ASSUME Arrange(c, p) \/ \E f \in Files : Remove(c, p, f)
      PROVE  Types' /\ Sessions' /\ Underway'
  <2>1. PICK call \in Call, files \in SUBSET Files :
          /\ WriteIndex(c, p, call, files) /\ open[p] # Shut /\ call.page = p
          /\ UNCHANGED <<index, blobs, filed, removed, crossed, unread>>
          /\ removing \subseteq removing' /\ removing' \subseteq Vaults \X Files
          /\ \/ call.op = "arrange"
             \/ /\ call.op = "remove" /\ call.file \in Files /\ call.file \notin files
                /\ <<open[p].vault, call.file>> \in removing'
    <3>1. CASE Arrange(c, p)
      <4> DEFINE call == Begin(p, "arrange", None)
      <4>1. call \in Call /\ call.op = "arrange" /\ call.page = p
        BY <1>1
      <4>2. /\ WriteIndex(c, p, call, open[p].files) /\ open[p] # Shut
            /\ UNCHANGED <<index, blobs, filed, removing, removed, crossed, unread>>
        BY <3>1 DEF Arrange, IsOpen
      <4>3. removing \subseteq Vaults \X Files
        BY DEF Basics, Types
      <4> HIDE DEF call
      <4> QED
        BY <1>0, <4>1, <4>2, <4>3
    <3>2. ASSUME NEW f \in Files, Remove(c, p, f)
          PROVE  /\ WriteIndex(c, p, Begin(p, "remove", f), open[p].files \ {f})
                 /\ open[p] # Shut /\ UNCHANGED <<index, blobs, filed, removed, crossed, unread>>
                 /\ removing' = removing \cup {<<open[p].vault, f>>}
      BY <3>2 DEF Remove, Shut
    <3>3. CASE \E f \in Files : Remove(c, p, f)
      <4>1. PICK f \in Files : Remove(c, p, f)
        BY <3>3
      <4>2. removing \subseteq Vaults \X Files
        BY DEF Basics, Types
      <4> DEFINE call == Begin(p, "remove", f)
      <4>3. call \in Call /\ call.op = "remove" /\ call.page = p /\ call.file = f
        BY <1>1
      <4>4. /\ WriteIndex(c, p, call, open[p].files \ {f}) /\ open[p] # Shut
            /\ UNCHANGED <<index, blobs, filed, removed, crossed, unread>>
            /\ removing' = removing \cup {<<open[p].vault, f>>}
        BY <3>2, <4>1
      <4> HIDE DEF call
      <4> QED
        BY <1>0, <4>2, <4>3, <4>4
    <3> QED
      BY <1>3, <3>1, <3>3
  <2>2. /\ open' \in [Pages -> [session : Nat, vault : Vaults \cup {None}, files : SUBSET Files]]
        /\ calls' \in [Calls -> Call]
        /\ raced' \in BOOLEAN
        /\ \A q \in Pages \ {p} : open'[q] = open[q]
        /\ open'[p].vault = open[p].vault /\ open'[p].session = open[p].session
        /\ \A d \in Calls \ {c} : calls'[d] = calls[d]
        /\ calls'[c].pc = "seal" /\ calls'[c].op = call.op /\ calls'[c].page = p
        /\ calls'[c].file = call.file /\ calls'[c].key = open[p].vault
        /\ calls'[c].snap = files
    BY <1>0, <2>1, WriteIndexBasics
  <2>3. Types'
    BY <1>0, <2>1, <2>2 DEF Basics, Types
  <2>4. Sound(calls[c])' /\ ~Adding(c)'
    BY <1>0, <2>1, <2>2 DEF Sound, Adding
  <2>5. Sessions' /\ Underway'
    BY <1>0, <2>1, <2>2, <2>4, CallBasics
  <2> QED
    BY <2>3, <2>5
<1> QED
  BY <1>2, <1>3

LEMMA BasicsNext == Basics /\ [Next]_vars => Basics'
<1>1. Basics /\ UNCHANGED vars => Basics'
  BY DEF vars, Basics, Types, Sessions, Underway, Sound, Adding
<1> QED
  BY <1>1, PageBasics, StepBasics, BeginBasics DEF Next

----------------------------------------------------------------------------
(* What the steps do to the copies of an index *)

\* Where nothing new is listed, and what is removed was listed, vaults stay apart.
LEMMA ApartKept ==
  ASSUME Apart, Gone,
         \A v \in Vaults, f \in Files : Lists(v, f)' => Lists(v, f),
         \A v \in Vaults, f \in Files : <<v, f>> \in removing' =>
           <<v, f>> \in removing \/ Lists(v, f),
         \A v \in Vaults, f \in Files : <<v, f>> \in removed' =>
           <<v, f>> \in removed \/ ~Lists(v, f)'
  PROVE  Apart' /\ Gone'
<1>1. Apart'
  BY DEF Apart
<1>2. Gone'
  BY DEF Gone
<1> QED
  BY <1>1, <1>2

\* The file of an add stays its own, as long as no call takes another one than a listed one.
LEMMA NewKept ==
  ASSUME Basics, New,
         \A v \in Vaults, f \in Files : Lists(v, f)' => Lists(v, f),
         \A v \in Vaults, f \in Files : <<v, f>> \in removing' =>
           <<v, f>> \in removing \/ Lists(v, f),
         \A c \in Calls : Adding(c)' =>
           /\ Adding(c)
           /\ calls'[c].file = calls[c].file /\ calls'[c].target = calls[c].target
           /\ calls'[c].pc = "file" => \/ calls[c].pc = "file"
                                       \/ calls[c].file \in blobs'[calls[c].target],
         \A v \in Vaults, c \in Calls : calls[c].pc = "file" /\ Adding(c) /\ Adding(c)'
           /\ calls[c].file \in blobs[v] => calls[c].file \in blobs'[v],
         \A c \in Calls : \/ calls'[c].file \in {calls[c].file, None}
                          \/ \E v \in Vaults : Lists(v, calls'[c].file)
  PROVE  New'
<1> SUFFICES ASSUME NEW c \in Calls, Adding(c)'
             PROVE  /\ \A v \in Vaults : /\ ~Lists(v, calls[c].file)'
                                         /\ <<v, calls'[c].file>> \notin removing'
                    /\ \A d \in Calls \ {c} : calls'[d].file # calls'[c].file
                    /\ calls'[c].pc = "file" => calls'[c].file \in blobs'[calls'[c].target]
  BY DEF New
<1>0. Adding(c) /\ calls[c].file \in Files
  BY DEF Adding, Basics, Underway, Sound
<1> PICK f \in Files : f = calls[c].file
  BY <1>0
<1>1. /\ Adding(c) /\ calls[c].file = f /\ calls'[c].file = f /\ calls'[c].target = calls[c].target
  BY <1>0
<1>2. /\ \A v \in Vaults : ~Lists(v, f) /\ <<v, f>> \notin removing
      /\ \A d \in Calls \ {c} : calls[d].file # f
      /\ calls[c].pc = "file" => f \in blobs[calls[c].target]
  BY <1>1 DEF New
<1>3. \A v \in Vaults : ~Lists(v, f)' /\ <<v, f>> \notin removing'
  BY <1>2
<1>6. \A v \in Vaults : ~Lists(v, calls[c].file)'
  BY <1>1, <1>3
<1>4. \A d \in Calls \ {c} : calls'[d].file # f
  BY <1>1, <1>2, BoundsAssumption
<1>5. calls'[c].pc = "file" => f \in blobs'[calls[c].target]
  <2>1. calls[c].pc = "file" => calls[c].target \in Vaults
    BY <1>1 DEF Basics, Underway, Sound, Adding
  <2> QED
    BY <1>1, <1>2, <2>1
<1> QED
  BY <1>1, <1>3, <1>4, <1>5, <1>6

\* Steps that begin no write of an index and open no vault.
LEMMA CopiesKept ==
  ASSUME Basics, Alone, index' = index, filed' = filed, removing \subseteq removing',
         \A c \in Calls : calls'[c].pc \in {"seal", "index"} =>
           /\ calls[c].pc \in {"seal", "index"}
           /\ calls'[c].key = calls[c].key /\ calls'[c].snap = calls[c].snap
           /\ calls'[c].pc = "index" => calls'[c].target = calls[c].key,
         \A p \in Pages : open'[p] = open[p] \/ open'[p] = Shut
  PROVE  /\ Alone'
         /\ \A v \in Vaults, f \in Files : Lists(v, f)' => Lists(v, f)
         /\ Everywhere => Everywhere'
<1>1. \A v \in Vaults, c \in Calls : c \in Writing(v)' =>
        c \in Writing(v) /\ calls'[c].snap = calls[c].snap
  BY DEF Writing, Alone
<1>2. \A p \in Pages, v \in Vaults : open'[p].vault = v => open'[p] = open[p]
  BY BoundsAssumption DEF Shut
<1>3. \A v \in Vaults : Writing(v) \subseteq Calls /\ Writing(v)' \subseteq Calls
  BY DEF Writing
<1>4. Alone'
  <2>1. \A p, q \in Pages : open'[p].vault = open'[q].vault /\ open'[p].vault # None => p = q
    BY DEF Alone, Shut
  <2>2. \A c \in Calls : calls'[c].pc = "index" => calls'[c].target = calls'[c].key
    OBVIOUS
  <2>3. \A v \in Vaults : \A c, d \in Writing(v)' : c = d
    BY <1>1, <1>3 DEF Alone
  <2>4. \A p \in Pages, v \in Vaults : \A c \in Writing(v)' :
          open'[p].vault = v => calls'[c].snap = open'[p].files
    BY <1>1, <1>2, <1>3 DEF Alone
  <2>5. \A v \in Vaults : index'[v].key = v
    BY DEF Alone
  <2> QED
    BY <2>1, <2>2, <2>3, <2>4, <2>5 DEF Alone
<1>5. ASSUME NEW v \in Vaults, NEW f \in Files, Lists(v, f)' PROVE Lists(v, f)
  <2>1. CASE f \in index'[v].files
    BY <2>1 DEF Lists
  <2>2. CASE \E p \in Pages : open'[p].vault = v /\ f \in open'[p].files
    BY <1>2, <2>2 DEF Lists
  <2>3. CASE \E c \in Writing(v)' : f \in calls'[c].snap
    BY <1>1, <1>3, <2>3 DEF Lists
  <2> QED
    BY <1>5, <2>1, <2>2, <2>3 DEF Lists
<1>6. ASSUME Everywhere, NEW v \in Vaults, NEW f \in Files, <<v, f>> \in filed' \ removing'
      PROVE  /\ f \in index'[v].files
             /\ \A p \in Pages : open'[p].vault = v => f \in open'[p].files
             /\ \A c \in Writing(v)' : f \in calls'[c].snap
  <2>1. /\ f \in index[v].files
        /\ \A p \in Pages : open[p].vault = v => f \in open[p].files
        /\ \A c \in Writing(v) : f \in calls[c].snap
    BY <1>6 DEF Everywhere
  <2> QED
    BY <1>1, <1>2, <1>3, <2>1
<1>7. Everywhere => Everywhere'
  BY <1>6 DEF Everywhere
<1> QED
  BY <1>4, <1>5, <1>7

\* A write of the index begins, and no other one of this vault is under way.
LEMMA WriteBegins ==
  ASSUME Basics, Alone, NEW c \in Calls, NEW p \in Pages, NEW call \in Call,
         NEW files \in SUBSET Files, call.page = p,
         WriteIndex(c, p, call, files), open[p] # Shut, ~raced',
         calls[c].pc \notin {"seal", "index"},
         index' = index, filed' = filed, removing \subseteq removing',
         \A f \in open[p].files : <<open[p].vault, f>> \in filed \ removing' => f \in files
  PROVE  /\ Alone'
         /\ \A v \in Vaults, f \in Files :
              Lists(v, f)' => Lists(v, f) \/ (v = open[p].vault /\ f \in files)
         /\ Everywhere => Everywhere'
<1>0. open[p].vault \in Vaults
  BY DEF Basics, Sessions
<1> PICK u \in Vaults : u = open[p].vault
  BY <1>0
<1>1. u = open[p].vault /\ open[p].session \in 1..ops
  BY DEF Basics, Sessions
<1>2. /\ \A q \in Pages \ {p} : open'[q] = open[q]
      /\ open'[p].vault = u /\ open'[p].files = files
      /\ \A d \in Calls \ {c} : calls'[d] = calls[d]
      /\ calls'[c].pc = "seal" /\ calls'[c].key = u /\ calls'[c].snap = files
  BY <1>1, WriteIndexBasics
<1>3. Writing(u) \ {c} = {}
  BY <1>1 DEF WriteIndex
<1>4. \A v \in Vaults : Writing(v) \subseteq Calls /\ Writing(v)' \subseteq Calls
  BY DEF Writing
<1>5. \A v \in Vaults \ {u} : \A d \in Writing(v)' : d \in Writing(v) /\ d # c
  BY <1>2 DEF Writing
<1>6. Writing(u)' = {c}
  <2>1. c \in Writing(u)'
    BY <1>2 DEF Writing
  <2>2. \A d \in Writing(u)' : d = c
    BY <1>2, <1>3 DEF Writing
  <2> QED
    BY <2>1, <2>2
<1>7. Alone'
  <2>1. \A q, r \in Pages : open'[q].vault = open'[r].vault /\ open'[q].vault # None => q = r
    BY <1>2 DEF Alone
  <2>2. \A d \in Calls : calls'[d].pc = "index" => calls'[d].target = calls'[d].key
    BY <1>2 DEF Alone
  <2>3. ASSUME NEW v \in Vaults, NEW d \in Writing(v)', NEW e \in Writing(v)' PROVE d = e
    <3>1. CASE v = u
      BY <1>6, <3>1
    <3>2. CASE v # u
      BY <1>4, <1>5, <3>2 DEF Alone
    <3> QED
      BY <3>1, <3>2
  <2>4. ASSUME NEW q \in Pages, NEW v \in Vaults, NEW d \in Writing(v)', open'[q].vault = v
        PROVE  calls'[d].snap = open'[q].files
    <3>1. CASE v = u
      <4>1. q = p
        BY <1>1, <1>2, <2>1, <2>4, <3>1, BoundsAssumption
      <4> QED
        BY <1>2, <1>6, <2>4, <3>1, <4>1
    <3>2. CASE v # u
      BY <1>2, <1>4, <1>5, <2>4, <3>2 DEF Alone
    <3> QED
      BY <3>1, <3>2
  <2>5. \A v \in Vaults : index'[v].key = v
    BY DEF Alone
  <2> QED
    BY <2>1, <2>2, <2>3, <2>4, <2>5 DEF Alone
<1>8. ASSUME NEW v \in Vaults, NEW f \in Files, Lists(v, f)', ~(v = u /\ f \in files)
      PROVE  Lists(v, f)
  <2>1. CASE f \in index'[v].files
    BY <2>1 DEF Lists
  <2>2. CASE \E q \in Pages : open'[q].vault = v /\ f \in open'[q].files
    BY <1>2, <1>8, <2>2 DEF Lists
  <2>3. CASE \E d \in Writing(v)' : f \in calls'[d].snap
    <3>1. PICK d \in Writing(v)' : f \in calls'[d].snap
      BY <2>3
    <3>2. v # u
      BY <1>2, <1>6, <1>8, <3>1
    <3> QED
      BY <1>2, <1>4, <1>5, <3>1, <3>2 DEF Lists
  <2> QED
    BY <1>8, <2>1, <2>2, <2>3 DEF Lists
<1>9. ASSUME Everywhere, NEW v \in Vaults, NEW f \in Files, <<v, f>> \in filed' \ removing'
      PROVE  /\ f \in index'[v].files
             /\ \A q \in Pages : open'[q].vault = v => f \in open'[q].files
             /\ \A d \in Writing(v)' : f \in calls'[d].snap
  <2>1. /\ f \in index[v].files
        /\ \A q \in Pages : open[q].vault = v => f \in open[q].files
        /\ \A d \in Writing(v) : f \in calls[d].snap
    BY <1>9 DEF Everywhere
  <2>2. v = u => f \in files
    BY <1>1, <1>9, <2>1
  <2>3. \A q \in Pages : open'[q].vault = v => f \in open'[q].files
    BY <1>2, <2>1, <2>2
  <2>4. \A d \in Writing(v)' : f \in calls'[d].snap
    <3>1. CASE v = u
      BY <1>2, <1>6, <2>2, <3>1
    <3>2. CASE v # u
      BY <1>2, <1>4, <1>5, <2>1, <3>2
    <3> QED
      BY <3>1, <3>2
  <2> QED
    BY <2>1, <2>3, <2>4
<1>10. Everywhere => Everywhere'
  BY <1>9 DEF Everywhere
<1> QED
  BY <1>1, <1>7, <1>8, <1>10

\* A race, once met, is met for good.
LEMMA CalmStays == ASSUME Next, Calm' PROVE Calm
<1>1. (raced => raced') /\ (crossed => crossed')
  <2>1. ASSUME NEW c \in Calls, NEW p, NEW call, NEW files, WriteIndex(c, p, call, files)
        PROVE  raced => raced'
    BY <2>1, Zenon DEF WriteIndex
  <2>2. ASSUME NEW c \in Calls, AddFile(c) \/ SaveIndex(c)
        PROVE  (raced => raced') /\ (crossed => crossed')
    <3>1. crossed' = crossed
      BY <2>2 DEF AddFile, SaveIndex
    <3>2. raced' = raced \/ \E p, call, files : WriteIndex(c, p, call, files)
      BY <2>2, Zenon DEF AddFile, SaveIndex
    <3>3. CASE raced' = raced
      BY <3>1, <3>3, Zenon
    <3>4. CASE \E p, call, files : WriteIndex(c, p, call, files)
      <4>1. raced => raced'
        BY <2>1, <3>4
      <4> QED
        BY <3>1, <4>1, Zenon
    <3> QED
      BY <3>2, <3>3, <3>4
  <2>3. ASSUME NEW c \in Calls, NEW p \in Pages, Arrange(c, p) \/ \E f \in Files : Remove(c, p, f)
        PROVE  (raced => raced') /\ (crossed => crossed')
    <3>1. crossed' = crossed
      BY <2>3 DEF Arrange, Remove
    <3>2. \E call, files : WriteIndex(c, p, call, files)
      BY <2>3, Zenon DEF Arrange, Remove
    <3> QED
      BY <2>1, <3>1, <3>2, Zenon
  <2>4. ASSUME NEW p \in Pages, NEW v \in Vaults, Unlock(p, v)
        PROVE  (raced => raced') /\ (crossed => crossed')
    BY <2>4, Zenon DEF Unlock
  <2>5. ASSUME NEW c \in Calls, Sealed(c)
        PROVE  (raced => raced') /\ (crossed => crossed')
    <3> DEFINE v == open[calls[c].page].vault
    <3>1. CASE raced' = raced /\ crossed' = crossed
      BY <3>1, Zenon
    <3>2. CASE /\ crossed' = (crossed \/ v # calls[c].key)
               /\ raced' = (raced \/ Writing(v) \ {c} # {})
      BY <3>2, Zenon
    <3> QED
      BY <2>5, <3>1, <3>2, Zenon DEF Sealed
  <2>6. CASE \/ \E p \in Pages : Lock(p) \/ Reload(p)
             \/ \E c \in Calls, p \in Pages, f \in Files : AddBegin(c, p, f) \/ SaveBegin(c, p, f)
             \/ \E c \in Calls : IndexPut(c) \/ IndexPutFails(c) \/ ReplyLost(c) \/ SaveSealed(c)
                  \/ BlobPut(c) \/ BlobFails(c) \/ Unlink(c) \/ UnlinkFails(c)
    <3>1. raced' = raced /\ crossed' = crossed
      BY <2>6 DEF Lock, Reload, AddBegin, SaveBegin, IndexPut, IndexPutFails, ReplyLost,
                  SaveSealed, BlobPut, BlobFails, Unlink, UnlinkFails
    <3> QED
      BY <3>1, Zenon
  <2> QED
    BY <2>2, <2>3, <2>4, <2>5, <2>6, Zenon DEF Next, Step
<1> QED
  BY <1>1, Zenon DEF Calm

\* The steps of a call that store no index and begin to write none.
Quiet(c) ==
  \/ Sealed(c) \/ IndexPutFails(c) \/ ReplyLost(c) \/ SaveSealed(c) \/ BlobPut(c) \/ BlobFails(c)
  \/ Unlink(c) \/ UnlinkFails(c)
  \/ (AddFile(c) \/ SaveIndex(c)) /\ Return(c) /\ UNCHANGED <<open, raced>>

LEMMA QuietEffects ==
  ASSUME Basics, Alone, NEW c \in Calls, Quiet(c), Calm'
  PROVE  /\ UNCHANGED <<index, open, filed, removing, removed, unread>>
         /\ \A d \in Calls \ {c} : calls'[d] = calls[d]
         /\ calls'[c].file \in {calls[c].file, None}
         /\ calls'[c].pc \in {"seal", "index"} =>
              /\ calls[c].pc \in {"seal", "index"}
              /\ calls'[c].key = calls[c].key /\ calls'[c].snap = calls[c].snap
              /\ calls'[c].pc = "index" => calls'[c].target = calls[c].key
         /\ Adding(c)' =>
              /\ Adding(c)
              /\ calls'[c].file = calls[c].file /\ calls'[c].target = calls[c].target
              /\ calls'[c].pc = "file" => \/ calls[c].pc = "file"
                                          \/ calls[c].file \in blobs'[calls[c].target]
         /\ \/ \A v \in Vaults : blobs[v] \subseteq blobs'[v]
            \/ Unlink(c)
<1> DEFINE call == calls[c]
<1>0. /\ call \in Call /\ Sound(call) /\ calls \in [Calls -> Call]
      /\ blobs \in [Vaults -> SUBSET Files]
  BY DEF Basics, Types, Underway
<1>1. UNCHANGED <<index, open, filed, removing, removed, unread>>
  BY DEF Quiet, Sealed, IndexPutFails, ReplyLost, SaveSealed, BlobPut, BlobFails, Unlink,
         UnlinkFails, AddFile, SaveIndex
<1>2. \/ UNCHANGED blobs
      \/ BlobPut(c) /\ blobs' = [blobs EXCEPT ![call.target] = @ \cup {call.file}]
      \/ Unlink(c)
  BY DEF Quiet, Sealed, IndexPutFails, ReplyLost, SaveSealed, BlobPut, BlobFails,
         UnlinkFails, AddFile, SaveIndex
<1>3. (\A v \in Vaults : blobs[v] \subseteq blobs'[v]) \/ Unlink(c)
  BY <1>0, <1>2
<1>4. CASE Return(c)
  <2>1. calls'[c] = Done /\ \A d \in Calls \ {c} : calls'[d] = calls[d]
    BY <1>0, <1>4 DEF Return
  <2>2. calls'[c].file = None /\ calls'[c].pc = "idle" /\ ~Adding(c)'
    BY <2>1 DEF Done, Adding
  <2> QED
    BY <1>1, <1>3, <2>1, <2>2
<1>5. ASSUME NEW new \in Call, calls' = [calls EXCEPT ![c] = new],
             new.file = call.file, new.op = call.op,
             new.pc \in {"seal", "index"} =>
               /\ call.pc \in {"seal", "index"}
               /\ new.key = call.key /\ new.snap = call.snap
               /\ new.pc = "index" => new.target = call.key,
             new.op = "add" /\ new.pc \in {"blob", "file"} =>
               /\ call.pc \in {"blob", "file"} /\ new.target = call.target
               /\ new.pc = "file" => call.pc = "file" \/ call.file \in blobs'[call.target]
      PROVE  /\ UNCHANGED <<index, open, filed, removing, removed, unread>>
             /\ \A d \in Calls \ {c} : calls'[d] = calls[d]
             /\ calls'[c].file \in {calls[c].file, None}
             /\ calls'[c].pc \in {"seal", "index"} =>
                  /\ calls[c].pc \in {"seal", "index"}
                  /\ calls'[c].key = calls[c].key /\ calls'[c].snap = calls[c].snap
                  /\ calls'[c].pc = "index" => calls'[c].target = calls[c].key
             /\ Adding(c)' =>
                  /\ Adding(c)
                  /\ calls'[c].file = calls[c].file /\ calls'[c].target = calls[c].target
                  /\ calls'[c].pc = "file" => \/ calls[c].pc = "file"
                                              \/ calls[c].file \in blobs'[calls[c].target]
             /\ \/ \A v \in Vaults : blobs[v] \subseteq blobs'[v]
                \/ Unlink(c)
  <2>1. calls'[c] = new /\ \A d \in Calls \ {c} : calls'[d] = calls[d]
    BY <1>0, <1>5
  <2> QED
    BY <1>1, <1>3, <1>5, <2>1 DEF Adding
<1>6. CASE Sealed(c) /\ ~Return(c)
  <2> DEFINE v == open[call.page].vault
             new == [call EXCEPT !.pc = "index", !.target = v]
  <2>1. /\ call.pc = "seal" /\ call.page \in Pages /\ open[call.page] # Shut
        /\ calls' = [calls EXCEPT ![c] = new] /\ crossed' = (crossed \/ v # call.key)
    BY <1>0, <1>6 DEF Sealed, IsOpen, Sound
  <2>2. v = call.key /\ v \in Vaults
    BY <1>0, <2>1 DEF Calm, Sound
  <2>3. /\ new \in Call /\ new.pc = "index" /\ new.target = v /\ new.op = call.op
        /\ new.file = call.file /\ new.key = call.key /\ new.snap = call.snap
    BY <1>0, <2>2 DEF Call
  <2> HIDE DEF new
  <2> QED
    BY <1>5, <2>1, <2>2, <2>3
<1>7. CASE ReplyLost(c)
  <2> DEFINE new == [call EXCEPT !.page = None]
  <2>1. call.pc \in {"blob", "index"} /\ calls' = [calls EXCEPT ![c] = new]
    BY <1>7 DEF ReplyLost
  <2>2. /\ new \in Call /\ new.pc = call.pc /\ new.target = call.target /\ new.op = call.op
        /\ new.file = call.file /\ new.key = call.key /\ new.snap = call.snap
    BY <1>0 DEF Call
  <2>3. call.pc = "index" => call.target = call.key
    BY DEF Alone
  <2> HIDE DEF new
  <2> QED
    BY <1>5, <2>1, <2>2, <2>3
<1>8. CASE SaveSealed(c) /\ ~Return(c)
  <2> DEFINE new == [call EXCEPT !.pc = "blob", !.target = open[call.page].vault]
  <2>1. /\ call.pc = "encrypt" /\ call.op = "save" /\ call.page \in Pages
        /\ calls' = [calls EXCEPT ![c] = new]
        /\ open[call.page].vault \in Vaults \cup {None}
    BY <1>0, <1>8 DEF SaveSealed, Sound, Basics, Types
  <2>2. new \in Call /\ new.pc = "blob" /\ new.op = "save" /\ new.file = call.file
    BY <1>0, <2>1 DEF Call
  <2> HIDE DEF new
  <2> QED
    BY <1>5, <2>1, <2>2
<1>9. CASE BlobPut(c) /\ ~Return(c)
  <2> DEFINE new == [call EXCEPT !.pc = "file"]
  <2>1. /\ call.pc = "blob" /\ calls' = [calls EXCEPT ![c] = new] /\ call.target \in Vaults
        /\ blobs' = [blobs EXCEPT ![call.target] = @ \cup {call.file}]
    BY <1>0, <1>9 DEF BlobPut, Sound
  <2>2. /\ new \in Call /\ new.pc = "file" /\ new.op = call.op /\ new.file = call.file
        /\ new.target = call.target
    BY <1>0 DEF Call
  <2>3. call.file \in blobs'[call.target]
    BY <1>0, <2>1
  <2> HIDE DEF new
  <2> QED
    BY <1>5, <2>1, <2>2, <2>3
<1> QED
  BY <1>4, <1>6, <1>7, <1>8, <1>9
  DEF Quiet, IndexPutFails, BlobFails, Unlink, UnlinkFails

----------------------------------------------------------------------------
(* The calm part of the invariant *)

LEMMA QuietCalm ==
  ASSUME Basics, Calm, CalmInv, NEW c \in Calls, Quiet(c), Calm'
  PROVE  CalmInv'
<1>0. /\ Alone /\ Whole /\ Apart /\ Gone /\ New /\ (~unread => Everywhere)
      /\ removed \subseteq removing /\ calls \in [Calls -> Call]
      /\ blobs \in [Vaults -> SUBSET Files]
  BY DEF CalmInv, Basics, Types
<1>1. /\ UNCHANGED <<index, open, filed, removing, removed, unread>>
      /\ \A d \in Calls \ {c} : calls'[d] = calls[d]
      /\ calls'[c].file \in {calls[c].file, None}
      /\ calls'[c].pc \in {"seal", "index"} =>
           /\ calls[c].pc \in {"seal", "index"}
           /\ calls'[c].key = calls[c].key /\ calls'[c].snap = calls[c].snap
           /\ calls'[c].pc = "index" => calls'[c].target = calls[c].key
      /\ Adding(c)' =>
           /\ Adding(c)
           /\ calls'[c].file = calls[c].file /\ calls'[c].target = calls[c].target
           /\ calls'[c].pc = "file" => \/ calls[c].pc = "file"
                                       \/ calls[c].file \in blobs'[calls[c].target]
      /\ \/ \A v \in Vaults : blobs[v] \subseteq blobs'[v]
         \/ Unlink(c)
  BY <1>0, QuietEffects
<1>2. \A d \in Calls : calls'[d].pc \in {"seal", "index"} =>
        /\ calls[d].pc \in {"seal", "index"}
        /\ calls'[d].key = calls[d].key /\ calls'[d].snap = calls[d].snap
        /\ calls'[d].pc = "index" => calls'[d].target = calls[d].key
  BY <1>0, <1>1 DEF Alone
<1>3. /\ Alone'
      /\ \A v \in Vaults, f \in Files : Lists(v, f)' => Lists(v, f)
      /\ Everywhere => Everywhere'
  BY <1>0, <1>1, <1>2, CopiesKept
<1>4. Apart' /\ Gone'
  BY <1>0, <1>1, <1>3, ApartKept
\* What Unlink deletes is listed nowhere, and no add's.
<1>5. \A v \in Vaults, f \in Files :
        f \in blobs[v] /\ f \notin blobs'[v] => \E w \in Vaults : <<w, f>> \in removed
  <2> SUFFICES ASSUME NEW v \in Vaults, NEW f \in Files, f \in blobs[v], f \notin blobs'[v]
               PROVE  \E w \in Vaults : <<w, f>> \in removed
    OBVIOUS
  <2>1. /\ calls[c].pc = "unlink"
        /\ blobs' = [blobs EXCEPT ![calls[c].target] = @ \ {calls[c].file}]
    BY <1>1 DEF Unlink
  <2>2. f = calls[c].file
    BY <1>0, <2>1
  <2> QED
    BY <2>1, <2>2 DEF Basics, Underway, Sound
<1>6. Whole'
  <2> SUFFICES ASSUME NEW v \in Vaults, NEW f \in Files, Lists(v, f)' PROVE f \in blobs'[v]
    BY DEF Whole
  <2>1. Lists(v, f) /\ f \in blobs[v]
    BY <1>0, <1>3 DEF Whole
  <2>2. \A w \in Vaults : <<w, f>> \notin removed
    BY <1>0, <2>1 DEF Apart, Gone
  <2> QED
    BY <1>5, <2>1, <2>2
<1>7. New'
  <2>1. \A d \in Calls : Adding(d)' =>
          /\ Adding(d)
          /\ calls'[d].file = calls[d].file /\ calls'[d].target = calls[d].target
          /\ calls'[d].pc = "file" => \/ calls[d].pc = "file"
                                      \/ calls[d].file \in blobs'[calls[d].target]
    BY <1>1 DEF Adding
  <2>2. ASSUME NEW v \in Vaults, NEW d \in Calls, Adding(d), calls[d].file \in blobs[v]
        PROVE  calls[d].file \in blobs'[v]
    <3>1. calls[d].file \in Files
      BY <2>2 DEF Adding, Basics, Underway, Sound
    <3>2. \A w \in Vaults : <<w, calls[d].file>> \notin removed
      BY <1>0, <2>2 DEF New
    <3> QED
      BY <1>5, <2>2, <3>1, <3>2
  <2>3. \A d \in Calls : calls'[d].file \in {calls[d].file, None}
    BY <1>1
  <2> QED
    BY <1>0, <1>1, <1>3, <2>1, <2>2, <2>3, NewKept
<1>8. ~unread' => Everywhere'
  BY <1>0, <1>1, <1>3
<1> QED
  BY <1>3, <1>4, <1>6, <1>7, <1>8 DEF CalmInv

LEMMA ShutCalm ==
  ASSUME Basics, Calm, CalmInv, NEW p \in Pages, Lock(p) \/ Reload(p)
  PROVE  CalmInv'
<1>0. /\ Alone /\ Whole /\ Apart /\ Gone /\ New /\ (~unread => Everywhere)
      /\ calls \in [Calls -> Call] /\ open' = [open EXCEPT ![p] = Shut]
      /\ \A q \in Pages : open'[q] = open[q] \/ open'[q] = Shut
      /\ UNCHANGED <<index, blobs, filed, removing, removed, unread>>
  BY DEF CalmInv, Basics, Types, Lock, Reload
<1>1. ASSUME NEW d \in Calls
      PROVE  \/ calls'[d] = Done
             \/ /\ calls'[d].op = calls[d].op /\ calls'[d].pc = calls[d].pc
                /\ calls'[d].file = calls[d].file /\ calls'[d].target = calls[d].target
                /\ calls'[d].key = calls[d].key /\ calls'[d].snap = calls[d].snap
  <2>1. calls[d] \in Call
    BY <1>0
  <2>2. \/ calls'[d] = calls[d]
        \/ calls'[d] = [calls[d] EXCEPT !.page = None]
        \/ calls'[d] = Done
    BY DEF Lock, Reload
  <2> QED
    BY <2>1, <2>2 DEF Call
<1>2. Done.pc = "idle" /\ Done.file = None /\ Done.op = "none"
  BY DEF Done
<1>3. \A d \in Calls : calls'[d].pc \in {"seal", "index"} =>
        /\ calls[d].pc \in {"seal", "index"}
        /\ calls'[d].key = calls[d].key /\ calls'[d].snap = calls[d].snap
        /\ calls'[d].pc = "index" => calls'[d].target = calls[d].key
  BY <1>0, <1>1, <1>2 DEF Alone
<1>4. /\ Alone'
      /\ \A v \in Vaults, f \in Files : Lists(v, f)' => Lists(v, f)
      /\ Everywhere => Everywhere'
  BY <1>0, <1>3, CopiesKept
<1>5. Apart' /\ Gone'
  BY <1>0, <1>4, ApartKept
<1>6. Whole'
  BY <1>0, <1>4 DEF Whole
<1>7. New'
  <2>1. \A d \in Calls : Adding(d)' =>
          /\ Adding(d)
          /\ calls'[d].file = calls[d].file /\ calls'[d].target = calls[d].target
          /\ calls'[d].pc = "file" => calls[d].pc = "file"
    BY <1>1, <1>2 DEF Adding
  <2>2. \A d \in Calls : calls'[d].file \in {calls[d].file, None}
    BY <1>1, <1>2
  <2> QED
    BY <1>0, <1>4, <2>1, <2>2, NewKept
<1> QED
  BY <1>0, <1>4, <1>5, <1>6, <1>7 DEF CalmInv

\* Where a vault is opened no write of its index is under way and no page has it open: the copy
\* that is read is the stored one.
LEMMA UnlockCalm ==
  ASSUME Basics, Calm, CalmInv, NEW p \in Pages, NEW v \in Vaults, Unlock(p, v), Calm'
  PROVE  CalmInv'
<1>0. /\ Alone /\ Whole /\ Apart /\ Gone /\ New /\ (~unread => Everywhere)
      /\ UNCHANGED <<index, blobs, calls, filed, removing, removed>>
  BY DEF CalmInv, Unlock
<1>1. PICK files \in {index[v].files, {}} :
        /\ open' = [open EXCEPT ![p] = [session |-> ops', vault |-> v, files |-> files]]
        /\ \/ files = index[v].files /\ unread' = unread
           \/ unread' = TRUE
  BY DEF Unlock
<1>2. /\ open'[p].vault = v /\ open'[p].files = files
      /\ \A q \in Pages \ {p} : open'[q] = open[q]
  BY <1>1 DEF Basics, Types
<1>3. Writing(v) = {} /\ \A q \in Pages : open[q].vault # v
  BY DEF Unlock, Calm
<1>4. \A w \in Vaults : Writing(w)' = Writing(w)
  BY <1>0 DEF Writing
<1>5. ASSUME NEW w \in Vaults, NEW f \in Files, Lists(w, f)' PROVE Lists(w, f)
  <2>1. CASE f \in index'[w].files
    BY <1>0, <2>1 DEF Lists
  <2>2. CASE \E q \in Pages : open'[q].vault = w /\ f \in open'[q].files
    <3>1. PICK q \in Pages : open'[q].vault = w /\ f \in open'[q].files
      BY <2>2
    <3>2. CASE q = p
      BY <1>1, <1>2, <3>1, <3>2 DEF Lists
    <3>3. CASE q # p
      BY <1>2, <3>1, <3>3 DEF Lists
    <3> QED
      BY <3>2, <3>3
  <2>3. CASE \E d \in Writing(w)' : f \in calls'[d].snap
    BY <1>0, <1>4, <2>3 DEF Lists
  <2> QED
    BY <1>5, <2>1, <2>2, <2>3 DEF Lists
<1>6. Alone'
  <2>1. \A q, r \in Pages : open'[q].vault = open'[r].vault /\ open'[q].vault # None => q = r
    BY <1>0, <1>2, <1>3 DEF Alone
  <2>2. ASSUME NEW q \in Pages, NEW w \in Vaults, NEW d \in Writing(w), open'[q].vault = w
        PROVE  calls[d].snap = open'[q].files
    <3>1. w # v
      BY <1>3
    <3>2. q # p
      BY <1>2, <2>2, <3>1
    <3> QED
      BY <1>0, <1>2, <2>2, <3>2 DEF Alone
  <2> QED
    BY <1>0, <1>4, <2>1, <2>2 DEF Alone
<1>7. Apart' /\ Gone'
  BY <1>0, <1>5, ApartKept
<1>8. Whole'
  BY <1>0, <1>5 DEF Whole
<1>9. New'
  BY <1>0, <1>5, NewKept DEF Adding
<1>10. ~unread' => Everywhere'
  <2> SUFFICES ASSUME ~unread', NEW w \in Vaults, NEW f \in Files,
                      <<w, f>> \in filed \ removing
               PROVE  /\ f \in index[w].files
                      /\ \A q \in Pages : open'[q].vault = w => f \in open'[q].files
                      /\ \A d \in Writing(w) : f \in calls[d].snap
    BY <1>0, <1>4 DEF Everywhere
  <2>1. ~unread /\ files = index[v].files
    BY <1>1
  <2>2. /\ f \in index[w].files
        /\ \A q \in Pages : open[q].vault = w => f \in open[q].files
        /\ \A d \in Writing(w) : f \in calls[d].snap
    BY <1>0, <2>1 DEF Everywhere
  <2> QED
    BY <1>2, <2>1, <2>2
<1> QED
  BY <1>6, <1>7, <1>8, <1>9, <1>10 DEF CalmInv

\* What is stored is what the one page that has the vault open holds.
LEMMA IndexPutCalm ==
  ASSUME Basics, Calm, CalmInv, NEW c \in Calls, IndexPut(c)
  PROVE  CalmInv'
<1> DEFINE call == calls[c]
<1>0. /\ Alone /\ Whole /\ Apart /\ Gone /\ New /\ (~unread => Everywhere)
      /\ call.pc = "index" /\ call \in Call /\ Sound(call) /\ calls \in [Calls -> Call]
      /\ UNCHANGED <<blobs, open, removing, raced, crossed, unread>>
  BY DEF CalmInv, IndexPut, Basics, Types, Underway
<1>1. call.key \in Vaults /\ call.target = call.key
  BY <1>0 DEF Sound, Alone
<1> PICK v \in Vaults : v = call.key
  BY <1>1
<1>2. /\ v = call.key /\ index' = [index EXCEPT ![v] = [key |-> v, files |-> call.snap]]
      /\ filed' = filed \/ (call.op = "add" /\ filed' = filed \cup {<<v, call.file>>})
      /\ removed' = removed \/ (call.op = "remove" /\ removed' = removed \cup {<<v, call.file>>})
  BY <1>1 DEF IndexPut
<1>3. /\ \A d \in Calls \ {c} : calls'[d] = calls[d]
      /\ calls'[c].file \in {call.file, None}
      /\ calls'[c].pc \in {"idle", "unlink"}
  <2> DEFINE new == [calls[c] EXCEPT !.pc = "unlink", !.target = open[call.page].vault]
  <2>1. calls' = [calls EXCEPT ![c] = Done] \/ calls' = [calls EXCEPT ![c] = new]
    BY DEF IndexPut, Return
  <2>2. new.pc = "unlink" /\ new.file = call.file
    BY <1>0 DEF Call
  <2>3. Done.pc = "idle" /\ Done.file = None
    BY DEF Done
  <2> HIDE DEF new
  <2> QED
    BY <1>0, <2>1, <2>2, <2>3
<1>4. /\ index'[v].key = v /\ index'[v].files = call.snap
      /\ \A w \in Vaults \ {v} : index'[w] = index[w]
  BY <1>2 DEF Basics, Types
<1>5. Writing(v) = {c} /\ Writing(v)' = {}
  <2>1. c \in Writing(v)
    BY <1>0, <1>1, <1>2 DEF Writing
  <2>2. Writing(v) = {c}
    BY <1>0, <2>1 DEF Alone
  <2>3. \A d \in Calls : d \in Writing(v)' => d \in Writing(v) /\ d # c
    BY <1>3 DEF Writing
  <2>4. Writing(v)' \subseteq Calls
    BY DEF Writing
  <2> QED
    BY <2>2, <2>3, <2>4
<1>6. \A w \in Vaults : \A d \in Writing(w)' :
        d \in Calls /\ w # v /\ d \in Writing(w) /\ calls'[d] = calls[d]
  <2> SUFFICES ASSUME NEW w \in Vaults, NEW d \in Writing(w)'
               PROVE  d \in Calls /\ w # v /\ d \in Writing(w) /\ calls'[d] = calls[d]
    OBVIOUS
  <2>1. w # v
    BY <1>5
  <2>2. d \in Calls /\ d # c
    BY <1>3 DEF Writing
  <2> QED
    BY <1>3, <2>1, <2>2 DEF Writing
<1>7. ASSUME NEW w \in Vaults, NEW f \in Files, Lists(w, f)' PROVE Lists(w, f)
  <2>1. CASE f \in index'[w].files
    <3>1. CASE w = v
      BY <1>2, <1>4, <1>5, <2>1, <3>1 DEF Lists
    <3>2. CASE w # v
      BY <1>4, <2>1, <3>2 DEF Lists
    <3> QED
      BY <3>1, <3>2
  <2>2. CASE \E q \in Pages : open'[q].vault = w /\ f \in open'[q].files
    BY <1>0, <2>2 DEF Lists
  <2>3. CASE \E d \in Writing(w)' : f \in calls'[d].snap
    BY <1>6, <2>3 DEF Lists
  <2> QED
    BY <1>7, <2>1, <2>2, <2>3 DEF Lists
<1>8. Alone'
  <2>1. \A w \in Vaults : index'[w].key = w
    BY <1>0, <1>4 DEF Alone
  <2>2. \A d \in Calls : calls'[d].pc = "index" => calls'[d].target = calls'[d].key
    BY <1>0, <1>3 DEF Alone
  <2>3. \A w \in Vaults : \A d, e \in Writing(w)' : d = e
    BY <1>0, <1>6 DEF Alone
  <2>4. \A q \in Pages, w \in Vaults : \A d \in Writing(w)' :
          open'[q].vault = w => calls'[d].snap = open'[q].files
    BY <1>0, <1>6 DEF Alone
  <2>5. \A q, r \in Pages : open'[q].vault = open'[r].vault /\ open'[q].vault # None => q = r
    BY <1>0 DEF Alone
  <2> QED
    BY <2>1, <2>2, <2>3, <2>4, <2>5 DEF Alone
\* The page that has the vault open holds what was written.
<1>9. \A q \in Pages : open'[q].vault = v => open'[q].files = call.snap
  BY <1>0, <1>5 DEF Alone
<1>10. ASSUME NEW g \in Files, g \notin call.snap PROVE ~Lists(v, g)'
  BY <1>4, <1>5, <1>9, <1>10 DEF Lists
<1>11. Apart' /\ Gone'
  <2>1. \A w \in Vaults, g \in Files : <<w, g>> \in removed' =>
          <<w, g>> \in removed \/ ~Lists(w, g)'
    <3> SUFFICES ASSUME NEW w \in Vaults, NEW g \in Files,
                        <<w, g>> \in removed', <<w, g>> \notin removed
                 PROVE  ~Lists(w, g)'
      OBVIOUS
    <3>1. call.op = "remove" /\ w = v /\ g = call.file
      BY <1>2
    <3>2. g \notin call.snap
      BY <1>0, <3>1 DEF Sound
    <3> QED
      BY <1>10, <3>1, <3>2
  <2> QED
    BY <1>0, <1>7, <2>1, ApartKept
<1>12. Whole'
  BY <1>0, <1>7 DEF Whole
<1>13. New'
  <2>1. \A d \in Calls : Adding(d)' => d # c /\ Adding(d) /\ calls'[d] = calls[d]
    BY <1>3 DEF Adding
  <2>2. \A d \in Calls : calls'[d].file \in {calls[d].file, None}
    BY <1>3
  <2> QED
    BY <1>0, <1>7, <2>1, <2>2, NewKept
<1>14. ASSUME ~unread' PROVE Everywhere'
  <2> SUFFICES ASSUME NEW w \in Vaults, NEW f \in Files, <<w, f>> \in filed' \ removing'
               PROVE  /\ f \in index'[w].files
                      /\ \A q \in Pages : open'[q].vault = w => f \in open'[q].files
                      /\ \A d \in Writing(w)' : f \in calls'[d].snap
    BY DEF Everywhere
  <2>1. CASE <<w, f>> \in filed
    <3>1. /\ f \in index[w].files
          /\ \A q \in Pages : open[q].vault = w => f \in open[q].files
          /\ \A d \in Writing(w) : f \in calls[d].snap
      BY <1>0, <1>14, <2>1 DEF Everywhere
    <3>2. w = v => f \in call.snap
      BY <1>5, <3>1
    <3> QED
      BY <1>0, <1>4, <1>6, <3>1, <3>2
  <2>2. CASE <<w, f>> \notin filed
    <3>1. call.op = "add" /\ w = v /\ f = call.file
      BY <1>2, <2>2
    <3>2. f \in call.snap
      BY <1>0, <3>1 DEF Sound
    <3> QED
      BY <1>4, <1>5, <1>9, <3>1, <3>2
  <2> QED
    BY <2>1, <2>2
<1> QED
  BY <1>8, <1>11, <1>12, <1>13, <1>14 DEF CalmInv

\* A call begins: a new file is known to nobody, a listed one to no add.
LEMMA BeginCalm ==
  ASSUME Basics, Basics', Calm, CalmInv, NEW c \in Calls, NEW p \in Pages, NEW f \in Files,
         AddBegin(c, p, f) \/ SaveBegin(c, p, f)
  PROVE  CalmInv'
<1>0. /\ Alone /\ Whole /\ Apart /\ Gone /\ New /\ (~unread => Everywhere)
      /\ UNCHANGED <<index, blobs, open, filed, removing, removed, raced, crossed, unread>>
      /\ calls \in [Calls -> Call]
  BY DEF CalmInv, AddBegin, SaveBegin, Basics, Types
<1>1. /\ \A d \in Calls \ {c} : calls'[d] = calls[d]
      /\ calls'[c].file = f
      /\ \/ AddBegin(c, p, f) /\ calls'[c].op = "add" /\ calls'[c].pc = "blob"
         \/ SaveBegin(c, p, f) /\ calls'[c].op = "save" /\ calls'[c].pc = "encrypt"
  BY <1>0 DEF AddBegin, SaveBegin, Begin, Done
<1>2. /\ Alone'
      /\ \A v \in Vaults, g \in Files : Lists(v, g)' => Lists(v, g)
      /\ Everywhere => Everywhere'
  <2>1. \A d \in Calls : calls'[d].pc \in {"seal", "index"} => d # c /\ calls'[d] = calls[d]
    BY <1>1
  <2> QED
    BY <1>0, <2>1, CopiesKept DEF Alone
<1>3. Apart' /\ Gone' /\ Whole'
  BY <1>0, <1>2, ApartKept DEF Whole
<1>4. CASE AddBegin(c, p, f)
  <2>1. Fresh(f)
    BY <1>4 DEF AddBegin
  <2>2. \A v \in Vaults : ~Lists(v, f) /\ <<v, f>> \notin removing
    BY <2>1 DEF Fresh, Lists, Writing
  <2>3. \A d \in Calls \ {c} : calls[d].file # f
    BY <2>1 DEF Fresh
  <2>4. ASSUME NEW d \in Calls, Adding(d)'
        PROVE  /\ \A v \in Vaults : ~Lists(v, calls[d].file)' /\ <<v, calls'[d].file>> \notin removing'
               /\ \A e \in Calls \ {d} : calls'[e].file # calls'[d].file
               /\ calls'[d].pc = "file" => calls'[d].file \in blobs'[calls'[d].target]
    <3>1. PICK g \in Files : g = calls'[d].file
      BY <2>4 DEF Adding, Basics, Underway, Sound
    <3>2. \A v \in Vaults : ~Lists(v, g) /\ <<v, g>> \notin removing
      <4>1. CASE d = c
        BY <1>1, <2>2, <3>1, <4>1
      <4>2. CASE d # c
        BY <1>0, <1>1, <2>4, <3>1, <4>2 DEF Adding, New
      <4> QED
        BY <4>1, <4>2
    <3>3. \A v \in Vaults : ~Lists(v, g)' /\ <<v, g>> \notin removing'
      BY <1>0, <1>2, <3>2
    <3>4. \A v \in Vaults : ~Lists(v, calls[d].file)'
      BY <3>1, <3>3
    <3>5. \A e \in Calls \ {d} : calls'[e].file # g
      <4>1. CASE d = c
        BY <1>1, <2>3, <3>1, <4>1
      <4>2. CASE d # c
        BY <1>0, <1>1, <2>3, <2>4, <3>1, <4>2 DEF Adding, New
      <4> QED
        BY <4>1, <4>2
    <3>6. calls'[d].pc = "file" => g \in blobs'[calls'[d].target]
      <4>1. CASE d = c
        BY <1>1, <1>4, <2>4, <4>1 DEF Adding
      <4>2. CASE d # c
        BY <1>0, <1>1, <2>4, <3>1, <4>2 DEF Adding, New
      <4> QED
        BY <4>1, <4>2
    <3> QED
      BY <3>1, <3>3, <3>4, <3>5, <3>6
  <2>5. New'
    BY <2>4 DEF New
  <2> QED
    BY <1>0, <1>2, <1>3, <2>5 DEF CalmInv
<1>5. CASE SaveBegin(c, p, f)
  <2>1. f \in open[p].files
    BY <1>5 DEF SaveBegin
  <2>2. open[p].vault \in Vaults
    BY <2>1 DEF Basics, Sessions, Shut
  <2>3. \E v \in Vaults : Lists(v, f)
    BY <2>1, <2>2 DEF Lists
  <2>4. calls'[c].op = "save"
    BY <1>0, <1>5 DEF SaveBegin, Begin, Done
  <2>5. \A d \in Calls : Adding(d)' => d # c /\ Adding(d) /\ calls'[d] = calls[d]
    BY <1>1, <2>4 DEF Adding
  <2>6. \A d \in Calls : \/ calls'[d].file \in {calls[d].file, None}
                         \/ \E v \in Vaults : Lists(v, calls'[d].file)
    BY <1>1, <2>3
  <2>7. New'
    BY <1>0, <1>2, <2>5, <2>6, NewKept
  <2> QED
    BY <1>0, <1>2, <1>3, <2>7 DEF CalmInv
<1> QED
  BY <1>4, <1>5

\* A write of the index begins: what it lists was listed before, but for a new file whose blob
\* is there, and what it drops is being removed.
LEMMA WriteCalm ==
  ASSUME Basics, Calm, CalmInv, Calm', NEW c \in Calls, NEW p \in Pages, NEW call \in Call,
         NEW files \in SUBSET Files, call.page = p, WriteIndex(c, p, call, files),
         open[p] # Shut, calls[c].pc \notin {"seal", "index"},
         UNCHANGED <<index, blobs, filed, removed, unread>>,
         \/ files = open[p].files /\ removing' = removing
            /\ call.file \in {calls[c].file, None}
         \/ \E f \in open[p].files : /\ files = open[p].files \ {f} /\ call.file = f
                                     /\ removing' = removing \cup {<<open[p].vault, f>>}
  PROVE  CalmInv'
<1>0. /\ Alone /\ Whole /\ Apart /\ Gone /\ New /\ (~unread => Everywhere)
      /\ ~raced' /\ removing \subseteq removing' /\ files \subseteq open[p].files
  BY DEF CalmInv, Calm
<1>1. open[p].vault \in Vaults /\ open[p].session \in 1..ops
  BY DEF Basics, Sessions
<1>2. /\ \A d \in Calls \ {c} : calls'[d] = calls[d]
      /\ calls'[c].pc = "seal" /\ calls'[c].file = call.file
  BY <1>1, WriteIndexBasics
<1>3. \A f \in open[p].files : Lists(open[p].vault, f)
  BY DEF Lists
<1>4. \A f \in open[p].files : <<open[p].vault, f>> \in filed \ removing' => f \in files
  OBVIOUS
<1>5. /\ Alone'
      /\ \A v \in Vaults, f \in Files :
           Lists(v, f)' => Lists(v, f) \/ (v = open[p].vault /\ f \in files)
      /\ Everywhere => Everywhere'
  BY <1>0, <1>4, WriteBegins
<1>6. \A v \in Vaults, f \in Files : Lists(v, f)' => Lists(v, f)
  BY <1>0, <1>3, <1>5
<1>7. \A v \in Vaults, f \in Files : <<v, f>> \in removing' => <<v, f>> \in removing \/ Lists(v, f)
  BY <1>3
<1>8. Apart' /\ Gone' /\ Whole'
  BY <1>0, <1>6, <1>7, ApartKept DEF Whole
<1>9. New'
  <2>1. \A d \in Calls : Adding(d)' => d # c /\ Adding(d) /\ calls'[d] = calls[d]
    BY <1>2 DEF Adding
  <2>2. \A d \in Calls : \/ calls'[d].file \in {calls[d].file, None}
                         \/ \E v \in Vaults : Lists(v, calls'[d].file)
    BY <1>1, <1>2, <1>3
  <2> QED
    BY <1>0, <1>6, <1>7, <2>1, <2>2, NewKept
<1> QED
  BY <1>0, <1>5, <1>8, <1>9 DEF CalmInv

LEMMA AddFileCalm ==
  ASSUME Basics, Basics', Calm, CalmInv, Calm', NEW c \in Calls, AddFile(c), ~Return(c)
  PROVE  CalmInv'
<1> DEFINE call == calls[c]
           p == call.page
<1>0. /\ Alone /\ Whole /\ Apart /\ Gone /\ New /\ (~unread => Everywhere) /\ ~raced'
      /\ UNCHANGED <<index, blobs, filed, removing, removed, unread>>
      /\ call \in Call /\ Sound(call) /\ calls \in [Calls -> Call]
      /\ open \in [Pages -> [session : Nat, vault : Vaults \cup {None}, files : SUBSET Files]]
  BY DEF CalmInv, Calm, AddFile, Basics, Types, Underway
<1>1. call.pc = "file" /\ call.op = "add" /\ p \in Pages /\ Adding(c)
  BY <1>0 DEF AddFile, Sound, Adding
<1> PICK f \in Files : f = call.file
  BY <1>0, <1>1 DEF Sound
<1>2. /\ open[p].session = call.session
      /\ WriteIndex(c, p, call, open[p].files \cup {f})
  BY <1>1 DEF AddFile
<1>3. open[p] # Shut /\ open[p].vault = call.target
  BY <1>1, <1>2 DEF Basics, Sessions, Shut
<1>4. open[p].vault \in Vaults /\ open[p].session \in 1..ops
  BY <1>1, <1>3 DEF Basics, Sessions
<1> PICK u \in Vaults : u = open[p].vault
  BY <1>4
<1> PICK files \in SUBSET Files : files = open[p].files \cup {f}
  BY <1>0, <1>1
<1>5. /\ \A d \in Calls \ {c} : calls'[d] = calls[d]
      /\ calls'[c].pc = "seal" /\ calls'[c].file = f
  BY <1>0, <1>1, <1>2, <1>4, WriteIndexBasics
<1>6. /\ Alone'
      /\ \A v \in Vaults, g \in Files : Lists(v, g)' => Lists(v, g) \/ (v = u /\ g \in files)
      /\ Everywhere => Everywhere'
  BY <1>0, <1>1, <1>2, <1>3, WriteBegins
<1>7. \A g \in open[p].files : Lists(u, g)
  BY <1>1 DEF Lists
<1>8. \A v \in Vaults, g \in Files : Lists(v, g)' => Lists(v, g) \/ (v = u /\ g = f)
  BY <1>6, <1>7
<1>9. /\ \A v \in Vaults : ~Lists(v, f) /\ <<v, f>> \notin removing
      /\ \A d \in Calls \ {c} : calls[d].file # f
      /\ f \in blobs[u]
  BY <1>0, <1>1, <1>3 DEF New
<1>10. Apart'
  <2> SUFFICES ASSUME NEW v \in Vaults, NEW w \in Vaults, NEW g \in Files,
                      Lists(w, g)', Lists(v, g)' \/ <<v, g>> \in removing
               PROVE  w = v
    BY <1>0 DEF Apart
  <2>1. CASE g = f
    BY <1>8, <1>9, <2>1
  <2>2. CASE g # f
    BY <1>0, <1>8, <2>2 DEF Apart
  <2> QED
    BY <2>1, <2>2
<1>11. Gone'
  <2> SUFFICES ASSUME NEW v \in Vaults, NEW g \in Files, <<v, g>> \in removed
               PROVE  ~Lists(v, g)'
    BY <1>0 DEF Gone
  <2>1. removed \subseteq removing
    BY DEF Basics, Types
  <2> QED
    BY <1>0, <1>8, <1>9, <2>1 DEF Gone
<1>12. Whole'
  BY <1>0, <1>8, <1>9 DEF Whole
<1>13. New'
  <2> SUFFICES ASSUME NEW d \in Calls, Adding(d)'
               PROVE  /\ \A v \in Vaults : /\ ~Lists(v, calls[d].file)'
                                           /\ <<v, calls'[d].file>> \notin removing'
                      /\ \A e \in Calls \ {d} : calls'[e].file # calls'[d].file
                      /\ calls'[d].pc = "file" => calls'[d].file \in blobs'[calls'[d].target]
    BY DEF New
  <2>1. d # c /\ Adding(d) /\ calls'[d] = calls[d] /\ calls[d].file \in Files
    BY <1>5 DEF Adding, Basics, Underway, Sound
  <2> PICK g \in Files : g = calls[d].file
    BY <2>1
  <2>2. /\ \A v \in Vaults : ~Lists(v, g) /\ <<v, g>> \notin removing
        /\ \A e \in Calls \ {d} : calls[e].file # g
        /\ calls[d].pc = "file" => g \in blobs[calls[d].target]
    BY <1>0, <2>1 DEF New
  <2>3. g # f
    BY <2>1, <2>2
  <2>4. \A v \in Vaults : ~Lists(v, g)'
    BY <1>8, <2>2, <2>3
  <2>5. \A v \in Vaults : ~Lists(v, calls[d].file)'
    BY <2>1, <2>4
  <2>6. \A e \in Calls \ {d} : calls'[e].file # g
    BY <1>5, <2>2, <2>3
  <2> QED
    BY <1>0, <2>1, <2>2, <2>5, <2>6
<1> QED
  BY <1>0, <1>6, <1>10, <1>11, <1>12, <1>13 DEF CalmInv

----------------------------------------------------------------------------
(* The theorems *)

LEMMA IInvNext == IInv /\ [Next]_vars => IInv'
<1> SUFFICES ASSUME IInv, [Next]_vars PROVE IInv'
  OBVIOUS
<1>1. Basics /\ Basics'
  BY BasicsNext DEF IInv
<1> SUFFICES ASSUME Calm' PROVE CalmInv'
  BY <1>1 DEF IInv
<1>2. CASE UNCHANGED vars
  BY <1>2 DEF vars, IInv, Calm, CalmInv, Alone, Whole, Apart, Gone, New, Everywhere, Lists, Writing,
              Adding
<1>3. ASSUME Next PROVE Calm /\ CalmInv
  BY <1>3, CalmStays DEF IInv
<1>4. CASE \E p \in Pages : Lock(p) \/ Reload(p) \/ \E v \in Vaults : Unlock(p, v)
  <2>1. Calm /\ CalmInv
    BY <1>3, <1>4 DEF Next
  <2> QED
    BY <1>1, <1>4, <2>1, ShutCalm, UnlockCalm
<1>5. ASSUME NEW c \in Calls, Step(c) PROVE CalmInv'
  <2>1. Calm /\ CalmInv
    BY <1>3, <1>5 DEF Next
  <2>2. CASE Quiet(c)
    BY <1>1, <2>1, <2>2, QuietCalm
  <2>3. CASE IndexPut(c)
    BY <1>1, <2>1, <2>3, IndexPutCalm
  <2>4. CASE AddFile(c) /\ ~Quiet(c)
    <3>1. ~(Return(c) /\ UNCHANGED <<open, raced>>)
      BY <2>4 DEF Quiet
    <3>2. open[calls[c].page].session = calls[c].session
      BY <2>4, <3>1 DEF AddFile
    <3>3. ~Return(c)
      <4> DEFINE call == calls[c]
      <4>1. call \in Call /\ calls \in [Calls -> Call]
        BY <1>1, <1>5 DEF Basics, Types
      <4>2. PICK v, f : calls' = [calls EXCEPT ![c] = [call EXCEPT !.pc = "seal", !.key = v, !.snap = f]]
        BY <2>4, <3>1 DEF AddFile, WriteIndex
      <4>3. [call EXCEPT !.pc = "seal", !.key = v, !.snap = f].pc = "seal"
        BY <4>1 DEF Call
      <4>4. calls'[c].pc = "seal"
        BY <4>1, <4>2, <4>3
      <4> QED
        BY <4>1, <4>4 DEF Return, Done
    <3> QED
      BY <1>1, <2>1, <2>4, <3>3, AddFileCalm
  <2>5. CASE SaveIndex(c) /\ ~Quiet(c)
    <3> DEFINE call == calls[c]
    <3>1. /\ call \in Call /\ Sound(call) /\ call.pc = "file" /\ call.op = "save"
          /\ ~(Return(c) /\ UNCHANGED <<open, raced>>)
      BY <1>1, <2>5 DEF Quiet, SaveIndex, Basics, Types, Underway
    <3>2. /\ call.page \in Pages /\ open[call.page] # Shut
          /\ WriteIndex(c, call.page, call, open[call.page].files)
          /\ UNCHANGED <<index, blobs, filed, removing, removed, unread>>
      BY <2>5, <3>1 DEF SaveIndex, IsOpen, Sound
    <3>3. open[call.page].files \in SUBSET Files
      BY <1>1, <3>2 DEF Basics, Types
    <3> QED
      BY <1>1, <2>1, <3>1, <3>2, <3>3, WriteCalm
  <2> QED
    BY <1>5, <2>2, <2>3, <2>4, <2>5 DEF Step, Quiet
<1>6. ASSUME NEW c \in Calls, NEW p \in Pages, NEW f \in Files,
             AddBegin(c, p, f) \/ SaveBegin(c, p, f)
      PROVE  CalmInv'
  <2>1. Calm /\ CalmInv
    BY <1>3, <1>6 DEF Next
  <2> QED
    BY <1>1, <1>6, <2>1, BeginCalm
<1>7. ASSUME NEW c \in Calls, NEW p \in Pages,
             Arrange(c, p) \/ \E f \in Files : Remove(c, p, f)
      PROVE  CalmInv'
  <2>1. Calm /\ CalmInv
    BY <1>3, <1>7 DEF Next
  <2>2. open[p].files \in SUBSET Files /\ open[p].session \in Nat
    BY <1>1 DEF Basics, Types
  <2>3. CASE Arrange(c, p)
    <3> DEFINE call == Begin(p, "arrange", None)
    <3>1. call \in Call /\ call.page = p /\ call.file = None
      BY <2>2 DEF Begin, Done, Call
    <3>2. /\ WriteIndex(c, p, call, open[p].files) /\ open[p] # Shut /\ calls[c].pc = "idle"
          /\ UNCHANGED <<index, blobs, filed, removing, removed, unread>>
      BY <2>3 DEF Arrange, IsOpen, Done
    <3> HIDE DEF call
    <3> QED
      BY <1>1, <2>1, <2>2, <3>1, <3>2, WriteCalm
  <2>4. ASSUME NEW f \in Files, Remove(c, p, f) PROVE CalmInv'
    <3> DEFINE call == Begin(p, "remove", f)
    <3>1. call \in Call /\ call.page = p /\ call.file = f
      BY <2>2 DEF Begin, Done, Call
    <3>2. /\ WriteIndex(c, p, call, open[p].files \ {f}) /\ calls[c].pc = "idle"
          /\ f \in open[p].files /\ open[p] # Shut
          /\ removing' = removing \cup {<<open[p].vault, f>>}
          /\ UNCHANGED <<index, blobs, filed, removed, unread>>
      BY <2>4 DEF Remove, Done, Shut
    <3> HIDE DEF call
    <3> QED
      BY <1>1, <2>1, <2>2, <3>1, <3>2, WriteCalm
  <2> QED
    BY <1>7, <2>3, <2>4
<1> QED
  BY <1>2, <1>4, <1>5, <1>6, <1>7 DEF Next

LEMMA IInvInit == Init => IInv
<1> SUFFICES ASSUME Init PROVE IInv
  OBVIOUS
<1>1. /\ index = [v \in Vaults |-> [key |-> v, files |-> {}]] /\ filed = {}
      /\ removing = {} /\ removed = {}
      /\ \A p \in Pages : open[p].vault = None /\ open[p].files = {}
      /\ \A c \in Calls : calls[c].pc = "idle" /\ calls[c].op = "none"
  BY DEF Init, Shut, Done
<1>2. \A v \in Vaults : Writing(v) = {}
  BY <1>1 DEF Writing
<1>3. \A v \in Vaults, f \in Files : ~Lists(v, f)
  BY <1>1, <1>2, BoundsAssumption DEF Lists
<1>4. Alone
  BY <1>1, <1>2 DEF Alone
<1>5. Whole /\ Apart /\ Gone /\ New /\ Everywhere
  BY <1>1, <1>3 DEF Whole, Apart, Gone, New, Everywhere, Adding
<1> QED
  BY <1>4, <1>5, BasicsInit DEF IInv, CalmInv

LEMMA IInvAlways == Spec => []IInv
BY IInvInit, IInvNext, PTL DEF Spec

\* Every blob the stored index names is in the folder: blobs are written before they are listed
\* and deleted after, and whatever fails or is closed in between leaves it so (vault.js).
THEOREM BlobsAreThere == Spec => []IndexNamesBlobs
<1>1. IInv => IndexNamesBlobs
  BY DEF IInv, Calm, CalmInv, Alone, Whole, Lists, IndexNamesBlobs, Basics, Types
<1> QED
  BY <1>1, IInvAlways, PTL

\* A file that was added is in the stored index until somebody removes it (vault.js).
THEOREM AddedStays == Spec => []FiledStaysFiled
<1>1. IInv => FiledStaysFiled
  <2> SUFFICES ASSUME IInv, Calm, ~unread, NEW e \in filed \ removing
               PROVE  e[2] \in index[e[1]].files
    BY Zenon DEF FiledStaysFiled, Calm
  <2>1. PICK v \in Vaults, f \in Files : e = <<v, f>>
    BY DEF IInv, Basics, Types
  <2> QED
    BY <2>1 DEF IInv, CalmInv, Everywhere
<1> QED
  BY <1>1, IInvAlways, PTL

\* A file whose removal was stored is in no stored index again (vault.js).
THEOREM RemovedIsGone == Spec => []RemovedStaysGone
<1>1. IInv => RemovedStaysGone
  <2> SUFFICES ASSUME IInv, Calm, NEW e \in removed PROVE e[2] \notin index[e[1]].files
    BY Zenon DEF RemovedStaysGone, Calm
  <2>1. PICK v \in Vaults, f \in Files : e = <<v, f>>
    BY DEF IInv, Basics, Types
  <2> QED
    BY <2>1 DEF IInv, CalmInv, Gone, Lists
<1> QED
  BY <1>1, IInvAlways, PTL

=============================================================================
