----------------------------- MODULE BucketMove -----------------------------
(***************************************************************************)
(* Moving, renaming, copying and deleting in connected buckets and between *)
(* them and the drive (internal/handler/mountfs.go, mounthttp.go), over    *)
(* the client of internal/s3.                                              *)
(*                                                                         *)
(* A bucket has no folders and no rename: a move lists the keys under a    *)
(* prefix, copies them one by one, lists again and deletes one by one, and *)
(* nothing keeps others out in between.  A step is one request to the      *)
(* bucket, served and answered; a request that failed has used up its      *)
(* retries, and one whose reply was lost is sent again.                    *)
(*                                                                         *)
(* A key is a place in a folder: 0 is an object of the folder's own name,  *)
(* n the n-th name an upload tries.  Contents are numbered as they are     *)
(* written.  Markers of empty folders are left out.                        *)
(***************************************************************************)
EXTENDS Serving, Integers, FiniteSets, Functions

CONSTANTS
  Folder,        \* folders of buckets and of the drive, side by side
  Drive,         \* those of them that are on the drive
  Names,         \* names an upload tries before it gives up
  MaxS3Objects,  \* the most keys a listing returns
  MaxWrites      \* bound: contents written after the start

ASSUME BucketAssumption ==
  /\ Names \in Nat \ {0, 1} /\ MaxS3Objects \in Nat \ {0}
  /\ MaxWrites \in Nat /\ Drive \subseteq Folder
  /\ None \notin Folder /\ None \notin 1 .. MaxWrites + 2

Key == Folder \X (0 .. Names)

VARIABLES
  store,    \* key -> the content there, or None
  made,     \* contents written so far
  moving,   \* handler -> what the goroutine is doing
  wanted,   \* observer: contents that are acknowledged and that nobody deleted or replaced
  exposed,  \* observer: contents in the way of two requests at once, or of what the code does not check
  whole     \* observer: whether each request that met no other, nor a listing cut short, did all
            \* of its work before it said so

bucketVars == <<store, made, moving, wanted, exposed, whole>>

NoMove == [op |-> "none", pc |-> "idle", from |-> None, to |-> None, name |-> 0,
           todo |-> {}, began |-> << >>, met |-> FALSE]

\* A folder of two files, or, in a bucket, a file and a folder of one name; the others are empty.
BucketInit ==
  /\ \E f \in Folder, n \in {0, 1} :
       /\ n = 0 => f \notin Drive
       /\ store = [k \in Key |-> IF k = <<f, n>> THEN 1 ELSE IF k = <<f, n + 1>> THEN 2 ELSE None]
  /\ made = 2 /\ wanted = {1, 2} /\ exposed = {} /\ whole = TRUE
  /\ moving = [h \in Handler |-> NoMove]

----------------------------------------------------------------------------
(* Keys *)

Self(f) == <<f, 0>>

\* The keys that begin with the folder's prefix.
Prefixed(f) == {k \in Key : store[k] # None /\ k[1] = f /\ k # Self(f)}

\* statS3, os.Stat: an object of that name, or a folder.
Exists(f) == store[Self(f)] # None \/ Prefixed(f) # {}

\* Seeded fault (see the README): every key is taken for a file's own.
MappedToName(k, to) == Self(to)
\* forEachMappedKey: where a key of the one folder goes in the other.
Mapped(k, to) == <<to, k[2]>>

Contents(F) == {store[k] : k \in {j \in Key : j[1] \in F}} \ {None}

\* Others at work where F is.
Beside(h, F) == {g \in Handler \ {h} : {moving[g].from, moving[g].to} \cap (F \ {None}) # {}}
Touched(h, F) == UNION {{moving[g].from, moving[g].to} : g \in Beside(h, F)}

\* A request of its own begins, or writes at once (r = NoMove): it and those beside it have met.
Meet(h, F, r) ==
  moving' = [g \in Handler |-> IF g = h THEN [r EXCEPT !.met = r # NoMove /\ Beside(h, F) # {}]
                               ELSE [moving[g] EXCEPT !.met = @ \/ g \in Beside(h, F)]]

\* What a request on the folder is about: the file of that name, or else what is in it.
Due(f) ==
  [n \in {m \in 0 .. Names : store[<<f, m>>] # None /\ (m > 0 => store[Self(f)] = None)} |-> store[<<f, n>>]]

Begin(h, op, pc, from, to) ==
  /\ moving[h].pc = "idle" /\ Spend
  /\ Meet(h, {from, to},
          [NoMove EXCEPT !.op = op, !.pc = pc, !.from = from, !.to = to,
             !.began = IF from = None THEN << >> ELSE Due(from)])
  /\ exposed' = exposed \cup (IF Beside(h, {from, to}) = {} THEN {}
                              ELSE Contents({from, to} \cup Touched(h, {from, to})))

Goto(h, pc, todo) == moving' = [moving EXCEPT ![h].pc = pc, ![h].todo = todo]
Fail(h) == moving' = [moving EXCEPT ![h] = NoMove]

\* What the request was to bring about.
Done(h) ==
  \A n \in DOMAIN moving[h].began :
    /\ moving[h].to # None => store'[<<moving[h].to, n>>] = moving[h].began[n]
    /\ moving[h].op # "copy" => store'[<<moving[h].from, n>>] = None
Succeed(h) == Fail(h) /\ whole' = (whole /\ (moving[h].met \/ Done(h)))

----------------------------------------------------------------------------
(* moveAcross, renameS3, copyAcross, deleteS3 *)

\* A folder is not inside another here; copyAcross refuses to copy into itself, the page to move there.
Across(f, t) == f # t /\ {f, t} \ Drive # {}

MoveAcross(h, f, t) == Across(f, t) /\ Begin(h, "move", "stat", f, t)
CopyAcross(h, f, t) == Across(f, t) /\ Begin(h, "copy", "stat", f, t)
DeleteS3(h, f) == f \notin Drive /\ Begin(h, "delete", "head", f, None)

Ask(h) ==
  /\ \E f, t \in Folder : MoveAcross(h, f, t) \/ CopyAcross(h, f, t) \/ DeleteS3(h, f)
  /\ UNCHANGED <<store, made, wanted, whole>>

Source(h) == IF moving[h].from \in Drive THEN "walk" ELSE "head"

\* A destination that exists is refused.  An error of any kind is taken for "does not exist".
Stat(h) ==
  /\ moving[h].pc = "stat"
  /\ \/ Exists(moving[h].to) /\ Fail(h) /\ UNCHANGED <<left, exposed>>
     \/ ~Exists(moving[h].to) /\ Goto(h, Source(h), {}) /\ UNCHANGED <<left, exposed>>
     \/ /\ moving[h].to \notin Drive /\ Spend /\ Goto(h, Source(h), {})
        /\ exposed' = exposed \cup Contents({moving[h].to})
  /\ UNCHANGED <<store, made, wanted, whole>>

\* s3Keys: the object of that name alone, or else the keys of the folder, in two requests.  Asked
\* by the copy and asked again by the delete.
Following(pc) == IF pc = "head" THEN "list" ELSE "list again"
Then(h) == IF moving[h].op # "delete" /\ moving[h].pc \in {"head", "list"} THEN "copy" ELSE "delete"

HeadKey(h) ==
  /\ moving[h].pc \in {"head", "head again"}
  /\ IF store[Self(moving[h].from)] # None THEN Goto(h, Then(h), {Self(moving[h].from)})
     ELSE Goto(h, Following(moving[h].pc), {})
  /\ UNCHANGED <<store, made, left, wanted, exposed, whole>>

\* The first MaxS3Objects of them; the rest is not asked for.
Listed(f, keys) ==
  /\ keys \subseteq Prefixed(f)
  /\ IF Cardinality(Prefixed(f)) <= MaxS3Objects THEN keys = Prefixed(f)
     ELSE /\ Cardinality(keys) = MaxS3Objects
          /\ \A k \in keys, j \in Prefixed(f) \ keys : k[1] = j[1] => k[2] < j[2]

List(h) ==
  /\ moving[h].pc \in {"list", "list again"}
  /\ \E keys \in SUBSET Prefixed(moving[h].from) :
       /\ Listed(moving[h].from, keys)
       /\ IF keys = {} /\ Then(h) = "copy" THEN Fail(h)
          ELSE moving' = [moving EXCEPT ![h].pc = Then(h), ![h].todo = keys,
                                        ![h].met = @ \/ keys # Prefixed(moving[h].from)]
  /\ UNCHANGED <<store, made, left, wanted, exposed, whole>>

\* localToS3: the file of that name, or the folder's files.
Walk(h) ==
  /\ moving[h].pc = "walk"
  /\ IF ~Exists(moving[h].from) THEN Fail(h)
     ELSE Goto(h, "copy", {k \in Key : k[1] = moving[h].from /\ store[k] # None})
  /\ UNCHANGED <<store, made, left, wanted, exposed, whole>>

\* One key is copied; a key that has gone since the listing fails the request.  The lost reply of a
\* copy sends it again.
CopyKey(h, k) ==
  /\ moving[h].pc = "copy" /\ k \in moving[h].todo /\ store[k] # None
  /\ store' = [store EXCEPT ![Mapped(k, moving[h].to)] = store[k]]
  /\ \/ Goto(h, "copy", moving[h].todo \ {k}) /\ UNCHANGED left
     \/ Spend /\ UNCHANGED moving
  /\ UNCHANGED <<made, wanted, exposed, whole>>

\* Seeded fault: an error of a copy is passed over.
CopyPassedOver(h, k) ==
  /\ moving[h].pc = "copy" /\ k \in moving[h].todo
  /\ Spend /\ Goto(h, "copy", moving[h].todo \ {k})
  /\ UNCHANGED <<store, made, wanted, exposed, whole>>

\* A copy fails, and the request with it; a download that broke off removes what it had.
CopyFails(h, k) ==
  /\ moving[h].pc = "copy" /\ k \in moving[h].todo
  /\ \/ store[k] = None /\ UNCHANGED <<store, left>>
     \/ Spend /\ UNCHANGED store
     \/ Spend /\ moving[h].to \in Drive /\ store' = [store EXCEPT ![Mapped(k, moving[h].to)] = None]
  /\ Fail(h)
  /\ UNCHANGED <<made, wanted, exposed, whole>>

Copied(h) ==
  /\ moving[h].pc = "copy" /\ moving[h].todo = {}
  /\ UNCHANGED <<store, made, left, wanted, exposed>>
  /\ \/ moving[h].op = "copy" /\ Succeed(h)
     \/ /\ moving[h].op = "move" /\ UNCHANGED whole
        /\ Goto(h, IF moving[h].from \in Drive THEN "remove all" ELSE "head again", {})

\* What a user deletes is no longer wanted; a move means to keep what it deletes.
Unwanted(h, keys) == IF moving[h].op = "delete" THEN {store[k] : k \in keys} ELSE {}

DeleteKey(h, k) ==
  /\ moving[h].pc = "delete" /\ k \in moving[h].todo
  /\ store' = [store EXCEPT ![k] = None]
  /\ wanted' = wanted \ Unwanted(h, {k})
  /\ \/ Goto(h, "delete", moving[h].todo \ {k}) /\ UNCHANGED left
     \/ Spend /\ UNCHANGED moving
  /\ UNCHANGED <<made, exposed, whole>>

Deleted(h) ==
  /\ moving[h].pc = "delete" /\ moving[h].todo = {}
  /\ UNCHANGED <<store, made, left, wanted, exposed>>
  /\ Succeed(h)

\* os.RemoveAll takes whatever is there by then.
RemoveAll(h) ==
  /\ moving[h].pc = "remove all"
  /\ store' = [k \in Key |-> IF k[1] = moving[h].from THEN None ELSE store[k]]
  /\ Succeed(h)
  /\ UNCHANGED <<made, left, wanted, exposed>>

\* Any other request of one of these fails: it ends where it is.
RequestFails(h) ==
  /\ moving[h].pc \in {"head", "list", "head again", "list again", "delete"} /\ Spend /\ Fail(h)
  /\ UNCHANGED <<store, made, wanted, exposed, whole>>

----------------------------------------------------------------------------
(* Writers *)

\* A content is written; if others are at work there it is exposed.
Put(h, k, F) ==
  /\ made < MaxWrites + 2 /\ made' = made + 1
  /\ store' = [store EXCEPT ![k] = made + 1]
  /\ wanted' = wanted \cup {made + 1}
  /\ exposed' = exposed \cup (IF Beside(h, F) = {} THEN {} ELSE {made + 1})

\* uploadPartS3: uniqueS3Key asks for one name after the other, then the object is put there.
UploadBegin(h, f) ==
  /\ f \notin Drive /\ Begin(h, "upload", "probe", None, f)
  /\ UNCHANGED <<store, made, wanted, whole>>

Probe(h) ==
  /\ moving[h].pc = "probe" /\ moving[h].name < Names
  /\ moving' = [moving EXCEPT ![h].name = @ + 1,
                      ![h].pc = IF store[<<moving[h].to, moving[h].name + 1>>] = None THEN "put" ELSE "probe"]
  /\ UNCHANGED <<store, made, left, wanted, exposed, whole>>

UploadPut(h) ==
  /\ moving[h].pc = "put"
  /\ Put(h, <<moving[h].to, moving[h].name>>, {moving[h].to}) /\ Fail(h)
  /\ UNCHANGED <<left, whole>>

UploadFails(h) ==
  /\ moving[h].pc \in {"probe", "put"}
  /\ (moving[h].pc = "probe" /\ moving[h].name = Names /\ UNCHANGED left) \/ Spend
  /\ Fail(h)
  /\ UNCHANGED <<store, made, wanted, exposed, whole>>

\* createUnique: on the drive the free name is taken as it is found.
UploadToDrive(h, f, n) ==
  /\ moving[h].pc = "idle" /\ f \in Drive /\ store[Self(f)] = None
  /\ store[<<f, n>>] = None /\ \A m \in 1 .. n - 1 : store[<<f, m>>] # None
  /\ Put(h, <<f, n>>, {f}) /\ Meet(h, {f}, NoMove)
  /\ UNCHANGED <<left, whole>>

\* writeS3: the editor replaces a content.
WriteS3(h, f, n) ==
  /\ moving[h].pc = "idle" /\ f \notin Drive /\ store[<<f, n>>] # None
  /\ made < MaxWrites + 2 /\ made' = made + 1
  /\ store' = [store EXCEPT ![<<f, n>>] = made + 1]
  /\ wanted' = (wanted \ {store[<<f, n>>]}) \cup {made + 1}
  /\ exposed' = exposed \cup (IF Beside(h, {f}) = {} THEN {} ELSE {made + 1})
  /\ Meet(h, {f}, NoMove)
  /\ UNCHANGED <<left, whole>>

\* The server stops and starts: requests end where they are.
BucketRestart ==
  /\ Spend /\ moving' = [h \in Handler |-> NoMove]
  /\ UNCHANGED <<store, made, wanted, exposed, whole>>

----------------------------------------------------------------------------
BucketNext ==
  \/ BucketRestart
  \/ \E h \in Handler :
       \/ Ask(h) \/ Stat(h) \/ HeadKey(h) \/ List(h) \/ Walk(h) \/ Copied(h)
       \/ Deleted(h) \/ RemoveAll(h) \/ RequestFails(h)
       \/ \E k \in Key : CopyKey(h, k) \/ CopyFails(h, k) \/ DeleteKey(h, k)
       \/ Probe(h) \/ UploadPut(h) \/ UploadFails(h)
       \/ \E f \in Folder : UploadBegin(h, f) \/ \E n \in 1 .. Names : UploadToDrive(h, f, n) \/ WriteS3(h, f, n)

----------------------------------------------------------------------------
\* Nothing is lost: a content that was acknowledged, and that nobody deleted or replaced, is somewhere,
\* at whichever step a move stops for a failed request or a restart, and however often a request is
\* sent.  Excepted are contents exposed to a second request, or to a stat whose error was not looked at.
NothingLost == wanted \ exposed \subseteq Range(store)

\* A request that met no other and says it is done has moved, copied or deleted all it was to: short
\* of a folder with more keys than a listing returns, of which only the first are (MaxS3Objects).
FinishedIsWhole == whole
==============================================================================
