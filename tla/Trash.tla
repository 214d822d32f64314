------------------------------- MODULE Trash -------------------------------
(***************************************************************************)
(* The trash of the local drive: deleting, restoring, undoing, replacing   *)
(* edits and the sweep of old entries (internal/handler/trash.go and the   *)
(* handlers of files.go and resize.go that meet it), with the renames,     *)
(* moves and uploads that can run beside them.                             *)
(*                                                                         *)
(* One folder of the drive and the trash folder.  Deletes, restores and    *)
(* the sweep hold trashMu; renames, moves, uploads and permanent deletes   *)
(* do not, so a step below is one system call or the calls between which   *)
(* nobody can tell the difference.  A file is an identity; its age is kept *)
(* only as older or younger than the retention.                            *)
(***************************************************************************)
EXTENDS Integers, FiniteSetsExt, Sequences

CONSTANTS
  Bases,       \* names users give
  MaxSuffix,   \* bound: the largest n of a " (n)" suffix
  Files,       \* identities of files, reused once nothing refers to them
  Handlers,    \* goroutines serving requests
  None,        \* no file, no row
  MaxOps,      \* bound: requests
  MaxFaults    \* bound: restarts of the server and failed accesses to the index

ASSUME BoundsAssumption ==
  /\ MaxSuffix \in Nat \ {0} /\ MaxOps \in Nat /\ MaxFaults \in Nat
  /\ "sweep" \notin Handlers /\ None \notin Files \cup Handlers \cup {"sweep"}
  /\ \E g \in [Bases -> Files] : \A a, b \in Bases : g[a] = g[b] => a = b

VARIABLES
  at,         \* path -> the file there, or None
  info,       \* file -> what it is, its mtime, and its history
  rows,       \* the index: name in the trash -> where it came from, or None
  lock,       \* trashMu: who holds it
  hs,         \* handler -> what the goroutine is doing
  sweep,      \* the sweep: nothing, or what its ReadDir saw
  offer,      \* the last undo offered to the user: the name and the file deleted
  ops,        \* requests so far
  faults,     \* restarts and failures so far
  unindexed,  \* observer: files in the trash that have no row of their own
  raced,      \* observer: a path, or its file's mtime, changed between a handler's look at it
              \* and its rename
  early,      \* observer: whether the sweep erased a file before its time
  wrong       \* observer: an undo brought back another file than was deleted

vars == <<at, info, rows, lock, hs, sweep, offer, ops, faults, unindexed, raced, early, wrong>>
observers == <<raced, early, wrong>>

----------------------------------------------------------------------------
(* Names and paths.  A taken name gets a suffix: "x.txt" becomes "x (1).txt", and that one,  *)
(* taken again, "x (1) (1).txt"; "x (1) (2).txt" needs more requests than a run makes.       *)

Given == {<<b>> : b \in Bases}
Name == Given \cup {<<b, i>> : b \in Bases, i \in 1..MaxSuffix}
          \cup {<<b, i, 1>> : b \in Bases, i \in 1..MaxSuffix}
Path == {"drive", "trash"} \X Name
Drive(n) == <<"drive", n>>
Bin(n) == <<"trash", n>>

Try(n, i) == IF i = 0 THEN n ELSE Append(n, i)

\* Seeded fault (see the README): the name is taken as it is.
FirstFreeUnchecked(d, n) == n

\* trashUniqueName, createUnique: the first of n, "n (1)", "n (2)", ... that O_EXCL can create;
\* a bound lets a request wait until there is one.
Untaken(d, n) == {i \in 0..MaxSuffix : Try(n, i) \in Name /\ at[<<d, Try(n, i)>>] = None}
FirstFree(d, n) == Try(n, Min(Untaken(d, n)))

\* kind: a user's file, an O_EXCL placeholder, or the output of an edit not yet in place;
\* "clobbered" is a user's file that an edit of another file was renamed onto.
\* trashed: how long ago the file was moved to the trash; origin and was: its path and mtime then.
Age == {"new", "old"}
Row == [from : Path, at : Age, mod : Age]
ASSUME RowAssumption == None \notin Row
Unused == [kind |-> "unused", mtime |-> "new", trashed |-> "no", origin |-> None, was |-> "new"]

\* src, dst, out: the paths a request works on.  file: what its Lstat saw, then what it moved.
\* hold: its placeholder.  mod: ModTime of its Lstat.  temp: an edit's output.
\* want: the file the user means to bring back.
Idle == [op |-> "none", pc |-> "idle", src |-> None, dst |-> None, out |-> None,
         file |-> None, mod |-> "new", hold |-> None, temp |-> None, want |-> None]

\* Seen by the sweep: the entries that are due and the names that are there.
NoSweep == [pc |-> "idle", due |-> {}, present |-> {}]
NoOffer == [path |-> None, file |-> None]

\* A new file is any that nothing refers to any more.
FreeFiles ==
  {f \in Files : /\ info[f].kind = "unused" /\ offer.file # f
                 /\ \A h \in Handlers : f \notin {hs[h].file, hs[h].hold, hs[h].want}}
Fresh == CHOOSE f \in FreeFiles : TRUE

Init ==
  /\ LET first == CHOOSE g \in [Bases -> Files] : \A a, b \in Bases : g[a] = g[b] => a = b
     IN
       /\ at = [p \in Path |-> IF p[1] = "drive" /\ Len(p[2]) = 1 THEN first[p[2][1]] ELSE None]
       /\ info = [f \in Files |-> IF \E b \in Bases : first[b] = f
                                  THEN [Unused EXCEPT !.kind = "file", !.mtime = "old"]
                                  ELSE Unused]
  /\ rows = [n \in Name |-> None]
  /\ lock = None
  /\ hs = [h \in Handlers |-> Idle]
  /\ sweep = NoSweep
  /\ offer = NoOffer
  /\ ops = 0
  /\ faults = [restarts |-> 0, errors |-> 0]
  /\ unindexed = {}
  /\ raced = FALSE
  /\ early = {}
  /\ wrong = FALSE

----------------------------------------------------------------------------

\* A goroutine starts on a request.  Goroutines are interchangeable.
Begin(h, request) ==
  /\ hs[h].pc = "idle"
  /\ h = CHOOSE g \in Handlers : hs[g].pc = "idle"
  /\ ops < MaxOps /\ ops' = ops + 1
  /\ hs' = [hs EXCEPT ![h] = request]

Goto(h, where) == hs' = [hs EXCEPT ![h].pc = where]
Return(h) == hs' = [hs EXCEPT ![h] = Idle]
Fault(kind) ==
  /\ faults.restarts + faults.errors < MaxFaults
  /\ faults' = [faults EXCEPT ![kind] = @ + 1]

\* trashMu
Take(who) == lock = None /\ lock' = who
Release == lock' = None

\* info once f is gone from the disk on purpose, and once something is renamed onto it: a
\* placeholder is made for that; a user's file is lost.
Removed(f) == IF f = None THEN info ELSE [info EXCEPT ![f] = Unused]
Covered(f) == IF f # None /\ info[f].kind = "empty" THEN Removed(f) ELSE info

\* The O_EXCL placeholder.
Placeholder(p) ==
  /\ FreeFiles # {}
  /\ at' = [at EXCEPT ![p] = Fresh]
  /\ info' = [info EXCEPT ![Fresh] = [Unused EXCEPT !.kind = "empty"]]

----------------------------------------------------------------------------
(* deleteHandler and commitEdit, by way of moveToTrash *)

\* Lstat.
DeleteBegin(h, n) ==
  LET f == at[Drive(n)]
  IN /\ f # None
     /\ Begin(h, [Idle EXCEPT !.op = "delete", !.pc = "lock", !.src = Drive(n),
                              !.file = f, !.mod = info[f].mtime])
     /\ UNCHANGED <<at, info, rows, lock, sweep, offer, faults, unindexed, observers>>

\* A replacing edit has written its output and goes on to moveToTrash: Lstat.  The output may
\* have another extension, and so another name, than the original.
EditBegin(h, n, m) ==
  LET f == at[Drive(n)]
  IN /\ f # None /\ info[f].kind = "file" /\ FreeFiles # {}
     /\ Begin(h, [Idle EXCEPT !.op = "edit", !.pc = "lock", !.src = Drive(n), !.out = Drive(m),
                              !.file = f, !.mod = info[f].mtime, !.temp = Fresh])
     /\ info' = [info EXCEPT ![Fresh] = [Unused EXCEPT !.kind = "output"]]
     /\ UNCHANGED <<at, rows, lock, sweep, offer, faults, unindexed, observers>>

\* trashMu and a name in the trash.
Reserve(h) ==
  /\ hs[h].op \in {"delete", "edit"} /\ hs[h].pc = "lock"
  /\ Take(h) /\ Untaken("trash", hs[h].src[2]) # {}
  /\ LET dst == Bin(FirstFree("trash", hs[h].src[2]))
     IN /\ Placeholder(dst)
        /\ hs' = [hs EXCEPT ![h].pc = "move", ![h].dst = dst, ![h].hold = Fresh]
  /\ UNCHANGED <<rows, sweep, offer, ops, faults, unindexed, observers>>

\* Rename into the trash.
MoveIn(h) ==
  LET r == hs[h]
      f == at[r.src]
  IN /\ r.op \in {"delete", "edit"} /\ r.pc = "move" /\ f # None
     /\ at' = [at EXCEPT ![r.src] = None, ![r.dst] = f]
     /\ info' = [Covered(at[r.dst]) EXCEPT ![f].trashed = "new", ![f].origin = r.src,
                                           ![f].was = info[f].mtime]
     /\ hs' = [hs EXCEPT ![h].pc = "stamp", ![h].file = f]
     /\ unindexed' = unindexed \cup {f}
     /\ raced' = (raced \/ f # r.file \/ info[f].mtime # r.mod \/ at[r.dst] # r.hold)
     /\ UNCHANGED <<rows, lock, sweep, offer, ops, faults, early, wrong>>

\* The file has gone since: whatever is at the reserved name is removed.
MoveInFails(h) ==
  LET r == hs[h]
      g == at[r.dst]
  IN /\ r.op \in {"delete", "edit"} /\ r.pc = "move" /\ at[r.src] = None
     /\ at' = [at EXCEPT ![r.dst] = None]
     /\ info' = [f \in Files |-> IF f = r.temp \/ (f = g /\ info[g].kind = "empty") THEN Unused
                                 ELSE info[f]]
     /\ raced' = (raced \/ g # r.hold)
     /\ Release /\ Return(h)
     /\ UNCHANGED <<rows, sweep, offer, ops, faults, unindexed, early, wrong>>

\* Chtimes: the deletion time rides on the mtime.
Stamp(h) ==
  LET f == at[hs[h].dst]
  IN /\ hs[h].pc = "stamp"
     /\ info' = IF f = None THEN info ELSE [info EXCEPT ![f].mtime = "new"]
     /\ Goto(h, "index")
     /\ UNCHANGED <<at, rows, lock, sweep, offer, ops, faults, unindexed, observers>>

\* What is left of a request once its file is in the trash: an edit's output lands, and a
\* page that deleted offers to undo it.
Trashed(h) ==
  IF hs[h].op = "edit" THEN Goto(h, "land") /\ UNCHANGED offer
  ELSE Return(h) /\ offer' = [path |-> Bin(hs[h].src[2]), file |-> hs[h].file]

\* Seeded fault: the row says the file was deleted when it was last modified.
IndexModTime(h) ==
  LET r == hs[h]
  IN /\ r.pc = "index"
     /\ rows' = [rows EXCEPT ![r.dst[2]] = [from |-> r.src, at |-> r.mod, mod |-> r.mod]]
     /\ unindexed' = IF at[r.dst] = r.file THEN unindexed \ {r.file} ELSE unindexed
     /\ Release /\ Trashed(h)
     /\ UNCHANGED <<at, info, sweep, ops, faults, observers>>

\* Seeded fault: the row is filed under the name the file had.
IndexOwnName(h) ==
  LET r == hs[h]
  IN /\ r.pc = "index"
     /\ rows' = [rows EXCEPT ![r.src[2]] = [from |-> r.src, at |-> "new", mod |-> r.mod]]
     /\ unindexed' = IF at[r.dst] = r.file THEN unindexed \ {r.file} ELSE unindexed
     /\ Release /\ Trashed(h)
     /\ UNCHANGED <<at, info, sweep, ops, faults, observers>>

\* The row is written under the name in the trash.
Index(h) ==
  LET r == hs[h]
  IN /\ r.pc = "index"
     /\ rows' = [rows EXCEPT ![r.dst[2]] = [from |-> r.src, at |-> "new", mod |-> r.mod]]
     /\ unindexed' = IF at[r.dst] = r.file THEN unindexed \ {r.file} ELSE unindexed
     /\ Release /\ Trashed(h)
     /\ UNCHANGED <<at, info, sweep, ops, faults, observers>>

\* The index cannot be read or written: the request fails, the file stays in the trash.
IndexFails(h) ==
  /\ hs[h].pc = "index"
  /\ Fault("errors")
  /\ info' = Removed(hs[h].temp)
  /\ Release /\ Return(h)
  /\ UNCHANGED <<at, rows, sweep, offer, ops, unindexed, observers>>

\* commitEdit's last Rename: the output takes the original's place, or its name with another
\* extension, whatever is there.  The edit's handler then gives it the original's mtime.
Land(h) ==
  LET r == hs[h]
      g == at[r.out]
  IN /\ r.pc = "land"
     /\ at' = [at EXCEPT ![r.out] = r.temp]
     /\ info' = [f \in Files |->
                   IF f = r.temp THEN [Unused EXCEPT !.kind = "file", !.mtime = r.mod]
                   ELSE IF f # g THEN info[f]
                   ELSE IF info[g].kind = "empty" THEN Unused
                   ELSE IF r.out # r.src THEN [info[g] EXCEPT !.kind = "clobbered"]
                   ELSE info[g]]
     /\ raced' = (raced \/ (g # None /\ r.out = r.src))
     /\ Return(h)
     /\ UNCHANGED <<rows, lock, sweep, offer, ops, faults, unindexed, early, wrong>>

----------------------------------------------------------------------------
(* trashRestoreHandler *)

\* Lstat of the trash's entry.  want is what an undo means to bring back.
RestoreBegin(h, p, want) ==
  /\ at[p] # None
  /\ Begin(h, [Idle EXCEPT !.op = "restore", !.pc = "lock", !.src = p, !.want = want])
  /\ UNCHANGED <<at, info, rows, lock, sweep, faults, unindexed, observers>>

Restore(h, n) == RestoreBegin(h, Bin(n), None) /\ UNCHANGED offer

\* offerUndoDelete: the page asks for the name of the file it deleted.
Undo(h) ==
  /\ offer # NoOffer
  /\ RestoreBegin(h, offer.path, offer.file)
  /\ offer' = NoOffer

\* 409: no row says where the file came from.
RestoreRefused(h) ==
  /\ hs[h].op = "restore" /\ hs[h].pc = "lock"
  /\ lock = None /\ rows[hs[h].src[2]] = None
  /\ Return(h)
  /\ UNCHANGED <<at, info, rows, lock, sweep, offer, ops, faults, unindexed, observers>>

RestoreReserve(h) ==
  LET row == rows[hs[h].src[2]]
  IN /\ hs[h].op = "restore" /\ hs[h].pc = "lock"
     /\ Take(h) /\ row # None /\ Untaken("drive", row.from[2]) # {}
     /\ LET dst == Drive(FirstFree("drive", row.from[2]))
        IN /\ Placeholder(dst)
           /\ hs' = [hs EXCEPT ![h].pc = "move", ![h].dst = dst, ![h].hold = Fresh]
     /\ UNCHANGED <<rows, sweep, offer, ops, faults, unindexed, observers>>

\* Rename out of the trash and Chtimes back to the recorded mtime.
RestoreMove(h) ==
  LET r == hs[h]
      f == at[r.src]
  IN /\ r.op = "restore" /\ r.pc = "move" /\ f # None
     /\ at' = [at EXCEPT ![r.src] = None, ![r.dst] = f]
     /\ info' = [Covered(at[r.dst]) EXCEPT
                   ![f] = [Unused EXCEPT !.kind = info[f].kind, !.mtime = rows[r.src[2]].mod]]
     /\ Goto(h, "clear")
     /\ unindexed' = unindexed \ {f}
     /\ raced' = (raced \/ at[r.dst] # r.hold)
     /\ wrong' = (wrong \/ r.want \notin {None, f})
     /\ UNCHANGED <<rows, lock, sweep, offer, ops, faults, early>>

\* The entry has gone since: whatever is at the reserved name is removed.
RestoreMoveFails(h) ==
  LET r == hs[h]
      g == at[r.dst]
  IN /\ r.op = "restore" /\ r.pc = "move" /\ at[r.src] = None
     /\ at' = [at EXCEPT ![r.dst] = None]
     /\ info' = Covered(g)
     /\ raced' = (raced \/ g # r.hold)
     /\ Release /\ Return(h)
     /\ UNCHANGED <<rows, sweep, offer, ops, faults, unindexed, early, wrong>>

\* The row goes; an index that cannot be written keeps it, and nobody is told.
Clear(h) ==
  /\ hs[h].pc = "clear"
  /\ \/ rows' = [rows EXCEPT ![hs[h].src[2]] = None] /\ UNCHANGED faults
     \/ Fault("errors") /\ UNCHANGED rows
  /\ Release /\ Return(h)
  /\ UNCHANGED <<at, info, sweep, offer, ops, unindexed, observers>>

----------------------------------------------------------------------------
(* Handlers that do not know of trashMu *)

\* renameHandler and moveHandler: the Stat that finds the new path free.  A rename stays in
\* its folder, and nothing is moved into the trash.
RenameBegin(h, p, q) ==
  /\ at[p] # None /\ at[q] = None
  /\ q[1] \in {p[1], "drive"}
  /\ Begin(h, [Idle EXCEPT !.op = "rename", !.pc = "move", !.src = p, !.dst = q])
  /\ UNCHANGED <<at, info, rows, lock, sweep, offer, faults, unindexed, observers>>

\* Their Rename, which replaces what has come to the new path since.
RenameMove(h) ==
  LET r == hs[h]
      f == at[r.src]
  IN /\ r.op = "rename" /\ r.pc = "move" /\ f # None
     /\ at' = [at EXCEPT ![r.src] = None, ![r.dst] = f]
     /\ info' = IF r.dst[1] = "trash" THEN Covered(at[r.dst])
                ELSE [Covered(at[r.dst]) EXCEPT
                        ![f] = [Unused EXCEPT !.kind = info[f].kind, !.mtime = info[f].mtime]]
     /\ unindexed' = IF r.dst[1] = "trash" THEN unindexed \cup {f} ELSE unindexed \ {f}
     /\ raced' = (raced \/ at[r.dst] # None)
     /\ Return(h)
     /\ UNCHANGED <<rows, lock, sweep, offer, ops, faults, early, wrong>>

RenameGone(h) ==
  /\ hs[h].op = "rename" /\ hs[h].pc = "move" /\ at[hs[h].src] = None
  /\ Return(h)
  /\ UNCHANGED <<at, info, rows, lock, sweep, offer, ops, faults, unindexed, observers>>

\* deleteHandler inside the trash: RemoveAll, for good.
PermanentDelete(n) ==
  LET f == at[Bin(n)]
  IN /\ ops < MaxOps /\ ops' = ops + 1
     /\ f # None
     /\ at' = [at EXCEPT ![Bin(n)] = None]
     /\ info' = Removed(f)
     /\ unindexed' = unindexed \ {f}
     /\ UNCHANGED <<rows, lock, hs, sweep, offer, faults, observers>>

\* uploadHandler: createUnique and the bytes, with the mtime the page sent.
Upload(n) ==
  /\ ops < MaxOps /\ ops' = ops + 1
  /\ FreeFiles # {} /\ Untaken("drive", n) # {}
  /\ at' = [at EXCEPT ![Drive(FirstFree("drive", n))] = Fresh]
  /\ \E age \in Age :
       info' = [info EXCEPT ![Fresh] = [Unused EXCEPT !.kind = "file", !.mtime = age]]
  /\ UNCHANGED <<rows, lock, hs, sweep, offer, faults, unindexed, observers>>

----------------------------------------------------------------------------
(* purgeTrashOnce *)

\* Seeded fault: only what the index knows of is ever looked at.
DeletedAtIndexedOnly(n) == IF rows[n] # None THEN rows[n].at ELSE "new"

\* An entry's age is its row's, and an orphan's is its mtime.
DeletedAt(n) == IF rows[n] # None THEN rows[n].at ELSE info[at[Bin(n)]].mtime

\* ReadDir.
Scan ==
  /\ sweep.pc = "idle"
  /\ Take("sweep")
  /\ LET present == {n \in Name : at[Bin(n)] # None}
         due == {n \in present : DeletedAt(n) = "old"}
     IN /\ due # {} \/ \E n \in Name \ present : rows[n] # None
        /\ sweep' = [pc |-> "erase", due |-> due, present |-> present]
  /\ UNCHANGED <<at, info, rows, hs, offer, ops, faults, unindexed, observers>>

\* RemoveAll of each entry that is due, then the index without the rows of files that are gone.
Erase ==
  LET gone == {at[Bin(n)] : n \in sweep.due} \ {None}
  IN /\ sweep.pc = "erase"
     /\ at' = [p \in Path |-> IF p[1] = "trash" /\ p[2] \in sweep.due THEN None ELSE at[p]]
     /\ info' = [f \in Files |-> IF f \in gone THEN Unused ELSE info[f]]
     /\ \/ /\ rows' = [n \in Name |-> IF n \in sweep.present \ sweep.due THEN rows[n] ELSE None]
           /\ UNCHANGED faults
        \/ Fault("errors") /\ UNCHANGED rows
     /\ early' = early \cup {IF f \in unindexed THEN "orphan" ELSE "indexed" :
                               f \in {g \in gone : info[g].trashed = "new"}}
     /\ unindexed' = unindexed \ gone
     /\ sweep' = NoSweep
     /\ Release
     /\ UNCHANGED <<hs, offer, ops, raced, wrong>>

----------------------------------------------------------------------------

Quiet == sweep.pc = "idle" /\ \A h \in Handlers : hs[h].pc = "idle"

\* The retention passes, which no request takes; the undo is no longer on offer.
Days ==
  /\ Quiet
  /\ info' = [f \in Files |->
                IF info[f].kind = "unused" THEN info[f]
                ELSE [info[f] EXCEPT !.mtime = "old", !.was = "old",
                                     !.trashed = IF @ = "no" THEN "no" ELSE "old"]]
  /\ rows' = [n \in Name |-> IF rows[n] = None THEN None
                             ELSE [rows[n] EXCEPT !.at = "old", !.mod = "old"]]
  /\ offer' = NoOffer
  /\ UNCHANGED <<at, lock, hs, sweep, ops, faults, unindexed, observers>>

\* The server stops and starts again: goroutines and the lock are gone, the disk stays.  (An
\* edit's temporary file stays too, and nothing ever looks at it again.)
Restart ==
  /\ ~Quiet
  /\ Fault("restarts")
  /\ info' = [f \in Files |-> IF info[f].kind = "output" THEN Unused ELSE info[f]]
  /\ lock' = None
  /\ hs' = [h \in Handlers |-> Idle]
  /\ sweep' = NoSweep
  /\ UNCHANGED <<at, rows, offer, ops, unindexed, observers>>

NewRequest(h) ==
  \/ \E n \in Name : DeleteBegin(h, n) \/ Restore(h, n)
  \/ \E n, m \in Given : EditBegin(h, n, m)
  \/ Undo(h)
  \/ \E p \in Path, d \in {"drive", "trash"}, n \in Given : RenameBegin(h, p, <<d, n>>)
Step(h) ==
  \/ Reserve(h) \/ MoveIn(h) \/ MoveInFails(h) \/ Stamp(h) \/ Index(h) \/ Land(h)
  \/ RestoreRefused(h) \/ RestoreReserve(h) \/ RestoreMove(h) \/ RestoreMoveFails(h) \/ Clear(h)
  \/ RenameMove(h) \/ RenameGone(h)
Sweep == Scan \/ Erase

Next ==
  \/ \E h \in Handlers : NewRequest(h) \/ Step(h) \/ IndexFails(h)
  \/ \E n \in Name : PermanentDelete(n)
  \/ \E n \in Given : Upload(n)
  \/ Sweep \/ Days \/ Restart

Spec == Init /\ [][Next]_vars

\* Goroutines are scheduled, the sweep runs every hour, and time passes.  Nobody has to
\* delete, restore or upload anything.
Fairness == (\A h \in Handlers : WF_vars(Step(h))) /\ WF_vars(Sweep) /\ WF_vars(Days)
FairSpec == Spec /\ Fairness

----------------------------------------------------------------------------
(* Properties *)

\* No delete, restore, undo, edit or restart loses a file: each one is in the drive or in the
\* trash until it is erased there, as long as no path changed under a request between its look
\* and its rename.  (A file an edit of another one was renamed onto: see EditKeepsOthers.)
NothingLost ==
  ~raced => \A f \in Files : info[f].kind = "file" => \E p \in Path : at[p] = f

\* The index tells the truth about every file that has a row: where it was, how long ago that
\* is, and the mtime to give back, so restore can put it back as it was (trash.go:19).
RowsTellTruth ==
  ~raced => \A n \in Name :
    LET f == at[Bin(n)]
    IN f # None /\ info[f].kind = "file" /\ f \notin unindexed
         => rows[n] = [from |-> info[f].origin, at |-> info[f].trashed, mod |-> info[f].was]

\* The sweep erases no file with a row before its time in the trash is over.
RetentionKept == "indexed" \notin early

\* What is deleted does not stay for ever, orphans included ("an unindexed orphan is still
\* purgeable", trash.go:127), and rows of files that are gone are pruned.
TrashEmpties == <>[](\A n \in Name : at[Bin(n)] = None /\ rows[n] = None)

\* "a collision costs only this shortcut, not the file" (modal.js:217): an undo may fail to
\* find the file, but does not act on another one.
UndoActsOnItsFile == ~wrong

\* commitEdit lands its output "as a sibling, or over the original, whose bytes go to the
\* trash" (resize.go:411): no other file is written over.
EditKeepsOthers == \A f \in Files : info[f].kind # "clobbered"
=============================================================================
