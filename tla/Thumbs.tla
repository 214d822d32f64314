------------------------------- MODULE Thumbs -------------------------------
(***************************************************************************)
(* Thumbnails and what is remembered for them (internal/handler/thumbs.go) *)
(* beside the handlers that change the pictures of one folder.             *)
(*                                                                         *)
(* A thumbnail is cached under the hash of the picture's bytes, the hash   *)
(* is remembered while the picture's size and date hold, and the folder's  *)
(* own picture, the first of its children by date, while the folder's date *)
(* holds.  Each of these is read, worked on without a lock and stored, so  *)
(* uploads, edits and deletes come between.                                *)
(*                                                                         *)
(* A hash is the picture itself, and so is its size: pictures of one size  *)
(* are left out, as are other orders than by date, what singleflight saves *)
(* two requests of one thumbnail, and the screen-sized copies, which are   *)
(* kept in the same way.                                                   *)
(***************************************************************************)
EXTENDS Serving, FiniteSets

CONSTANTS
  Name,     \* names in the folder: numbers, as they sort
  Picture,  \* contents
  Now       \* the date of what is being written; dates an upload or an edit gives are below

ASSUME ThumbsAssumption ==
  /\ Name \subseteq Nat /\ IsFiniteSet(Name) /\ Now \in Nat \ {0}
  /\ None \notin Name \cup Picture

Date == 0 .. Now - 1

VARIABLES
  files,    \* name -> its picture and date, or None
  trash,    \* name -> what was deleted there last, or None
  dirTime,  \* the folder's date: changes with each name that comes or goes
  hashes,   \* thumbCache.hashes: name -> the size and date it had, and the hash; or None
  preview,  \* thumbCache.previews: the folder's date and its child; or None
  thumbs,   \* the cache directory: hash -> the picture the thumbnail shows, or None
  drawing,  \* handler -> what the goroutine is doing
  replaced, \* observer: pictures that were replaced, or took the place of others, during a request
  sure      \* observer: whether no date changed beside the walk behind preview, nor in an upload since

thumbsVars == <<files, trash, dirTime, hashes, preview, thumbs, drawing, replaced, sure>>

NoThumb == [pc |-> "idle", name |-> None, file |-> None, hash |-> None, time |-> 0, upload |-> FALSE, late |-> FALSE]

ThumbsInit ==
  /\ files \in [Name -> [pic : Picture, date : Date] \cup {None}]
  /\ trash = [n \in Name |-> None] /\ dirTime = 0
  /\ hashes = [n \in Name |-> None] /\ preview = None /\ thumbs = [p \in Picture |-> None]
  /\ drawing = [h \in Handler |-> NoThumb]
  /\ replaced = {} /\ sure = TRUE

----------------------------------------------------------------------------
GoOn(h, pc) == drawing' = [drawing EXCEPT ![h].pc = pc]
Return(h) == drawing' = [drawing EXCEPT ![h] = NoThumb]

Present == {n \in Name : files[n] # None}
\* findThumbable: the newest, and of those the name that sorts last.
Later(n, k) == files[n].date > files[k].date \/ (files[n].date = files[k].date /\ n >= k)
First == IF Present = {} THEN None ELSE CHOOSE n \in Present : \A k \in Present : Later(n, k)

\* The requests for the thumbnail of n that have looked at it.
Looking(n) == {h \in Handler : drawing[h].name = n /\ drawing[h].pc \in {"hash", "remember", "ensure", "generate"}}

\* What is on the name n changes.
Becomes(n, file) ==
  /\ files' = [files EXCEPT ![n] = file]
  /\ replaced' = replaced \cup IF Looking(n) = {} THEN {}
                              ELSE {drawing[h].file.pic : h \in Looking(n)} \cup (IF file = None THEN {} ELSE {file.pic})

----------------------------------------------------------------------------
(* thumbHandler *)

StatFile(h, n) ==
  IF files[n] = None THEN Return(h)
  ELSE drawing' = [drawing EXCEPT ![h] = [NoThumb EXCEPT !.pc = "hash", !.name = n, !.file = files[n]]]

ThumbOfFile(h, n) ==
  /\ drawing[h].pc = "idle" /\ Spend /\ StatFile(h, n)
  /\ UNCHANGED <<files, trash, dirTime, hashes, preview, thumbs, replaced, sure>>

ThumbOfFolder(h) ==
  /\ drawing[h].pc = "idle" /\ Spend
  /\ drawing' = [drawing EXCEPT ![h] = [NoThumb EXCEPT !.pc = "preview", !.time = dirTime]]
  /\ UNCHANGED <<files, trash, dirTime, hashes, preview, thumbs, replaced, sure>>

\* folderChild: what is remembered under the folder's date, or else a walk over the folder.
LookUpChild(h) ==
  /\ drawing[h].pc = "preview"
  /\ IF preview # None /\ preview.time = drawing[h].time
     THEN drawing' = [drawing EXCEPT ![h].pc = "stat", ![h].name = preview.child]
     ELSE GoOn(h, "walk")
  /\ UNCHANGED <<files, trash, dirTime, hashes, preview, thumbs, left, replaced, sure>>

FindThumbable(h) ==
  /\ drawing[h].pc = "walk"
  /\ drawing' = [drawing EXCEPT ![h].pc = "store", ![h].name = First]
  /\ UNCHANGED <<files, trash, dirTime, hashes, preview, thumbs, left, replaced, sure>>

StoreChild(h) ==
  /\ drawing[h].pc = "store"
  /\ preview' = [time |-> drawing[h].time, child |-> drawing[h].name] /\ sure' = ~drawing[h].late
  /\ GoOn(h, "stat")
  /\ UNCHANGED <<files, trash, dirTime, hashes, thumbs, left, replaced>>

StatChild(h) ==
  /\ drawing[h].pc = "stat"
  /\ IF drawing[h].name = None THEN Return(h) ELSE StatFile(h, drawing[h].name)
  /\ UNCHANGED <<files, trash, dirTime, hashes, preview, thumbs, left, replaced, sure>>

\* Seeded fault (see the README): a file of the same date is taken for unchanged.
RemembersDate(n, file) == hashes[n] # None /\ hashes[n].file.date = file.date
\* contentHash: the hash is remembered of a file that looked like this one.
Remembers(n, file) == hashes[n] # None /\ hashes[n].file = file

\* A file that is not remembered is read as it is by now.
ContentHash(h) ==
  /\ drawing[h].pc = "hash"
  /\ LET n == drawing[h].name IN
       \/ /\ Remembers(n, drawing[h].file)
          /\ drawing' = [drawing EXCEPT ![h].pc = "ensure", ![h].hash = hashes[n].hash]
       \/ /\ ~Remembers(n, drawing[h].file) /\ files[n] # None
          /\ drawing' = [drawing EXCEPT ![h].pc = "remember", ![h].hash = files[n].pic]
       \/ ~Remembers(n, drawing[h].file) /\ files[n] = None /\ Return(h)
  /\ UNCHANGED <<files, trash, dirTime, hashes, preview, thumbs, left, replaced, sure>>

StoreHash(h) ==
  /\ drawing[h].pc = "remember"
  /\ hashes' = [hashes EXCEPT ![drawing[h].name] = [file |-> drawing[h].file, hash |-> drawing[h].hash]]
  /\ GoOn(h, "ensure")
  /\ UNCHANGED <<files, trash, dirTime, preview, thumbs, left, replaced, sure>>

\* ensure: what is in the cache is served.
Ensure(h) ==
  /\ drawing[h].pc = "ensure"
  /\ IF thumbs[drawing[h].hash] # None THEN Return(h) ELSE GoOn(h, "generate")
  /\ UNCHANGED <<files, trash, dirTime, hashes, preview, thumbs, left, replaced, sure>>

\* generateOutputs opens the file again; writeJPEG lands whole.
Generate(h) ==
  /\ drawing[h].pc = "generate"
  /\ thumbs' = IF files[drawing[h].name] = None THEN thumbs
               ELSE [thumbs EXCEPT ![drawing[h].hash] = files[drawing[h].name].pic]
  /\ Return(h)
  /\ UNCHANGED <<files, trash, dirTime, hashes, preview, left, replaced, sure>>

\* gcLoop: thumbnails nobody has asked for in a long time.
Collect(p) ==
  /\ \A h \in Handler : drawing[h].pc = "idle"
  /\ Spend /\ thumbs[p] # None /\ thumbs' = [thumbs EXCEPT ![p] = None]
  /\ UNCHANGED <<files, trash, dirTime, hashes, preview, drawing, replaced, sure>>

----------------------------------------------------------------------------
(* What changes pictures *)

\* A picture lands on n with the date of its writing, and is to be given date t.
Land(h, n, pic, t, upload) ==
  /\ Becomes(n, [pic |-> pic, date |-> Now]) /\ dirTime' = dirTime + 1
  /\ drawing' = [drawing EXCEPT ![h] = [NoThumb EXCEPT !.pc = "date", !.name = n, !.time = t, !.upload = upload]]
  /\ UNCHANGED <<hashes, preview, thumbs, sure>>

\* uploadHandler, and finishPart at the end of a resumable upload.
Upload(h, n, pic, t, upload) ==
  /\ drawing[h].pc = "idle" /\ Spend /\ files[n] = None
  /\ Land(h, n, pic, t, upload) /\ UNCHANGED trash

\* commitEdit of a replacing edit: what it replaces goes to the trash, its date comes over.
Replace(h, n, pic) ==
  /\ drawing[h].pc = "idle" /\ Spend /\ files[n] # None /\ files[n].pic # pic
  /\ Land(h, n, pic, files[n].date, FALSE)
  /\ trash' = [trash EXCEPT ![n] = files[n]]

\* A date changes, the folder's stays; what handler h does next.  Walks that are over do not see it.
Dated(h, n, t, pc) ==
  /\ files' = [files EXCEPT ![n].date = t]
  /\ drawing' = [g \in Handler |-> IF g = h THEN [NoThumb EXCEPT !.pc = pc]
                              ELSE [drawing[g] EXCEPT !.late = @ \/ drawing[g].pc = "store"]]

\* renameHandler with a date.
EditDate(h, n, t) ==
  /\ drawing[h].pc = "idle" /\ Spend /\ files[n] # None
  /\ Dated(h, n, t, "invalidate")
  /\ UNCHANGED <<trash, dirTime, hashes, preview, thumbs, replaced, sure>>

\* os.Chtimes of what has landed.  uploadHandler is done with that; the others invalidate.
Chtimes(h) ==
  /\ drawing[h].pc = "date"
  /\ LET next == IF drawing[h].upload THEN "idle" ELSE "invalidate" IN
       IF files[drawing[h].name] # None THEN Dated(h, drawing[h].name, drawing[h].time, next)
       ELSE drawing' = [drawing EXCEPT ![h] = [NoThumb EXCEPT !.pc = next]] /\ UNCHANGED files
  /\ sure' = (sure /\ ~drawing[h].upload)
  /\ UNCHANGED <<trash, dirTime, hashes, preview, thumbs, left, replaced>>

\* Seeded fault: what is remembered stays until the folder's date changes.
InvalidateNothing(h) ==
  /\ drawing[h].pc = "invalidate" /\ Return(h)
  /\ UNCHANGED <<files, trash, dirTime, hashes, preview, thumbs, left, replaced, sure>>
\* invalidateFolder.
Invalidate(h) ==
  /\ drawing[h].pc = "invalidate" /\ Return(h)
  /\ preview' = None
  /\ UNCHANGED <<files, trash, dirTime, hashes, thumbs, left, replaced, sure>>

\* deleteHandler, and restoreHandler or an undo, which bring the picture back with its date.
DeletePicture(h, n) ==
  /\ drawing[h].pc = "idle" /\ Spend /\ files[n] # None
  /\ Becomes(n, None) /\ trash' = [trash EXCEPT ![n] = files[n]]
  /\ dirTime' = dirTime + 1
  /\ drawing' = [drawing EXCEPT ![h].pc = "invalidate"]
  /\ UNCHANGED <<hashes, preview, thumbs, sure>>

RestorePicture(h, n) ==
  /\ drawing[h].pc = "idle" /\ Spend /\ files[n] = None /\ trash[n] # None
  /\ Becomes(n, trash[n]) /\ trash' = [trash EXCEPT ![n] = None]
  /\ dirTime' = dirTime + 1
  /\ drawing' = [drawing EXCEPT ![h].pc = "invalidate"]
  /\ UNCHANGED <<hashes, preview, thumbs, sure>>

\* The server stops and starts: the cache directory stays, what was remembered does not.
ThumbsRestart ==
  /\ Spend /\ drawing' = [h \in Handler |-> NoThumb]
  /\ hashes' = [n \in Name |-> None] /\ preview' = None
  /\ UNCHANGED <<files, trash, dirTime, thumbs, replaced, sure>>

----------------------------------------------------------------------------
ThumbsNext ==
  \/ ThumbsRestart \/ \E p \in Picture : Collect(p)
  \/ \E h \in Handler :
       \/ ThumbOfFolder(h) \/ LookUpChild(h) \/ FindThumbable(h) \/ StoreChild(h) \/ StatChild(h)
       \/ ContentHash(h) \/ StoreHash(h) \/ Ensure(h) \/ Generate(h)
       \/ Chtimes(h) \/ Invalidate(h)
       \/ \E n \in Name :
            \/ ThumbOfFile(h, n) \/ DeletePicture(h, n) \/ RestorePicture(h, n)
            \/ \E t \in Date : EditDate(h, n, t)
            \/ \E p \in Picture : Replace(h, n, p) \/ \E t \in Date, u \in BOOLEAN : Upload(h, n, p, t, u)

----------------------------------------------------------------------------
\* A thumbnail shows the picture it is kept for, whatever was edited, deleted and restored since, and
\* whatever dates were carried over between pictures of different size (a picture's size stands for
\* it): pictures that changed during a request excepted (replaced).
ThumbsShowTheirPictures == \A p \in Picture \ replaced : thumbs[p] \in {None, p}

\* The folder's picture follows its children: what is remembered under the folder's date is the first
\* of them, once the change of a date is through.  Excepted (sure) are what an upload dates, and a
\* walk that a change of a date overtook and whose result was stored after it: the invalidate that
\* follows an edit does not reach such a walk.
FolderFollowsItsFirst ==
  preview # None /\ sure /\ preview.time = dirTime /\ (\A h \in Handler : drawing[h].pc # "invalidate")
    => preview.child = First
==============================================================================
