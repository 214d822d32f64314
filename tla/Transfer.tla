------------------------------- MODULE Transfer -------------------------------
(***************************************************************************)
(* Folders on their way into the drive or into a vault: an upload of       *)
(* dropped or picked folders (uploadFiles in transfer.js, uploadToVault in *)
(* account.js), and the import of server files into an unlocked vault      *)
(* (importToVault), which reads them back, seals them, and for a move      *)
(* deletes the originals at the end.                                       *)
(*                                                                         *)
(* A path is a sequence of names.  The vault's index is kept in the same   *)
(* tree as the drive's folders, under the vault's own path.                *)
(***************************************************************************)
EXTENDS Session

CONSTANTS Folders0,   \* the folders there are at the start
          Files0,     \* the files there are at the start
          Nested,     \* the vaults and buckets among the folders, which no scan enters
          Added,      \* files another session may add meanwhile
          Into,       \* the unlocked vault's path, one of the folders
          Shown0,     \* the folder on screen at the start
          Dropped,    \* what an upload may bring: [dirs, files], of paths from the drop
          Twin        \* the suffixed form of a name that is taken

\* What is at a path is a folder or a file, in folders that are there too.
ASSUME TransferAssumption ==
  /\ {Into, Shown0} \subseteq Folders0 /\ Into \in Nested
  /\ \A p \in Folders0 \cup Files0 \cup Nested \cup Added : IsPath(p)
  /\ \A p \in Folders0 \cup Files0 : \A k \in 1 .. Len(p) - 1 : SubSeq(p, 1, k) \in Folders0
  /\ Folders0 \cap Files0 = {} /\ IsFiniteSet(Folders0 \cup Files0)

VARIABLES
  tree,    \* [dirs, files]: the paths there are, in the vault's index too
  shown,   \* state.currentPath
  unsealed,\* whether the vault is open
  job,     \* the transfer under way, or None
  went     \* observer: [sealed, trashed, late, walked]: originals read into the vault, deleted by the
           \* import, added by others, and whether the user left the folder during an import

transferVars == <<tree, shown, unsealed, job, went>>

Under(dir, p) == IsPrefix(dir, p) /\ p # dir
Children(dir, set) == {p \in set : Under(dir, p) /\ Len(p) = Len(dir) + 1}
Taken(p) == p \in tree.dirs \cup tree.files

\* A name that is taken is suffixed (the server's FreePath, the vault's uniqueName).
FreeName(dir, n) == IF Taken(Append(dir, n)) THEN Twin[n] ELSE n

\* uploadDirs: every folder on the way to a file or named by itself, parents first.
UploadDirs(plan) ==
  LET asked == ToSet(plan.dirs) \cup {f.rel : f \in ToSet(plan.files)}
      all   == UNION {{SubSeq(d, 1, n) : n \in 1 .. Len(d)} : d \in asked}
  IN  SetToSortSeq(all, LAMBDA d, e : Len(d) < Len(e))
------------------------------------------------------------------------------
(* Starting.                                                               *)

Plan(kind, dest, plan) ==
  [kind |-> kind, dest |-> dest, stage |-> "dirs", roots |-> {}, dirRoots |-> << >>, stack |-> << >>,
   files |-> plan.files, dirs |-> plan.dirs, todo |-> UploadDirs(plan), real |-> [r \in {<< >>} |-> << >>],
   broken |-> {}, made |-> {}]

\* A folder is dropped on the list, or picked: onto the tree, or sealed in the page on its way.
UploadFiles(plan) ==
  /\ Gesture
  /\ job = None
  /\ IsPrefix(Into, shown) => unsealed
  /\ job' = Plan("upload", shown, plan)
  /\ UNCHANGED <<tree, shown, unsealed, went>>

\* The next chosen folder is scanned; after the last the chosen files follow (folders list first).
\* Their paths are made from the folder then on screen (entryPath).
NextRoot(j) ==
  IF j.stack # << >> THEN j
  ELSE IF j.dirRoots # << >>
    THEN LET n == Head(j.dirRoots)
         IN  [j EXCEPT !.dirRoots = Tail(@), !.dirs = Append(@, <<n>>),
                       !.stack = <<[at |-> Append(shown, n), rel |-> <<n>>]>>]
  ELSE LET plain == {n \in j.roots : <<n>> \notin ToSet(j.dirs)}
           all   == j.files \o SetToSeq({[path |-> Append(shown, n), rel |-> << >>] : n \in plain})
       IN  [j EXCEPT !.stage = "dirs", !.files = all,
                     !.todo = UploadDirs([dirs |-> j.dirs, files |-> all])]

\* Files are moved or copied into the vault, which no bucket and no vault can enter.
ImportToVault(names, move) ==
  /\ Gesture
  /\ job = None /\ unsealed /\ ~IsPrefix(Into, shown)
  /\ names # {}
  /\ LET entry(n)  == Append(shown, n)
         dirRoots  == SetToSeq({n \in names : entry(n) \in tree.dirs})
     IN  /\ \A n \in names : Taken(entry(n)) /\ entry(n) \notin Nested
         /\ job' = NextRoot([Plan(IF move THEN "move" ELSE "copy", Into, [dirs |-> << >>, files |-> << >>])
                               EXCEPT !.stage = "scan", !.roots = names, !.dirRoots = dirRoots])
  /\ UNCHANGED <<tree, shown, unsealed, went>>
------------------------------------------------------------------------------
(* Scanning, making the folders, carrying the files.                       *)

\* scanForVault: a folder's listing arrives; the ones in it are scanned before the next.
ScanForVault ==
  /\ job # None /\ job.stage = "scan" /\ job.stack # << >>
  /\ LET e    == Head(job.stack)
         dirs == SetToSeq(Children(e.at, tree.dirs) \ Nested)
         rel(p) == Append(e.rel, Last(p))
         found  == SetToSeq({[path |-> p, rel |-> e.rel] : p \in Children(e.at, tree.files)})
     IN  IF e.at \notin tree.dirs THEN job' = None
         ELSE job' = NextRoot([job EXCEPT !.stack = [i \in DOMAIN dirs |-> [at |-> dirs[i], rel |-> rel(dirs[i])]]
                                                      \o Tail(@),
                                          !.dirs = @ \o [i \in DOMAIN dirs |-> rel(dirs[i])],
                                          !.files = @ \o found])
  /\ UNCHANGED <<left, tree, shown, unsealed, went>>

\* A listing that fails ends the import before anything was made.
ScanFails ==
  /\ Gesture
  /\ job # None /\ job.stage = "scan"
  /\ job' = None
  /\ UNCHANGED <<tree, shown, unsealed, went>>

Sealable(path) == IsPrefix(Into, path) => unsealed

\* Seeded fault (see the README): what goes into a folder goes by the name it was asked for.
MakeUploadDirAsNamed(ok) ==
  /\ job # None /\ job.stage = "dirs" /\ job.todo # << >>
  /\ LET dir    == Head(job.todo)
         parent == Front(dir)
         at     == job.dest \o job.real[parent]
         unique == parent = << >>
         made   == IF unique THEN FreeName(at, Last(dir)) ELSE Last(dir)
         new    == Append(at, made)
         rest   == [job EXCEPT !.todo = Tail(@)]
     IN  IF parent \notin DOMAIN job.real
           THEN ok /\ job' = rest /\ UNCHANGED <<tree, left>>
         ELSE IF ok
           THEN /\ Sealable(new) /\ ~Taken(new)
                /\ tree' = [tree EXCEPT !.dirs = @ \cup {new}]
                /\ job' = [rest EXCEPT !.real = [r \in DOMAIN @ \cup {dir} |->
                                                   IF r = dir THEN Append(@[parent], Last(dir)) ELSE @[r]],
                                       !.made = @ \cup {new}]
                /\ UNCHANGED left
         ELSE /\ IF Sealable(new) /\ ~Taken(new) THEN Gesture ELSE UNCHANGED left
              /\ job' = rest
              /\ UNCHANGED tree
  /\ UNCHANGED <<shown, unsealed, went>>

\* makeUploadDirs: the next folder is made where its parent landed; only a top-level one is suffixed
\* when its name is taken.  A folder that is not made takes its subtree with it.
MakeUploadDir(ok) ==
  /\ job # None /\ job.stage = "dirs" /\ job.todo # << >>
  /\ LET dir    == Head(job.todo)
         parent == Front(dir)
         at     == job.dest \o job.real[parent]
         unique == parent = << >>
         made   == IF unique THEN FreeName(at, Last(dir)) ELSE Last(dir)
         new    == Append(at, made)
         rest   == [job EXCEPT !.todo = Tail(@)]
     IN  IF parent \notin DOMAIN job.real
           THEN ok /\ job' = rest /\ UNCHANGED <<tree, left>>
         ELSE IF ok
           THEN /\ Sealable(new) /\ ~Taken(new)
                /\ tree' = [tree EXCEPT !.dirs = @ \cup {new}]
                /\ job' = [rest EXCEPT !.real = [r \in DOMAIN @ \cup {dir} |->
                                                   IF r = dir THEN Append(@[parent], made) ELSE @[r]],
                                       !.made = @ \cup {new}]
                /\ UNCHANGED left
         ELSE /\ IF Sealable(new) /\ ~Taken(new) THEN Gesture ELSE UNCHANGED left
              /\ job' = rest
              /\ UNCHANGED tree
  /\ UNCHANGED <<shown, unsealed, went>>

\* importRootOf: the chosen entry a planned file or folder comes from.
ImportRootOf(f) == IF f.rel = << >> THEN Last(f.path) ELSE f.rel[1]

\* The folders are made: a chosen folder that lacks one is not whole.
DirsMade ==
  /\ job # None /\ job.stage = "dirs" /\ job.todo = << >>
  /\ job' = [job EXCEPT !.stage = "files",
                        !.broken = {d[1] : d \in ToSet(job.dirs) \ DOMAIN job.real}]
  /\ UNCHANGED <<left, tree, shown, unsealed, went>>

\* Seeded fault: a file that fails leaves its chosen entry whole.
SendFileUnnoticed(ok) ==
  /\ job # None /\ job.stage = "files" /\ job.files # << >>
  /\ LET f      == Head(job.files)
         placed == f.rel \in DOMAIN job.real
         dir    == job.dest \o job.real[f.rel]
         new    == Append(dir, FreeName(dir, Last(f.path)))
         can    == Sealable(new) /\ (job.kind # "upload" => f.path \in tree.files)
         rest   == [job EXCEPT !.files = Tail(@)]
     IN  IF ok
           THEN /\ placed /\ can /\ ~Taken(new)
                /\ tree' = [tree EXCEPT !.files = @ \cup {new}]
                /\ job' = rest
                /\ went' = IF job.kind = "upload" THEN went
                           ELSE [went EXCEPT !.sealed = @ \cup {f.path}]
                /\ UNCHANGED left
           ELSE /\ IF placed /\ can THEN Gesture ELSE UNCHANGED left
                /\ job' = rest
                /\ UNCHANGED <<tree, went>>
  /\ UNCHANGED <<shown, unsealed>>

\* The next file is sent, or read back and sealed; one that fails leaves its chosen entry broken.
\* Bound: a file whose name and twin are both taken waits.
SendFile(ok) ==
  /\ job # None /\ job.stage = "files" /\ job.files # << >>
  /\ LET f      == Head(job.files)
         placed == f.rel \in DOMAIN job.real
         dir    == job.dest \o job.real[f.rel]
         new    == Append(dir, FreeName(dir, Last(f.path)))
         can    == Sealable(new) /\ (job.kind # "upload" => f.path \in tree.files)
         rest   == [job EXCEPT !.files = Tail(@)]
     IN  IF ok
           THEN /\ placed /\ can /\ ~Taken(new)
                /\ tree' = [tree EXCEPT !.files = @ \cup {new}]
                /\ job' = rest
                /\ went' = IF job.kind = "upload" THEN went
                           ELSE [went EXCEPT !.sealed = @ \cup {f.path}]
                /\ UNCHANGED left
           ELSE /\ IF placed /\ can THEN Gesture ELSE UNCHANGED left
                /\ job' = [rest EXCEPT !.broken = @ \cup {ImportRootOf(f)}]
                /\ UNCHANGED <<tree, went>>
  /\ UNCHANGED <<shown, unsealed>>

\* Everything was tried: a move goes on to the originals, of which the whole ones are deleted.
FilesSent ==
  /\ job # None /\ job.stage = "files" /\ job.files = << >>
  /\ job' = IF job.kind = "move" THEN [job EXCEPT !.stage = "delete",
                                                  !.todo = SetToSeq(job.roots \ job.broken)]
            ELSE None
  /\ UNCHANGED <<left, tree, shown, unsealed, went>>

\* An original is deleted, by its name in the folder on screen when its turn comes (entryPath).
DeleteOriginal(ok) ==
  /\ job # None /\ job.stage = "delete" /\ job.todo # << >>
  /\ LET path == Append(shown, Head(job.todo))
         gone == {p \in tree.files : IsPrefix(path, p)}
         can  == Taken(path) /\ ~IsPrefix(Into, path)
     IN  IF ok
           THEN /\ can
                /\ tree' = [dirs |-> {d \in tree.dirs : ~IsPrefix(path, d)}, files |-> tree.files \ gone]
                /\ went' = [went EXCEPT !.trashed = @ \cup gone]
                /\ UNCHANGED left
           ELSE /\ IF can THEN Gesture ELSE UNCHANGED left
                /\ UNCHANGED <<tree, went>>
  /\ job' = [job EXCEPT !.todo = Tail(@)]
  /\ UNCHANGED <<shown, unsealed>>

OriginalsGone ==
  /\ job # None /\ job.stage = "delete" /\ job.todo = << >>
  /\ job' = None
  /\ UNCHANGED <<left, tree, shown, unsealed, went>>
------------------------------------------------------------------------------
(* Meanwhile.                                                              *)

\* The user opens another folder of the drive, or the unlocked vault.
WalkTo(dir) ==
  /\ Gesture
  /\ dir \in tree.dirs /\ dir # shown
  /\ \A v \in Nested : IsPrefix(v, dir) => v = Into /\ unsealed
  /\ shown' = dir
  /\ went' = [went EXCEPT !.walked = @ \/ (job # None /\ job.kind # "upload")]
  /\ UNCHANGED <<tree, unsealed, job>>

\* Another session adds a file.
AddedElsewhere(p) ==
  /\ Gesture
  /\ ~Taken(p) /\ Front(p) \in tree.dirs
  /\ tree' = [tree EXCEPT !.files = @ \cup {p}]
  /\ went' = [went EXCEPT !.late = @ \cup {p}]
  /\ UNCHANGED <<shown, unsealed, job>>

\* The vault is locked, or locks itself.
SealUp ==
  /\ Gesture
  /\ unsealed
  /\ unsealed' = FALSE
  /\ UNCHANGED <<tree, shown, job, went>>

TransferInit ==
  /\ tree = [dirs |-> Folders0, files |-> Files0]
  /\ shown = Shown0 /\ unsealed = TRUE /\ job = None
  /\ went = [sealed |-> {}, trashed |-> {}, late |-> {}, walked |-> FALSE]

Transfers ==
  \/ \E plan \in Dropped : UploadFiles(plan)
  \/ \E names \in SUBSET {Last(p) : p \in Children(shown, tree.dirs \cup tree.files)}, move \in BOOLEAN :
       ImportToVault(names, move)
  \/ ScanForVault \/ ScanFails \/ DirsMade \/ FilesSent \/ OriginalsGone
  \/ \E ok \in BOOLEAN : MakeUploadDir(ok) \/ SendFile(ok) \/ DeleteOriginal(ok)
  \/ \E d \in tree.dirs : WalkTo(d)
  \/ \E p \in Added : AddedElsewhere(p)
  \/ SealUp
------------------------------------------------------------------------------
\* A move into a vault deletes no file the vault has not got: a chosen entry of which anything failed
\* keeps its original whole (importRootOf).  Excepted is what the code does not see: a file added
\* after its folder was scanned, one in a vault or bucket inside a chosen folder (the scan passes it
\* by, the delete does not), and everything once the user has walked to another folder: the path of
\* an original is then made from that one (see the README).
OriginalsGoOnlyWhenImported ==
  \A p \in went.trashed :
    p \in went.sealed \cup went.late \/ went.walked \/ \E v \in Nested : IsPrefix(v, p)

\* An upload never merges with a folder that was there: a file lands in the folder it was dropped on
\* or in one this transfer made, under the name that one was given (makeUploadDirs).
FoldersAreNotMerged ==
  [][\A p \in tree'.files \ tree.files :
       job # None /\ job' # job => Front(p) = job.dest \/ Front(p) \in job.made]_<<tree, job>>

==============================================================================
