----------------------------- MODULE TrashProofs -----------------------------
(***************************************************************************)
(* For any files, names and goroutines: no delete, restore, undo or edit   *)
(* loses a file, the index tells the truth about what it has a row for,    *)
(* and the sweep erases nothing with a row before its time.                *)
(***************************************************************************)
EXTENDS Trash, FiniteSetTheorems, TLAPS

----------------------------------------------------------------------------
(* The inductive invariant *)

InDrive == {"drive"} \X Name
InTrash == {"trash"} \X Name

FileInfo ==
  [kind : {"unused", "file", "empty", "output", "clobbered"}, mtime : Age,
   trashed : Age \cup {"no"}, origin : Path \cup {None}, was : Age]
Request ==
  [op : {"none", "delete", "edit", "restore", "rename"},
   pc : {"idle", "lock", "move", "stamp", "index", "land", "clear"},
   src : Path \cup {None}, dst : Path \cup {None}, out : Path \cup {None},
   file : Files \cup {None}, mod : Age, hold : Files \cup {None},
   temp : Files \cup {None}, want : Files \cup {None}]

Types ==
  /\ at \in [Path -> Files \cup {None}]
  /\ info \in [Files -> FileInfo]
  /\ rows \in [Name -> Row \cup {None}]
  /\ lock \in Handlers \cup {None, "sweep"}
  /\ hs \in [Handlers -> Request]
  /\ sweep \in [pc : {"idle", "erase"}, due : SUBSET Name, present : SUBSET Name]
  /\ offer \in {NoOffer} \cup [path : InTrash, file : Files \cup {None}]
  /\ unindexed \subseteq Files
  /\ raced \in BOOLEAN

\* What a request works on at each of its steps.
Working(r) ==
  \/ r = Idle
  \/ /\ r.op \in {"delete", "edit"} /\ r.src \in InDrive /\ r.file \in Files
     /\ r.op = "edit" => r.out \in InDrive /\ r.temp \in Files
     /\ r.op = "delete" => r.temp = None
     /\ \/ r.pc = "lock" /\ r.hold = None
        \/ r.pc \in {"move", "stamp", "index"} /\ r.dst \in InTrash /\ r.hold \in Files
        \/ r.pc = "land" /\ r.op = "edit" /\ r.hold \in Files
  \/ /\ r.op = "restore" /\ r.src \in InTrash /\ r.temp = None
     /\ \/ r.pc = "lock" /\ r.hold = None
        \/ r.pc \in {"move", "clear"} /\ r.dst \in InDrive /\ r.hold \in Files
  \/ /\ r.op = "rename" /\ r.pc = "move" /\ r.src \in Path /\ r.dst \in Path /\ r.src # r.dst
     /\ r.dst \in InTrash => r.src \in InTrash
     /\ r.hold = None /\ r.temp = None

HoldsLock(r) == r.pc \in {"stamp", "index", "clear"} \/ (r.pc = "move" /\ r.op # "rename")

Requests ==
  /\ \A h \in Handlers : Working(hs[h])
  /\ \A h \in Handlers : HoldsLock(hs[h]) => lock = h
  /\ sweep.pc = "erase" => lock = "sweep"

\* A file is in one place, and what is in a place is a user's file or a placeholder.
Placed ==
  /\ \A p, q \in Path : at[p] # None /\ at[p] = at[q] => p = q
  /\ \A p \in Path : at[p] # None => info[at[p]].kind \in {"file", "empty"}

\* A placeholder somebody holds never becomes a file; an edit's output is its own.
Own ==
  /\ \A h \in Handlers : hs[h].hold # None => info[hs[h].hold].kind \in {"empty", "unused"}
  /\ \A h \in Handlers : hs[h].temp # None => info[hs[h].temp].kind = "output"
  /\ \A h, g \in Handlers : hs[h].temp # None /\ hs[h].temp = hs[g].temp => h = g

\* What has a row and what the row says.
Indexed(n) ==
  LET f == at[Bin(n)]
  IN /\ f # None /\ info[f].kind = "file" => info[f].trashed # "no"
     /\ f # None /\ f \notin unindexed /\ info[f].trashed # "no" =>
          /\ rows[n] \in Row
          /\ rows[n].from = info[f].origin /\ rows[n].at = info[f].trashed
          /\ ~raced => rows[n].mod = info[f].was

\* Whatever is under a name whose row is about to be written has none of its own yet.
Unlisted(p) == at[p] # None => at[p] \in unindexed

\* From the rename to the row: what the row will say is so of the file.
Underway(h) ==
  LET r == hs[h]
  IN /\ r.pc \in {"stamp", "index"} =>
          /\ Unlisted(r.dst)
          /\ (\E n \in Name : at[Bin(n)] = r.file) =>
               /\ info[r.file].origin = r.src /\ info[r.file].trashed = "new"
               /\ ~raced => info[r.file].was = r.mod
     /\ r.pc = "clear" => Unlisted(r.src)
     /\ r.pc = "move" /\ r.op = "restore" => rows[r.src[2]] \in Row

\* Since the sweep looked, what came under a name has no row of its own.
Swept ==
  sweep.pc = "erase" => \A n \in Name :
    /\ n \notin sweep.present => Unlisted(Bin(n))
    /\ n \in sweep.due =>
         LET f == at[Bin(n)] IN f # None => f \in unindexed \/ info[f].trashed # "new"

IInv ==
  /\ Types /\ Requests /\ Placed /\ Own
  /\ \A n \in Name : Indexed(n)
  /\ \A h \in Handlers : Underway(h)
  /\ Swept
  /\ NothingLost /\ RetentionKept

----------------------------------------------------------------------------
(* Names and paths *)

LEMMA LeastNatural == ASSUME NEW S \in SUBSET Nat, S # {} PROVE Min(S) \in S
<1> DEFINE R == StrictSubsetOrdering(Nat)
           T == {0..x : x \in S}
<1>1. IsWellFoundedOn(R, FiniteSubsetsOf(Nat))
  BY FS_StrictSubsetOrderingWellFounded
<1>2. T \subseteq FiniteSubsetsOf(Nat) /\ T # {}
  <2>1. ASSUME NEW x \in S PROVE 0..x \in FiniteSubsetsOf(Nat)
    <3>1. IsFiniteSet(0..x)
      BY FS_Interval
    <3> QED
      BY <3>1 DEF FiniteSubsetsOf
  <2> QED
    BY <2>1
<1> HIDE DEF T, R
<1>3. PICK t \in T : \A u \in T : ~(<<u, t>> \in R)
  BY <1>1, <1>2, WFMin
<1>4. PICK x \in S : t = 0..x
  BY <1>3 DEF T
<1>5. \A y \in S : x =< y
  <2> SUFFICES ASSUME NEW y \in S, y < x PROVE FALSE
    OBVIOUS
  <2>1. 0..y \in T /\ 0..y \subseteq 0..x /\ 0..y # 0..x
    BY DEF T
  <2>2. <<0..y, 0..x>> \in R
    BY <2>1 DEF R, StrictSubsetOrdering
  <2> QED
    BY <2>1, <2>2, <1>3, <1>4
<1> QED
  BY <1>5 DEF Min

\* Every path is a name in the drive or one in the trash.
LEMMA Paths ==
  /\ \A n \in Name : Bin(n) \in InTrash /\ Bin(n)[2] = n /\ Drive(n) \in InDrive
  /\ \A p \in InTrash : p[2] \in Name /\ Bin(p[2]) = p /\ p[1] = "trash" /\ p \in Path
  /\ \A p \in InDrive : p[2] \in Name /\ p[1] = "drive" /\ p \in Path
  /\ \A p \in Path : p[2] \in Name /\ (p \in InTrash \/ p \in InDrive)
  /\ \A p \in InDrive : p \notin InTrash
  /\ Given \subseteq Name
BY DEF Bin, Drive, InTrash, InDrive, Path, Name

LEMMA FirstFreeIsFree ==
  ASSUME NEW d \in {"drive", "trash"}, NEW n \in Name, Untaken(d, n) # {}
  PROVE  FirstFree(d, n) \in Name /\ at[<<d, FirstFree(d, n)>>] = None
<1>1. Untaken(d, n) \in SUBSET Nat
  BY BoundsAssumption DEF Untaken
<1>2. Min(Untaken(d, n)) \in Untaken(d, n)
  BY <1>1, LeastNatural
<1> QED
  BY <1>2 DEF Untaken, FirstFree

\* A new file is nowhere and nobody's.
LEMMA FreshIsFree ==
  ASSUME Types, Placed, Own, FreeFiles # {}
  PROVE  /\ Fresh \in Files /\ info[Fresh].kind = "unused" /\ offer.file # Fresh
         /\ \A p \in Path : at[p] # Fresh
         /\ \A h \in Handlers : Fresh \notin {hs[h].file, hs[h].hold, hs[h].want, hs[h].temp}
<1>1. Fresh \in FreeFiles
  BY DEF Fresh
<1>2. Fresh # None
  BY <1>1, BoundsAssumption DEF FreeFiles
<1> QED
  BY <1>1, <1>2 DEF FreeFiles, Placed, Own, Types

\* What a request refers to is a file.
LEMMA Holdings ==
  ASSUME Types
  PROVE  /\ \A h \in Handlers : /\ hs[h].hold \in Files \cup {None}
                               /\ hs[h].temp \in Files \cup {None}
         /\ \A p \in Path : at[p] \in Files \cup {None}
         /\ None \notin Files
BY BoundsAssumption DEF Types, Request

LEMMA IdleIsARequest == Idle \in Request /\ Working(Idle) /\ ~HoldsLock(Idle)
BY DEF Idle, Request, Age, Working, HoldsLock

----------------------------------------------------------------------------
(* Steps that leave the disk alone *)

\* What stays true of a handler whose request is as it was, when the disk, the index and the
\* observers are.
LEMMA LookKeeps ==
  ASSUME IInv, NEW h \in Handlers, NEW r \in Request, hs' = [hs EXCEPT ![h] = r],
         Working(r), ~HoldsLock(r), r.hold = None, r.temp = None,
         UNCHANGED <<at, info, rows, lock, sweep, unindexed, raced, early>>,
         offer' \in {NoOffer} \cup [path : InTrash, file : Files \cup {None}]
  PROVE  IInv'
<1> USE DEF IInv
<1>1. hs'[h] = r /\ \A g \in Handlers : g # h => hs'[g] = hs[g]
  BY DEF Types
<1>2. Types'
  BY DEF Types
<1>3. Requests'
  BY <1>1 DEF Requests
<1>4. Placed' /\ Own'
  BY <1>1 DEF Placed, Own
<1>5. \A n \in Name : Indexed(n)'
  BY DEF Indexed
<1>6. ASSUME NEW g \in Handlers PROVE Underway(g)'
  <2>1. CASE g = h
    BY <1>1, <2>1 DEF Underway, HoldsLock
  <2>2. CASE g # h
    BY <1>1, <2>2 DEF Underway, Unlisted
  <2> QED
    BY <2>1, <2>2
<1>7. Swept' /\ NothingLost' /\ RetentionKept'
  BY DEF Swept, Unlisted, NothingLost, RetentionKept
<1> QED
  BY <1>2, <1>3, <1>4, <1>5, <1>6, <1>7

LEMMA DeleteBeginKeeps ==
  ASSUME IInv, NEW h \in Handlers, NEW n \in Name, DeleteBegin(h, n) PROVE IInv'
<1> DEFINE f == at[Drive(n)]
           r == [Idle EXCEPT !.op = "delete", !.pc = "lock", !.src = Drive(n),
                             !.file = f, !.mod = info[f].mtime]
<1>1. Drive(n) \in InDrive /\ Drive(n) \in Path /\ f \in Files
  BY Paths DEF DeleteBegin, IInv, Types
<1>2. info[f].mtime \in Age
  BY <1>1 DEF IInv, Types, FileInfo
<1>3. r \in Request /\ Working(r) /\ ~HoldsLock(r) /\ r.hold = None /\ r.temp = None
  BY <1>1, <1>2 DEF Request, Idle, Working, HoldsLock
<1>4. /\ hs' = [hs EXCEPT ![h] = r]
      /\ UNCHANGED <<at, info, rows, lock, sweep, unindexed, raced, early, offer>>
  BY DEF DeleteBegin, Begin, observers
<1>5. offer' \in {NoOffer} \cup [path : InTrash, file : Files \cup {None}]
  BY <1>4 DEF IInv, Types
<1> HIDE DEF r
<1> QED
  BY <1>3, <1>4, <1>5, LookKeeps

LEMMA RestoreBeginKeeps ==
  ASSUME IInv, NEW h \in Handlers, NEW p \in InTrash, NEW want \in Files \cup {None},
         RestoreBegin(h, p, want), offer' \in {offer, NoOffer}
  PROVE  IInv'
<1> DEFINE r == [Idle EXCEPT !.op = "restore", !.pc = "lock", !.src = p, !.want = want]
<1>1. r \in Request /\ Working(r) /\ ~HoldsLock(r) /\ r.hold = None /\ r.temp = None
  BY Paths DEF Request, Idle, Working, HoldsLock, Age
<1>2. /\ hs' = [hs EXCEPT ![h] = r]
      /\ UNCHANGED <<at, info, rows, lock, sweep, unindexed, raced, early>>
  BY DEF RestoreBegin, Begin, observers
<1>3. offer' \in {NoOffer} \cup [path : InTrash, file : Files \cup {None}]
  BY <1>2 DEF IInv, Types
<1> HIDE DEF r
<1> QED
  BY <1>1, <1>2, <1>3, LookKeeps

LEMMA RestoreKeeps ==
  ASSUME IInv, NEW h \in Handlers, NEW n \in Name, Restore(h, n) PROVE IInv'
<1>1. Bin(n) \in InTrash
  BY Paths
<1> QED
  BY <1>1, RestoreBeginKeeps DEF Restore

LEMMA UndoKeeps == ASSUME IInv, NEW h \in Handlers, Undo(h) PROVE IInv'
<1>1. offer.path \in InTrash /\ offer.file \in Files \cup {None}
  BY DEF Undo, IInv, Types
<1> QED
  BY <1>1, RestoreBeginKeeps DEF Undo

LEMMA RenameBeginKeeps ==
  ASSUME IInv, NEW h \in Handlers, NEW p \in Path, NEW q \in Path, RenameBegin(h, p, q)
  PROVE  IInv'
<1> DEFINE r == [Idle EXCEPT !.op = "rename", !.pc = "move", !.src = p, !.dst = q]
<1>1. p # q /\ (q \in InTrash => p \in InTrash)
  BY Paths DEF RenameBegin
<1>2. r \in Request /\ Working(r) /\ ~HoldsLock(r) /\ r.hold = None /\ r.temp = None
  BY <1>1 DEF Request, Idle, Working, HoldsLock, Age
<1>3. /\ hs' = [hs EXCEPT ![h] = r]
      /\ UNCHANGED <<at, info, rows, lock, sweep, unindexed, raced, early, offer>>
  BY DEF RenameBegin, Begin, observers
<1>4. offer' \in {NoOffer} \cup [path : InTrash, file : Files \cup {None}]
  BY <1>3 DEF IInv, Types
<1> HIDE DEF r
<1> QED
  BY <1>2, <1>3, <1>4, LookKeeps

LEMMA GiveUpKeeps ==
  ASSUME IInv, NEW h \in Handlers, RestoreRefused(h) \/ RenameGone(h) PROVE IInv'
<1>1. /\ hs' = [hs EXCEPT ![h] = Idle]
      /\ UNCHANGED <<at, info, rows, lock, sweep, unindexed, raced, early, offer>>
  BY DEF RestoreRefused, RenameGone, Return, observers
<1>2. Idle.hold = None /\ Idle.temp = None
  BY DEF Idle
<1>3. offer' \in {NoOffer} \cup [path : InTrash, file : Files \cup {None}]
  BY <1>1 DEF IInv, Types
<1> QED
  BY <1>1, <1>2, <1>3, IdleIsARequest, LookKeeps

----------------------------------------------------------------------------
(* Deletes and edits *)

LEMMA EditBeginKeeps ==
  ASSUME IInv, NEW h \in Handlers, NEW n \in Name, NEW m \in Name, EditBegin(h, n, m)
  PROVE  IInv'
<1> DEFINE f == at[Drive(n)]
           r == [Idle EXCEPT !.op = "edit", !.pc = "lock", !.src = Drive(n), !.out = Drive(m),
                             !.file = f, !.mod = info[f].mtime, !.temp = Fresh]
<1> USE DEF IInv
<1>1. f \in Files /\ info[f].mtime \in Age /\ Drive(n) \in InDrive /\ Drive(m) \in InDrive
  BY Paths DEF EditBegin, Types, FileInfo
<1>2. /\ Fresh \in Files /\ info[Fresh].kind = "unused"
      /\ \A p \in Path : at[p] # Fresh
      /\ \A g \in Handlers : Fresh \notin {hs[g].file, hs[g].hold, hs[g].want, hs[g].temp}
  BY FreshIsFree DEF EditBegin
<1>3. /\ r \in Request /\ Working(r) /\ ~HoldsLock(r) /\ r.hold = None /\ r.temp = Fresh
      /\ r.pc = "lock"
  BY <1>1, <1>2, Paths DEF Request, Idle, Working, HoldsLock
<1>4. /\ hs' = [hs EXCEPT ![h] = r]
      /\ info' = [info EXCEPT ![Fresh] = [Unused EXCEPT !.kind = "output"]]
      /\ UNCHANGED <<at, rows, lock, sweep, unindexed, raced, early, offer>>
  BY DEF EditBegin, Begin, observers
<1> HIDE DEF r, f
<1>5. /\ hs'[h] = r /\ \A g \in Handlers : g # h => hs'[g] = hs[g]
      /\ info'[Fresh].kind = "output" /\ \A g \in Files : g # Fresh => info'[g] = info[g]
  BY <1>2, <1>4 DEF Types, Unused
<1>6. Types'
  BY <1>2, <1>3, <1>4 DEF Types, FileInfo, Unused, Age
<1>7. Requests'
  BY <1>3, <1>4, <1>5 DEF Requests
<1>8. Placed'
  BY <1>2, <1>4, <1>5 DEF Placed, Types
<1>9. Own'
  BY <1>2, <1>3, <1>5, Holdings DEF Own
<1>10. ASSUME NEW k \in Name PROVE Indexed(k)'
  BY <1>2, <1>4, <1>5, Paths DEF Indexed, Types
<1>11. ASSUME NEW g \in Handlers PROVE Underway(g)'
  <2>1. CASE g = h
    BY <1>3, <1>5, <2>1 DEF Underway
  <2>2. CASE g # h
    BY <1>2, <1>4, <1>5, <2>2 DEF Underway, Unlisted, Types, Requests, Working
  <2> QED
    BY <2>1, <2>2
<1>12. Swept'
  BY <1>2, <1>4, <1>5, Paths DEF Swept, Unlisted, Types
<1>13. NothingLost' /\ RetentionKept'
  BY <1>2, <1>4, <1>5 DEF NothingLost, RetentionKept
<1> QED
  BY <1>6, <1>7, <1>8, <1>9, <1>10, <1>11, <1>12, <1>13

\* A placeholder at a free path, held by the goroutine that has just taken trashMu.
LEMMA PlaceholderKeeps ==
  ASSUME IInv, NEW h \in Handlers, NEW p \in Path, at[p] = None, Placeholder(p), Take(h),
         NEW r \in Request, hs' = [hs EXCEPT ![h] = r], Working(r), r.pc = "move",
         r.hold = Fresh, r.temp = hs[h].temp, r.op = "restore" => rows[r.src[2]] \in Row,
         UNCHANGED <<rows, sweep, unindexed, raced, early, offer>>
  PROVE  IInv'
<1> USE DEF IInv
<1>1. /\ Fresh \in Files /\ info[Fresh].kind = "unused"
      /\ \A q \in Path : at[q] # Fresh
      /\ \A g \in Handlers : Fresh \notin {hs[g].file, hs[g].hold, hs[g].want, hs[g].temp}
  BY FreshIsFree DEF Placeholder
<1>2. /\ hs'[h] = r /\ \A g \in Handlers : g # h => hs'[g] = hs[g]
      /\ info'[Fresh] = [Unused EXCEPT !.kind = "empty"]
      /\ \A f \in Files : f # Fresh => info'[f] = info[f]
      /\ at'[p] = Fresh /\ \A q \in Path : q # p => at'[q] = at[q]
  BY <1>1 DEF Placeholder, Types
<1>3. info'[Fresh].kind = "empty" /\ info'[Fresh].trashed = "no"
  BY <1>2 DEF Unused
<1>4. /\ \A g \in Handlers : ~HoldsLock(hs[g]) /\ sweep.pc = "idle" /\ lock' = h
  BY BoundsAssumption DEF Take, Requests, Types
<1>5. Types'
  BY <1>1, <1>2 DEF Placeholder, Take, Types, FileInfo, Unused, Age
<1>6. Requests'
  BY <1>2, <1>4 DEF Requests
<1>7. Placed'
  <2>1. ASSUME NEW q \in Path, NEW o \in Path, at'[q] # None, at'[q] = at'[o] PROVE q = o
    BY <1>1, <1>2, <2>1 DEF Placed
  <2>2. ASSUME NEW q \in Path, at'[q] # None PROVE info'[at'[q]].kind \in {"file", "empty"}
    <3>1. CASE q = p
      BY <1>2, <1>3, <3>1
    <3>2. CASE q # p
      <4>1. at'[q] = at[q] /\ at[q] \in Files /\ at[q] # Fresh
        BY <1>1, <1>2, <2>2, <3>2, Holdings
      <4> QED
        BY <1>2, <4>1, <2>2 DEF Placed
    <3> QED
      BY <3>1, <3>2
  <2> QED
    BY <2>1, <2>2 DEF Placed
<1>8. Own'
  <2>1. ASSUME NEW g \in Handlers
        PROVE  /\ hs'[g].hold # None => info'[hs'[g].hold].kind \in {"empty", "unused"}
               /\ hs'[g].temp # None => info'[hs'[g].temp].kind = "output"
               /\ hs'[g].temp = hs[g].temp
    <3>1. hs'[g].temp = hs[g].temp /\ hs[g].temp # Fresh
      BY <1>1, <1>2
    <3>2. hs'[g].temp # None => info'[hs'[g].temp].kind = "output"
      BY <1>2, <3>1, Holdings DEF Own
    <3>3. CASE g = h
      BY <1>2, <1>3, <3>1, <3>2, <3>3
    <3>4. CASE g # h
      BY <1>1, <1>2, <3>1, <3>2, <3>4, Holdings DEF Own
    <3> QED
      BY <3>3, <3>4
  <2> QED
    BY <2>1 DEF Own
<1>9. ASSUME NEW k \in Name PROVE Indexed(k)'
  <2>1. CASE Bin(k) = p
    BY <1>1, <1>2, <1>3, <2>1, BoundsAssumption DEF Indexed
  <2>2. CASE Bin(k) # p
    BY <1>1, <1>2, <2>2, Paths DEF Indexed, Types
  <2> QED
    BY <2>1, <2>2
<1>10. ASSUME NEW g \in Handlers PROVE Underway(g)'
  <2>1. CASE g = h
    BY <1>2, <2>1 DEF Underway
  <2>2. CASE g # h
    BY <1>2, <1>4, <2>2 DEF Underway, HoldsLock
  <2> QED
    BY <2>1, <2>2
<1>11. Swept' /\ RetentionKept'
  BY <1>4 DEF Swept, RetentionKept
<1>12. NothingLost'
  BY <1>1, <1>2, <1>3, BoundsAssumption DEF NothingLost
<1> QED
  BY <1>5, <1>6, <1>7, <1>8, <1>9, <1>10, <1>11, <1>12

LEMMA ReserveKeeps == ASSUME IInv, NEW h \in Handlers, Reserve(h) PROVE IInv'
<1> DEFINE p == Bin(FirstFree("trash", hs[h].src[2]))
           r == [hs[h] EXCEPT !.pc = "move", !.dst = p, !.hold = Fresh]
<1> USE DEF IInv
<1>1. /\ hs[h] \in Request /\ Working(hs[h]) /\ hs[h].op \in {"delete", "edit"}
      /\ hs[h].pc = "lock" /\ hs[h].src \in InDrive
  BY DEF Reserve, Requests, Working, Types, Idle
<1>2. p \in InTrash /\ at[p] = None
  BY <1>1, Paths, FirstFreeIsFree DEF Reserve, Bin
<1>3. Fresh \in Files
  BY FreshIsFree DEF Reserve, Placeholder
<1>4. r \in Request /\ r.pc = "move" /\ r.hold = Fresh /\ r.temp = hs[h].temp /\ r.op = hs[h].op
  BY <1>1, <1>2, <1>3, Paths, ZenonT(40) DEF Request
<1>5. Working(r)
  BY <1>1, <1>2, <1>3, <1>4 DEF Working, Request, Idle
<1>6. /\ hs' = [hs EXCEPT ![h] = r] /\ Placeholder(p) /\ Take(h)
      /\ UNCHANGED <<rows, sweep, unindexed, raced, early, offer>>
  BY <1>1 DEF Reserve, observers, Types
<1> HIDE DEF r, p
<1> QED
  BY <1>1, <1>2, <1>4, <1>5, <1>6, Paths, PlaceholderKeeps

LEMMA RestoreReserveKeeps == ASSUME IInv, NEW h \in Handlers, RestoreReserve(h) PROVE IInv'
<1> DEFINE row == rows[hs[h].src[2]]
           p == Drive(FirstFree("drive", row.from[2]))
           r == [hs[h] EXCEPT !.pc = "move", !.dst = p, !.hold = Fresh]
<1> USE DEF IInv
<1>1. /\ hs[h] \in Request /\ Working(hs[h]) /\ hs[h].op = "restore" /\ hs[h].pc = "lock"
      /\ hs[h].src \in InTrash /\ hs[h].src[2] \in Name
  BY Paths DEF RestoreReserve, Requests, Working, Types, Idle
<1>2. row \in Row /\ row.from[2] \in Name
  BY <1>1, Paths DEF RestoreReserve, Types, Row
<1>3. p \in InDrive /\ at[p] = None
  BY <1>2, Paths, FirstFreeIsFree DEF RestoreReserve, Drive
<1> HIDE DEF p
<1>4. Fresh \in Files
  BY FreshIsFree DEF RestoreReserve, Placeholder
<1>5. /\ r \in Request /\ r.pc = "move" /\ r.hold = Fresh /\ r.temp = hs[h].temp
      /\ r.op = hs[h].op /\ r.src = hs[h].src
  BY <1>1, <1>3, <1>4, Paths DEF Request
<1>6. Working(r)
  BY <1>1, <1>3, <1>4, <1>5 DEF Working, Request, Idle
<1>7. /\ hs' = [hs EXCEPT ![h] = r] /\ Placeholder(p) /\ Take(h)
      /\ UNCHANGED <<rows, sweep, unindexed, raced, early, offer>>
  BY <1>1 DEF RestoreReserve, observers, Types, p
<1> HIDE DEF r, p
<1> QED
  BY <1>2, <1>3, <1>5, <1>6, <1>7, Paths, PlaceholderKeeps

\* While a goroutine has trashMu nobody else does.
LEMMA LockHeld ==
  ASSUME Types, Requests, NEW h \in Handlers, HoldsLock(hs[h])
  PROVE  lock = h /\ sweep.pc = "idle" /\ \A g \in Handlers : g # h => ~HoldsLock(hs[g])
BY BoundsAssumption DEF Requests, Types

\* Without the lock there is no row to be written.
LEMMA NothingUnderway ==
  ASSUME NEW h \in Handlers, ~HoldsLock(hs'[h]) PROVE Underway(h)'
BY DEF Underway, HoldsLock

\* What is renamed onto a placeholder removes it.
LEMMA CoveredFiles ==
  ASSUME Types, NEW p \in Path
  PROVE  /\ Covered(at[p]) \in [Files -> FileInfo]
         /\ \A f \in Files : f # at[p] => Covered(at[p])[f] = info[f]
         /\ \A f \in Files : \/ Covered(at[p])[f] = info[f]
                             \/ /\ f = at[p] /\ info[f].kind = "empty"
                                /\ Covered(at[p])[f] = Unused
<1>1. Unused \in FileInfo
  BY DEF Unused, FileInfo, Age
<1> QED
  BY <1>1, Holdings DEF Covered, Removed, Types

\* Requests hold no other placeholder and no other output than before.
LEMMA OwnKept ==
  ASSUME Types, Own,
         \A g \in Handlers : hs'[g].hold \in {hs[g].hold, None} /\ hs'[g].temp \in {hs[g].temp, None},
         \A f \in Files : info[f].kind \in {"empty", "unused"} => info'[f].kind \in {"empty", "unused"},
         \A g \in Handlers : hs'[g].temp # None => info'[hs'[g].temp].kind = "output"
  PROVE  Own'
<1>1. ASSUME NEW g \in Handlers, hs'[g].hold # None
      PROVE  info'[hs'[g].hold].kind \in {"empty", "unused"}
  BY <1>1, Holdings DEF Own
<1>2. \A g, k \in Handlers : hs'[g].temp # None /\ hs'[g].temp = hs'[k].temp => g = k
  BY DEF Own
<1> QED
  BY <1>1, <1>2 DEF Own

\* A file that is renamed, and a placeholder that it may cover.
LEMMA MovedKeeps ==
  ASSUME Types, Placed, NEW p \in Path, NEW q \in Path, p # q, at[p] # None,
         at' = [at EXCEPT ![p] = None, ![q] = at[p]],
         \A f \in Files : \/ info'[f].kind = info[f].kind
                          \/ f = at[q] /\ info[f].kind = "empty" /\ info'[f].kind = "unused"
  PROVE  /\ Placed'
         /\ \A x \in Path : x # p /\ x # q => at'[x] = at[x]
         /\ at'[p] = None /\ at'[q] = at[p] /\ at[p] \in Files /\ at[p] # at[q]
         /\ NothingLost /\ (~raced' => ~raced)
              /\ (~raced' => at[q] = None \/ info[at[q]].kind = "empty") => NothingLost'
<1>1. /\ \A x \in Path : x # p /\ x # q => at'[x] = at[x]
      /\ at'[p] = None /\ at'[q] = at[p] /\ at[p] \in Files /\ at[p] # at[q]
  BY Holdings DEF Types, Placed
<1>2. \A x, y \in Path : at'[x] # None /\ at'[x] = at'[y] => x = y
  BY <1>1 DEF Placed
<1>3. ASSUME NEW x \in Path, at'[x] # None PROVE info'[at'[x]].kind \in {"file", "empty"}
  <2>1. PICK y \in Path : at'[x] = at[y] /\ y # q
    BY <1>1, <1>3
  <2>2. at[y] \in Files /\ at[y] # at[q]
    BY <2>1, <1>3, Holdings DEF Placed
  <2> QED
    BY <2>1, <2>2, <1>3 DEF Placed
<1>4. ASSUME NothingLost, ~raced' => ~raced,
             ~raced' => at[q] = None \/ info[at[q]].kind = "empty"
      PROVE  NothingLost'
  <2> SUFFICES ASSUME ~raced', NEW f \in Files, info'[f].kind = "file"
               PROVE  \E x \in Path : at'[x] = f
    BY DEF NothingLost
  <2>1. info[f].kind = "file"
    OBVIOUS
  <2>2. PICK x \in Path : at[x] = f
    BY <2>1, <1>4 DEF NothingLost
  <2>3. x # q
    BY <2>1, <2>2, <1>4, Holdings
  <2> QED
    BY <2>2, <2>3, <1>1
<1> QED
  BY <1>1, <1>2, <1>3, <1>4 DEF Placed

LEMMA MoveInKeeps == ASSUME IInv, NEW h \in Handlers, MoveIn(h) PROVE IInv'
<1> DEFINE r == hs[h]
           f == at[r.src]
           s == [r EXCEPT !.pc = "stamp", !.file = f]
<1> USE DEF IInv
<1>1. /\ r \in Request /\ r.op \in {"delete", "edit"} /\ r.pc = "move"
      /\ r.src \in InDrive /\ r.dst \in InTrash /\ r.hold \in Files
      /\ Working(r) /\ HoldsLock(r)
  <2>1. r \in Request /\ Working(r)
    BY DEF Types, Requests
  <2>2. r.op \in {"delete", "edit"} /\ r.pc = "move"
    BY DEF MoveIn
  <2> HIDE DEF r
  <2> QED
    BY <2>1, <2>2 DEF Working, Idle, HoldsLock
<1>2. /\ r.src \in Path /\ r.dst \in Path /\ r.src # r.dst /\ f \in Files
  BY <1>1, Paths, Holdings DEF MoveIn
<1>3. lock = h /\ sweep.pc = "idle" /\ \A g \in Handlers : g # h => ~HoldsLock(hs[g])
  BY <1>1, LockHeld
<1>4. /\ at' = [at EXCEPT ![r.src] = None, ![r.dst] = f]
      /\ info' = [Covered(at[r.dst]) EXCEPT ![f].trashed = "new", ![f].origin = r.src,
                                           ![f].was = info[f].mtime]
      /\ hs' = [hs EXCEPT ![h] = s]
      /\ unindexed' = unindexed \cup {f}
      /\ raced' \in BOOLEAN
      /\ ~raced' => ~raced /\ f = r.file /\ info[f].mtime = r.mod /\ at[r.dst] = r.hold
      /\ UNCHANGED <<rows, lock, sweep, offer, early>>
  BY <1>1 DEF MoveIn, Types
<1> HIDE DEF r, f, s
<1>5. f # at[r.dst]
  BY <1>2, Holdings DEF Placed, f
<1>6. /\ info' \in [Files -> FileInfo]
      /\ info'[f].kind = info[f].kind /\ info'[f].trashed = "new" /\ info'[f].origin = r.src
      /\ info'[f].was = info[f].mtime
      /\ \A g \in Files : g # f /\ g # at[r.dst] => info'[g] = info[g]
      /\ \A g \in Files : \/ info'[g].kind = info[g].kind
                          \/ g = at[r.dst] /\ info[g].kind = "empty" /\ info'[g].kind = "unused"
  <2>1. /\ Covered(at[r.dst]) \in [Files -> FileInfo] /\ Covered(at[r.dst])[f] = info[f]
        /\ \A g \in Files : g # at[r.dst] => Covered(at[r.dst])[g] = info[g]
        /\ \A g \in Files : \/ Covered(at[r.dst])[g] = info[g]
                            \/ /\ g = at[r.dst] /\ info[g].kind = "empty"
                               /\ Covered(at[r.dst])[g].kind = "unused"
    BY <1>2, <1>5, CoveredFiles DEF Unused
  <2>2. info[f] \in FileInfo
    BY <1>2 DEF Types
  <2>3. info'[f] = [info[f] EXCEPT !.trashed = "new", !.origin = r.src, !.was = info[f].mtime]
    BY <2>1, <2>2, <1>2, <1>4
  <2>4. \A g \in Files : g # f => info'[g] = Covered(at[r.dst])[g]
    BY <2>1, <1>4
  <2>5. info'[f] \in FileInfo
    BY <2>2, <2>3, <1>2 DEF FileInfo, Age
  <2>6. /\ info'[f].kind = info[f].kind /\ info'[f].trashed = "new" /\ info'[f].origin = r.src
        /\ info'[f].was = info[f].mtime
    BY <2>2, <2>3 DEF FileInfo
  <2>7. info' \in [Files -> FileInfo]
    BY <2>1, <2>4, <2>5, <1>4
  <2> QED
    BY <2>1, <2>4, <2>6, <2>7
<1>7. /\ s \in Request /\ Working(s) /\ HoldsLock(s) /\ s.pc = "stamp" /\ s.dst = r.dst
      /\ s.file = f /\ s.mod = r.mod /\ s.src = r.src /\ s.hold = r.hold /\ s.temp = r.temp
  <2>1. /\ s \in Request /\ s.pc = "stamp" /\ s.dst = r.dst /\ s.out = r.out /\ s.op = r.op
        /\ s.file = f /\ s.mod = r.mod /\ s.src = r.src /\ s.hold = r.hold /\ s.temp = r.temp
    BY <1>1, <1>2 DEF Request, s
  <2> QED
    BY <2>1, <1>1, <1>2 DEF Working, HoldsLock, Idle
<1>8. /\ hs'[h] = s /\ \A g \in Handlers : g # h => hs'[g] = hs[g]
  BY <1>4 DEF Types
<1>9. /\ \A x \in Path : x # r.src /\ x # r.dst => at'[x] = at[x]
      /\ at'[r.src] = None /\ at'[r.dst] = f
  BY <1>2, <1>4 DEF Types
<1>10. Types'
  <2>1. at' \in [Path -> Files \cup {None}]
    BY <1>2, <1>4 DEF Types
  <2>2. unindexed' \subseteq Files /\ raced' \in BOOLEAN /\ hs' \in [Handlers -> Request]
    BY <1>2, <1>4, <1>7 DEF Types
  <2> QED
    BY <2>1, <2>2, <1>4, <1>6 DEF Types
<1>11. Requests'
  BY <1>3, <1>4, <1>7, <1>8 DEF Requests
<1>12. Placed' /\ NothingLost'
  <2>1. ~raced' => at[r.dst] = None \/ info[at[r.dst]].kind = "empty"
    BY <1>1, <1>2, <1>4, BoundsAssumption DEF Placed, Own, r
  <2>2. at[r.src] # None /\ at' = [at EXCEPT ![r.src] = None, ![r.dst] = at[r.src]]
    BY <1>2, <1>4, Holdings DEF f
  <2>3. NothingLost /\ (~raced' => ~raced)
    BY <1>4
  <2> QED
    BY <2>1, <2>2, <2>3, <1>2, <1>6, MovedKeeps, ZenonT(40)
<1>13. Own'
  <2>1. \A g \in Handlers : hs'[g].temp # None => info'[hs'[g].temp].kind = "output"
    BY <1>6, <1>7, <1>8, Holdings DEF Own, r
  <2> QED
    BY <2>1, <1>6, <1>7, <1>8, OwnKept DEF r
<1>14. ASSUME NEW n \in Name PROVE Indexed(n)'
  <2>1. CASE Bin(n) = r.dst
    <3>1. at'[Bin(n)] = f /\ f \in unindexed'
      BY <1>4, <1>9, <2>1
    <3> QED
      BY <3>1, <1>6 DEF Indexed
  <2>2. CASE Bin(n) # r.dst
    <3>1. Bin(n) \in Path /\ at'[Bin(n)] = at[Bin(n)]
      BY <1>1, <1>9, <2>2, Paths
    <3>2. at[Bin(n)] # None => /\ at[Bin(n)] \in Files /\ at[Bin(n)] # f
                               /\ at[Bin(n)] # at[r.dst]
      BY <1>1, <1>2, <2>2, <3>1, Holdings, Paths DEF Placed, f
    <3>3. at[Bin(n)] # None =>
            /\ info'[at[Bin(n)]] = info[at[Bin(n)]]
            /\ at[Bin(n)] \notin unindexed' => at[Bin(n)] \notin unindexed
      BY <1>4, <1>6, <3>2
    <3>4. Indexed(n) /\ rows'[n] = rows[n] /\ (~raced' => ~raced)
      BY <1>4
    <3> QED
      BY <3>1, <3>3, <3>4 DEF Indexed
  <2> QED
    BY <2>1, <2>2
<1>15. ASSUME NEW g \in Handlers PROVE Underway(g)'
  <2>1. CASE g = h
    <3>1. f \in unindexed' /\ (~raced' => info'[f].was = r.mod)
      BY <1>4, <1>6
    <3> QED
      BY <3>1, <1>6, <1>7, <1>8, <1>9, <2>1 DEF Underway, Unlisted
  <2>2. CASE g # h
    BY <1>3, <1>8, <2>2, NothingUnderway
  <2> QED
    BY <2>1, <2>2
<1>16. Swept' /\ RetentionKept'
  BY <1>3, <1>4 DEF Swept, RetentionKept
<1> QED
  BY <1>10, <1>11, <1>12, <1>13, <1>14, <1>15, <1>16

\* A request whose file has gone gives up, and what is at the name it reserved is removed.
LEMMA RenameFailsKeeps ==
  ASSUME IInv, NEW h \in Handlers, MoveInFails(h) \/ RestoreMoveFails(h) PROVE IInv'
<1> DEFINE r == hs[h]
           g == at[r.dst]
<1> USE DEF IInv
<1>1. /\ r \in Request /\ HoldsLock(r) /\ r.dst \in Path /\ r.hold \in Files
      /\ r.pc = "move" /\ r.op \in {"delete", "edit", "restore"}
  BY Paths DEF MoveInFails, RestoreMoveFails, Requests, Working, Types, Idle, HoldsLock
<1>2. lock = h /\ sweep.pc = "idle" /\ \A k \in Handlers : k # h => ~HoldsLock(hs[k])
  BY <1>1, LockHeld
<1>3. /\ at' = [at EXCEPT ![r.dst] = None]
      /\ hs' = [hs EXCEPT ![h] = Idle] /\ lock' = None
      /\ raced' \in BOOLEAN /\ (~raced' => ~raced /\ g = r.hold)
      /\ UNCHANGED <<rows, sweep, offer, unindexed, early>>
  BY DEF MoveInFails, RestoreMoveFails, Release, Return, Types
<1>4. /\ info' \in [Files -> FileInfo]
      /\ \A f \in Files : f # r.temp /\ f # g => info'[f] = info[f]
      /\ \A f \in Files : \/ info'[f].kind = info[f].kind
                          \/ f = r.temp /\ info'[f].kind = "unused"
                          \/ f = g /\ info[f].kind = "empty" /\ info'[f].kind = "unused"
  <2>1. CASE MoveInFails(h)
    <3>1. Unused \in FileInfo /\ Unused.kind = "unused"
      BY DEF Unused, FileInfo, Age
    <3>2. info' = [f \in Files |-> IF f = r.temp \/ (f = g /\ info[g].kind = "empty")
                                   THEN Unused ELSE info[f]]
      BY <2>1 DEF MoveInFails
    <3> QED
      BY <3>1, <3>2 DEF Types
  <2>2. CASE RestoreMoveFails(h)
    <3>1. info' = Covered(at[r.dst])
      BY <2>2 DEF RestoreMoveFails
    <3> QED
      BY <3>1, <1>1, CoveredFiles DEF Unused
  <2> QED
    BY <2>1, <2>2, <1>3
<1> HIDE DEF r, g
<1>5. /\ hs'[h] = Idle /\ \A k \in Handlers : k # h => hs'[k] = hs[k]
      /\ at'[r.dst] = None /\ \A q \in Path : q # r.dst => at'[q] = at[q]
  BY <1>1, <1>3 DEF Types
<1>6. Types'
  BY <1>3, <1>4, IdleIsARequest DEF Types
<1>7. Requests'
  BY <1>2, <1>3, <1>5, IdleIsARequest DEF Requests
<1>8. \A q \in Path : at[q] # None => at[q] \in Files /\ at[q] # r.temp
  BY Holdings DEF Placed, Own, r
<1>9. \A q \in Path : q # r.dst /\ at[q] # None =>
        at[q] \in Files /\ at[q] # g /\ info'[at[q]] = info[at[q]]
  BY <1>1, <1>4, <1>8 DEF Placed, g
<1>10. Placed'
  BY <1>5, <1>9 DEF Placed
<1>11. Own'
  <2>1. \A f \in Files : info[f].kind \in {"empty", "unused"} => info'[f].kind \in {"empty", "unused"}
    BY <1>4
  <2>2. \A k \in Handlers : hs'[k].hold \in {hs[k].hold, None} /\ hs'[k].temp \in {hs[k].temp, None}
    BY <1>5 DEF Idle
  <2>3. ASSUME NEW k \in Handlers, hs'[k].temp # None PROVE info'[hs'[k].temp].kind = "output"
    <3>1. k # h /\ hs'[k].temp = hs[k].temp
      BY <2>3, <1>5 DEF Idle
    <3>2. hs[k].temp \in Files /\ hs[k].temp # r.temp /\ info[hs[k].temp].kind = "output"
      BY <2>3, <3>1, Holdings DEF Own, r
    <3> QED
      BY <3>1, <3>2, <1>4
  <2> QED
    BY <2>1, <2>2, <2>3, OwnKept
<1>12. ASSUME NEW n \in Name PROVE Indexed(n)'
  <2>1. Bin(n) \in Path
    BY Paths
  <2>2. CASE Bin(n) = r.dst
    BY <1>5, <2>2 DEF Indexed
  <2>3. CASE Bin(n) # r.dst
    <3>1. Indexed(n) /\ rows'[n] = rows[n] /\ (~raced' => ~raced) /\ unindexed' = unindexed
      BY <1>3
    <3> QED
      BY <1>5, <1>9, <2>1, <2>3, <3>1 DEF Indexed
  <2> QED
    BY <2>2, <2>3
<1>13. \A k \in Handlers : Underway(k)'
  BY <1>2, <1>5, IdleIsARequest, NothingUnderway
<1>14. Swept' /\ RetentionKept'
  BY <1>2, <1>3 DEF Swept, RetentionKept
<1>15. NothingLost'
  <2> SUFFICES ASSUME ~raced', NEW f \in Files, info'[f].kind = "file"
               PROVE  \E p \in Path : at'[p] = f
    BY DEF NothingLost
  <2>1. info[f].kind = "file" /\ ~raced /\ g = r.hold
    BY <1>3, <1>4
  <2>2. PICK p \in Path : at[p] = f
    BY <2>1 DEF NothingLost
  <2>3. p # r.dst
    BY <2>1, <2>2, <1>1, BoundsAssumption DEF Own, g, r
  <2> QED
    BY <2>2, <2>3, <1>5
<1> QED
  BY <1>6, <1>7, <1>10, <1>11, <1>12, <1>13, <1>14, <1>15

LEMMA StampKeeps == ASSUME IInv, NEW h \in Handlers, Stamp(h) PROVE IInv'
<1> DEFINE r == hs[h]
           f == at[r.dst]
           s == [r EXCEPT !.pc = "index"]
<1> USE DEF IInv
<1>1. /\ r \in Request /\ Working(r) /\ r.pc = "stamp" /\ r.dst \in Path
      /\ f \in Files \cup {None} /\ HoldsLock(r)
  BY Paths, Holdings DEF Stamp, Requests, Working, Types, Idle, HoldsLock
<1>2. lock = h /\ sweep.pc = "idle" /\ \A k \in Handlers : k # h => ~HoldsLock(hs[k])
  BY <1>1, LockHeld
<1>3. /\ hs' = [hs EXCEPT ![h] = s]
      /\ info' = IF f = None THEN info ELSE [info EXCEPT ![f].mtime = "new"]
      /\ UNCHANGED <<at, rows, lock, sweep, offer, unindexed, raced, early>>
  BY DEF Stamp, Goto, observers
<1> HIDE DEF r, f, s
<1>4. /\ s \in Request /\ s.pc = "index" /\ s.op = r.op /\ s.src = r.src /\ s.dst = r.dst
      /\ s.file = r.file /\ s.mod = r.mod /\ s.hold = r.hold /\ s.temp = r.temp /\ s.out = r.out
  BY <1>1 DEF Request, s
<1>5. Working(s) /\ HoldsLock(s)
  BY <1>1, <1>4 DEF Working, HoldsLock, Idle
<1>6. /\ hs'[h] = s /\ \A k \in Handlers : k # h => hs'[k] = hs[k]
  BY <1>3 DEF Types
<1>7. /\ info' \in [Files -> FileInfo]
      /\ \A g \in Files : /\ info'[g].kind = info[g].kind /\ info'[g].trashed = info[g].trashed
                          /\ info'[g].origin = info[g].origin /\ info'[g].was = info[g].was
  <2>1. CASE f = None
    BY <1>3, <2>1 DEF Types
  <2>2. CASE f # None
    <3>1. info' = [info EXCEPT ![f].mtime = "new"] /\ f \in Files
      BY <1>1, <1>3, <2>2
    <3> QED
      BY <3>1 DEF Types, FileInfo, Age
  <2> QED
    BY <2>1, <2>2
<1>8. Types'
  BY <1>3, <1>4, <1>7 DEF Types
<1>9. Requests'
  BY <1>2, <1>3, <1>5, <1>6 DEF Requests
<1>10. Placed' /\ NothingLost' /\ RetentionKept'
  BY <1>3, <1>7, Holdings DEF Placed, NothingLost, RetentionKept
<1>11. Own'
  <2>1. \A k \in Handlers : hs'[k].temp # None => info'[hs'[k].temp].kind = "output"
    BY <1>4, <1>6, <1>7, Holdings DEF Own, r
  <2> QED
    BY <2>1, <1>4, <1>6, <1>7, OwnKept DEF r
<1>12. ASSUME NEW n \in Name PROVE Indexed(n)'
  <2>1. at[Bin(n)] \in Files \cup {None}
    BY Paths, Holdings
  <2> QED
    BY <1>3, <1>7, <2>1 DEF Indexed
<1>13. ASSUME NEW k \in Handlers PROVE Underway(k)'
  <2>1. CASE k = h
    <3>1. Underway(h) /\ r.file \in Files
      BY <1>1 DEF Working, Idle
    <3> QED
      BY <3>1, <1>1, <1>3, <1>4, <1>6, <1>7, <2>1 DEF Underway, Unlisted, r
  <2>2. CASE k # h
    BY <1>2, <1>6, <2>2, NothingUnderway
  <2> QED
    BY <2>1, <2>2
<1>14. Swept'
  BY <1>2, <1>3 DEF Swept
<1> QED
  BY <1>8, <1>9, <1>10, <1>11, <1>12, <1>13, <1>14

\* The end of a section under trashMu that leaves the disk as it is: the goroutine goes on as s.
LEMMA ReleaseKeeps ==
  ASSUME IInv, NEW h \in Handlers, HoldsLock(hs[h]), lock' = None,
         NEW s \in Request, hs' = [hs EXCEPT ![h] = s], Working(s), ~HoldsLock(s),
         s.hold \in {hs[h].hold, None}, s.temp \in {hs[h].temp, None},
         UNCHANGED <<at, sweep, raced, early>>,
         info' \in [Files -> FileInfo],
         \A f \in Files : info'[f] = info[f] \/ (f = hs[h].temp /\ s.temp = None
                                                 /\ info'[f].kind = "unused"),
         rows' \in [Name -> Row \cup {None}], unindexed' \subseteq Files,
         offer' \in {NoOffer} \cup [path : InTrash, file : Files \cup {None}],
         \A n \in Name : Indexed(n)'
  PROVE  IInv'
<1> USE DEF IInv
<1>1. lock = h /\ sweep.pc = "idle" /\ \A k \in Handlers : k # h => ~HoldsLock(hs[k])
  BY LockHeld
<1>2. /\ hs'[h] = s /\ \A k \in Handlers : k # h => hs'[k] = hs[k]
  BY DEF Types
<1>3. Types'
  BY DEF Types
<1>4. Requests'
  BY <1>1, <1>2 DEF Requests
<1>5. \A q \in Path : at[q] # None => /\ at[q] \in Files /\ info'[at[q]] = info[at[q]]
  BY Holdings DEF Placed, Own
<1>6. Placed'
  BY <1>5 DEF Placed
<1>7. Own'
  <2>1. \A f \in Files : info[f].kind \in {"empty", "unused"} => info'[f].kind \in {"empty", "unused"}
    OBVIOUS
  <2>2. \A k \in Handlers : hs'[k].hold \in {hs[k].hold, None} /\ hs'[k].temp \in {hs[k].temp, None}
    BY <1>2
  <2>3. ASSUME NEW k \in Handlers, hs'[k].temp # None PROVE info'[hs'[k].temp].kind = "output"
    <3>1. hs'[k].temp = hs[k].temp /\ hs[k].temp \in Files /\ info[hs[k].temp].kind = "output"
      BY <2>2, <2>3, Holdings DEF Own
    <3>2. k # h => hs[k].temp # hs[h].temp
      BY <2>3, <3>1 DEF Own
    <3> QED
      BY <3>1, <3>2, <1>2, <2>3
  <2> QED
    BY <2>1, <2>2, <2>3, OwnKept
<1>8. \A k \in Handlers : Underway(k)'
  BY <1>1, <1>2, NothingUnderway
<1>9. Swept' /\ RetentionKept'
  BY <1>1 DEF Swept, RetentionKept
<1>10. NothingLost'
  <2> SUFFICES ASSUME ~raced', NEW f \in Files, info'[f].kind = "file"
               PROVE  \E p \in Path : at'[p] = f
    BY DEF NothingLost
  <2> QED
    BY DEF NothingLost
<1> QED
  BY <1>3, <1>4, <1>6, <1>7, <1>8, <1>9, <1>10

LEMMA IndexKeeps == ASSUME IInv, NEW h \in Handlers, Index(h) PROVE IInv'
<1> DEFINE r == hs[h]
           row == [from |-> r.src, at |-> "new", mod |-> r.mod]
           s == IF r.op = "edit" THEN [r EXCEPT !.pc = "land"] ELSE Idle
<1> USE DEF IInv
<1>1. /\ r \in Request /\ Working(r) /\ r.pc = "index" /\ r.dst \in InTrash /\ HoldsLock(r)
      /\ r.op \in {"delete", "edit"} /\ r.src \in Path /\ r.file \in Files /\ r.src \in InDrive
  BY Paths DEF Index, Requests, Working, Types, Idle, HoldsLock
<1>2. /\ hs' = [hs EXCEPT ![h] = s] /\ lock' = None
      /\ rows' = [rows EXCEPT ![r.dst[2]] = row]
      /\ unindexed' = IF at[r.dst] = r.file THEN unindexed \ {r.file} ELSE unindexed
      /\ offer' \in {offer, [path |-> Bin(r.src[2]), file |-> r.file]}
      /\ UNCHANGED <<at, info, sweep, raced, early>>
  BY DEF Index, Release, Return, Trashed, Goto, observers
<1> HIDE DEF r
<1>3. /\ s \in Request /\ Working(s) /\ ~HoldsLock(s)
      /\ s.hold \in {r.hold, None} /\ s.temp \in {r.temp, None}
  <2>1. CASE r.op = "edit"
    <3>1. /\ s \in Request /\ s.pc = "land" /\ s.op = "edit" /\ s.src = r.src /\ s.out = r.out
          /\ s.file = r.file /\ s.hold = r.hold /\ s.temp = r.temp
      BY <1>1, <2>1 DEF Request
    <3> QED
      BY <3>1, <1>1, <2>1 DEF Working, HoldsLock, Idle
  <2>2. CASE r.op # "edit"
    BY <2>2, IdleIsARequest DEF Idle
  <2> QED
    BY <2>1, <2>2
<1> HIDE DEF s, row
<1>4. row \in Row /\ row.from = r.src /\ row.at = "new" /\ row.mod = r.mod
  BY <1>1 DEF Row, Request, Age, row
<1>5. /\ rows'[r.dst[2]] = row /\ \A n \in Name : n # r.dst[2] => rows'[n] = rows[n]
      /\ rows' \in [Name -> Row \cup {None}] /\ r.dst[2] \in Name /\ Bin(r.dst[2]) = r.dst
  BY <1>1, <1>2, <1>4, Paths DEF Types
<1>6. ASSUME NEW n \in Name PROVE Indexed(n)'
  <2>1. Bin(n) \in Path /\ at[Bin(n)] \in Files \cup {None} /\ Indexed(n)
    BY Paths, Holdings
  <2>2. CASE n = r.dst[2]
    <3>1. Bin(n) = r.dst /\ Underway(h)
      BY <1>5, <2>2
    <3>2. CASE at[r.dst] = r.file
      <4>1. /\ info[r.file].origin = r.src /\ info[r.file].trashed = "new"
            /\ ~raced => info[r.file].was = r.mod
        BY <3>1, <3>2, <1>1 DEF Underway, r
      <4> QED
        BY <4>1, <3>1, <3>2, <2>1, <2>2, <1>2, <1>4, <1>5 DEF Indexed
    <3>3. CASE at[r.dst] # r.file
      <4>1. at[r.dst] # None => at[r.dst] \in unindexed'
        BY <3>1, <3>3, <1>1, <1>2 DEF Underway, Unlisted, r
      <4> QED
        BY <4>1, <3>1, <2>1, <1>2 DEF Indexed
    <3> QED
      BY <3>2, <3>3
  <2>3. CASE n # r.dst[2]
    <3>1. Bin(n) # r.dst /\ rows'[n] = rows[n]
      BY <1>5, <2>3, Paths
    <3>2. at[Bin(n)] # None /\ at[Bin(n)] \notin unindexed' => at[Bin(n)] \notin unindexed
      BY <3>1, <2>1, <1>1, <1>2, Paths DEF Placed
    <3> QED
      BY <3>1, <3>2, <2>1, <1>2 DEF Indexed
  <2> QED
    BY <2>2, <2>3
<1>7. offer' \in {NoOffer} \cup [path : InTrash, file : Files \cup {None}]
  BY <1>1, <1>2, Paths DEF Types
<1>8. unindexed' \subseteq Files /\ info' \in [Files -> FileInfo] /\ \A f \in Files : info'[f] = info[f]
  BY <1>2 DEF Types
<1> QED
  BY <1>1, <1>2, <1>3, <1>5, <1>6, <1>7, <1>8, ReleaseKeeps DEF r

LEMMA IndexFailsKeeps == ASSUME IInv, NEW h \in Handlers, IndexFails(h) PROVE IInv'
<1> DEFINE r == hs[h]
<1> USE DEF IInv
<1>1. r \in Request /\ r.pc = "index" /\ HoldsLock(r)
  BY DEF IndexFails, Types, HoldsLock
<1>2. /\ hs' = [hs EXCEPT ![h] = Idle] /\ lock' = None
      /\ info' = Removed(r.temp)
      /\ UNCHANGED <<at, rows, sweep, offer, unindexed, raced, early>>
  BY DEF IndexFails, Release, Return, observers
<1> HIDE DEF r
<1>3. /\ info' \in [Files -> FileInfo]
      /\ \A f \in Files : info'[f] = info[f] \/ (f = r.temp /\ info'[f].kind = "unused")
  <2>1. Unused \in FileInfo /\ Unused.kind = "unused"
    BY DEF Unused, FileInfo, Age
  <2> QED
    BY <2>1, <1>2 DEF Removed, Types
<1>4. Idle.hold = None /\ Idle.temp = None
  BY DEF Idle
<1>5. ASSUME NEW n \in Name PROVE Indexed(n)'
  <2>1. at[Bin(n)] # None => at[Bin(n)] \in Files /\ at[Bin(n)] # r.temp
    BY Paths, Holdings DEF Placed, Own, r
  <2>2. Indexed(n) /\ (at[Bin(n)] # None => info'[at[Bin(n)]] = info[at[Bin(n)]])
    BY <2>1, <1>3, Paths DEF Placed, Own, r
  <2> QED
    BY <2>2, <1>2 DEF Indexed
<1>6. /\ rows' \in [Name -> Row \cup {None}] /\ unindexed' \subseteq Files
      /\ offer' \in {NoOffer} \cup [path : InTrash, file : Files \cup {None}]
  BY <1>2 DEF Types
<1> QED
  BY <1>1, <1>2, <1>3, <1>4, <1>5, <1>6, IdleIsARequest, ReleaseKeeps DEF r

----------------------------------------------------------------------------
(* Steps that do not know of trashMu *)

\* Whatever is in the trash afterwards was there before, as it was; where it was, unless it has
\* no row of its own any more.
LEMMA BesideKeeps ==
  ASSUME IInv, UNCHANGED <<rows, sweep, early>>, ~raced' => ~raced,
         \A n \in Name :
           \/ at'[Bin(n)] = None
           \/ \E m \in Name : /\ at'[Bin(n)] = at[Bin(m)]
                              /\ info'[at[Bin(m)]] = info[at[Bin(m)]]
                              /\ \/ at'[Bin(n)] \in unindexed'
                                 \/ m = n /\ at[Bin(m)] \notin unindexed,
         \A k \in Handlers : hs'[k] = hs[k] \/ ~HoldsLock(hs'[k])
  PROVE  /\ \A n \in Name : Indexed(n)'
         /\ \A k \in Handlers : Underway(k)'
         /\ Swept' /\ RetentionKept'
<1> USE DEF IInv
<1>1. ASSUME NEW n \in Name PROVE Indexed(n)'
  <2>1. CASE at'[Bin(n)] = None
    BY <2>1 DEF Indexed
  <2>2. ASSUME NEW m \in Name, at'[Bin(n)] = at[Bin(m)], info'[at[Bin(m)]] = info[at[Bin(m)]],
               \/ at'[Bin(n)] \in unindexed'
               \/ m = n /\ at[Bin(m)] \notin unindexed
        PROVE  Indexed(n)'
    <3>1. Indexed(m)
      OBVIOUS
    <3> QED
      BY <2>2, <3>1 DEF Indexed
  <2> QED
    BY <2>1, <2>2
<1>2. ASSUME NEW p \in InTrash, Unlisted(p) PROVE Unlisted(p)'
  <2>1. p[2] \in Name /\ Bin(p[2]) = p
    BY Paths
  <2> QED
    BY <1>2, <2>1 DEF Unlisted
<1>3. ASSUME NEW k \in Handlers PROVE Underway(k)'
  <2>1. CASE hs'[k] = hs[k]
    <3>1. Underway(k) /\ Working(hs[k])
      BY DEF Requests
    <3>2. hs[k].pc \in {"stamp", "index"} => hs[k].dst \in InTrash
      BY <3>1 DEF Working, Idle
    <3>3. hs[k].pc = "clear" => hs[k].src \in InTrash
      BY <3>1 DEF Working, Idle
    <3>4. \A n \in Name : at'[Bin(n)] = hs[k].file /\ hs[k].file # None =>
             (\E m \in Name : at[Bin(m)] = hs[k].file) /\ info'[hs[k].file] = info[hs[k].file]
      OBVIOUS
    <3>5. hs[k].pc \in {"stamp", "index"} => hs[k].file # None
      BY <3>1, BoundsAssumption DEF Working, Idle
    <3>6. hs[k].pc \in {"stamp", "index"} => Unlisted(hs[k].dst)'
      BY <1>2, <2>1, <3>1, <3>2 DEF Underway, Unlisted
    <3>7. hs[k].pc = "clear" => Unlisted(hs[k].src)'
      BY <1>2, <2>1, <3>1, <3>3 DEF Underway, Unlisted
    <3> QED
      BY <2>1, <3>1, <3>4, <3>5, <3>6, <3>7 DEF Underway, Unlisted
  <2>2. CASE ~HoldsLock(hs'[k])
    BY <2>2, NothingUnderway
  <2> QED
    BY <2>1, <2>2
<1>4. Swept'
  <2> SUFFICES ASSUME sweep.pc = "erase", NEW n \in Name
               PROVE  /\ n \notin sweep.present => Unlisted(Bin(n))'
                      /\ n \in sweep.due => LET f == at'[Bin(n)]
                           IN f # None => f \in unindexed' \/ info'[f].trashed # "new"
    BY DEF Swept, Unlisted
  <2>1. n \notin sweep.present => Unlisted(Bin(n))'
    BY <1>2, Paths DEF Swept
  <2>2. n \in sweep.due /\ at'[Bin(n)] # None =>
          at'[Bin(n)] \in unindexed' \/ info'[at'[Bin(n)]].trashed # "new"
    BY DEF Swept
  <2> QED
    BY <2>1, <2>2
<1>5. RetentionKept'
  BY DEF RetentionKept
<1> QED
  BY <1>1, <1>3, <1>4, <1>5

LEMMA RenameMoveKeeps == ASSUME IInv, NEW h \in Handlers, RenameMove(h) PROVE IInv'
<1> DEFINE r == hs[h]
           f == at[r.src]
<1> USE DEF IInv
<1>1. /\ r.src \in Path /\ r.dst \in Path /\ r.src # r.dst
      /\ r.dst \in InTrash => r.src \in InTrash
      /\ f \in Files /\ r.op = "rename"
  BY Holdings DEF RenameMove, Requests, Working, Idle
<1>2. r.dst[1] = "trash" <=> r.dst \in InTrash
  BY <1>1, Paths
<1>3. /\ at' = [at EXCEPT ![r.src] = None, ![r.dst] = at[r.src]] /\ at[r.src] # None
      /\ info' = IF r.dst[1] = "trash" THEN Covered(at[r.dst])
                 ELSE [Covered(at[r.dst]) EXCEPT
                         ![f] = [Unused EXCEPT !.kind = info[f].kind, !.mtime = info[f].mtime]]
      /\ unindexed' = IF r.dst[1] = "trash" THEN unindexed \cup {f} ELSE unindexed \ {f}
      /\ raced' \in BOOLEAN /\ (~raced' => ~raced /\ at[r.dst] = None)
      /\ hs' = [hs EXCEPT ![h] = Idle]
      /\ UNCHANGED <<rows, lock, sweep, offer, early>>
  BY DEF RenameMove, Return, Types
<1>4. f = at[r.src]
  OBVIOUS
<1> HIDE DEF r, f
<1>5. f # at[r.dst]
  BY <1>1, <1>3, <1>4 DEF Placed
<1>6. /\ info' \in [Files -> FileInfo]
      /\ \A g \in Files : g # f /\ g # at[r.dst] => info'[g] = info[g]
      /\ \A g \in Files : \/ info'[g].kind = info[g].kind
                          \/ g = at[r.dst] /\ info[g].kind = "empty" /\ info'[g].kind = "unused"
      /\ r.dst \in InTrash => info'[f] = info[f]
  <2> DEFINE new == [Unused EXCEPT !.kind = info[f].kind, !.mtime = info[f].mtime]
  <2>1. /\ Covered(at[r.dst]) \in [Files -> FileInfo] /\ Covered(at[r.dst])[f] = info[f]
        /\ \A g \in Files : g # at[r.dst] => Covered(at[r.dst])[g] = info[g]
        /\ \A g \in Files : \/ Covered(at[r.dst])[g] = info[g]
                            \/ /\ g = at[r.dst] /\ info[g].kind = "empty"
                               /\ Covered(at[r.dst])[g].kind = "unused"
    BY <1>1, <1>5, CoveredFiles DEF Unused
  <2>2. new \in FileInfo /\ new.kind = info[f].kind
    <3>1. info[f] \in FileInfo
      BY <1>1 DEF Types
    <3> QED
      BY <3>1 DEF Unused, FileInfo, Age
  <2>3. CASE r.dst[1] = "trash"
    BY <2>1, <2>3, <1>3
  <2>4. CASE r.dst[1] # "trash"
    <3> HIDE DEF new
    <3>1. info' = [Covered(at[r.dst]) EXCEPT ![f] = new]
      BY <1>3, <2>4 DEF new
    <3> QED
      BY <2>1, <2>2, <2>4, <3>1, <1>1, <1>2
  <2> QED
    BY <2>3, <2>4
<1>7. /\ hs'[h] = Idle /\ \A k \in Handlers : k # h => hs'[k] = hs[k]
  BY <1>3 DEF Types
<1>8. Types'
  <2>1. at' \in [Path -> Files \cup {None}]
    BY <1>1, <1>3, <1>4 DEF Types
  <2>2. unindexed' \subseteq Files /\ hs' \in [Handlers -> Request]
    BY <1>1, <1>3, IdleIsARequest DEF Types
  <2> QED
    BY <2>1, <2>2, <1>3, <1>6 DEF Types
<1>9. Requests'
  BY <1>3, <1>7, IdleIsARequest DEF Requests
<1>10. /\ Placed' /\ NothingLost'
       /\ \A x \in Path : x # r.src /\ x # r.dst => at'[x] = at[x]
       /\ at'[r.src] = None /\ at'[r.dst] = f
  <2>1. (~raced' => ~raced) /\ (~raced' => at[r.dst] = None \/ info[at[r.dst]].kind = "empty")
    BY <1>3
  <2>2. /\ Types /\ Placed /\ NothingLost
        /\ at' = [at EXCEPT ![r.src] = None, ![r.dst] = at[r.src]] /\ at[r.src] # None
    BY <1>3
  <2>3. /\ Placed' /\ NothingLost'
        /\ \A x \in Path : x # r.src /\ x # r.dst => at'[x] = at[x]
        /\ at'[r.src] = None /\ at'[r.dst] = at[r.src]
    <3>1. \A g \in Files : \/ info'[g].kind = info[g].kind
                           \/ g = at[r.dst] /\ info[g].kind = "empty" /\ info'[g].kind = "unused"
      BY <1>6
    <3>2. r.src \in Path /\ r.dst \in Path /\ r.src # r.dst
      BY <1>1
    <3> HIDE DEF IInv
    <3> QED
      BY <2>1, <2>2, <3>1, <3>2, MovedKeeps, ZenonT(40)
  <2> QED
    BY <2>3, <1>4
<1>11. Own'
  <2>1. \A k \in Handlers : hs'[k].hold \in {hs[k].hold, None} /\ hs'[k].temp \in {hs[k].temp, None}
    BY <1>7 DEF Idle
  <2>2. \A k \in Handlers : hs'[k].temp # None => info'[hs'[k].temp].kind = "output"
    BY <2>1, <1>6, Holdings DEF Own
  <2> QED
    BY <2>1, <2>2, <1>6, OwnKept
<1>12. ASSUME NEW n \in Name, at'[Bin(n)] # None
       PROVE  \E m \in Name : /\ at'[Bin(n)] = at[Bin(m)]
                              /\ info'[at[Bin(m)]] = info[at[Bin(m)]]
                              /\ \/ at'[Bin(n)] \in unindexed'
                                 \/ m = n /\ at[Bin(m)] \notin unindexed
  <2>1. CASE Bin(n) = r.dst
    <3>1. r.dst \in InTrash /\ r.src \in InTrash /\ r.src[2] \in Name /\ Bin(r.src[2]) = r.src
      BY <2>1, <1>1, Paths
    <3>2. f \in unindexed' /\ info'[f] = info[f]
      BY <3>1, <1>2, <1>3, <1>6
    <3> QED
      BY <2>1, <3>1, <3>2, <1>4, <1>10
  <2>2. CASE Bin(n) # r.dst
    <3>1. Bin(n) \in Path /\ Bin(n) # r.src /\ at'[Bin(n)] = at[Bin(n)]
      BY <2>2, <1>10, <1>12, Paths
    <3>2. at[Bin(n)] \in Files /\ at[Bin(n)] # f /\ at[Bin(n)] # at[r.dst]
      BY <3>1, <2>2, <1>1, <1>4, <1>12, Holdings DEF Placed
    <3>3. at[Bin(n)] \in unindexed => at[Bin(n)] \in unindexed'
      BY <3>2, <1>3
    <3> QED
      BY <3>1, <3>2, <3>3, <1>6
  <2> QED
    BY <2>1, <2>2
<1>13. \A k \in Handlers : hs'[k] = hs[k] \/ ~HoldsLock(hs'[k])
  BY <1>7, IdleIsARequest
<1>14. ~raced' => ~raced
  BY <1>3
<1>15. UNCHANGED <<rows, sweep, early>>
  BY <1>3
<1>16. /\ \A n \in Name : Indexed(n)'
       /\ \A k \in Handlers : Underway(k)'
       /\ Swept' /\ RetentionKept'
  BY <1>12, <1>13, <1>14, <1>15, BesideKeeps
<1> QED
  BY <1>8, <1>9, <1>10, <1>11, <1>16

LEMMA PermanentDeleteKeeps ==
  ASSUME IInv, NEW n \in Name, PermanentDelete(n) PROVE IInv'
<1> DEFINE f == at[Bin(n)]
<1> USE DEF IInv
<1>1. Bin(n) \in Path /\ f \in Files
  BY Paths, Holdings DEF PermanentDelete
<1>2. /\ at' = [at EXCEPT ![Bin(n)] = None]
      /\ info' = [info EXCEPT ![f] = Unused] /\ unindexed' = unindexed \ {f}
      /\ UNCHANGED <<rows, lock, hs, sweep, offer, raced, early>>
  BY DEF PermanentDelete, Removed, observers
<1>3. f = at[Bin(n)] /\ f # None
  BY <1>1, Holdings
<1> HIDE DEF f
<1>4. /\ at'[Bin(n)] = None /\ \A p \in Path : p # Bin(n) => at'[p] = at[p]
      /\ info'[f] = Unused /\ \A g \in Files : g # f => info'[g] = info[g]
  BY <1>1, <1>2 DEF Types
<1>5. Types'
  <2>1. Unused \in FileInfo
    BY DEF Unused, FileInfo, Age
  <2> QED
    BY <2>1, <1>2 DEF Types
<1>6. \A p \in Path : p # Bin(n) /\ at[p] # None =>
        at[p] \in Files /\ at[p] # f /\ info'[at[p]] = info[at[p]]
  BY <1>1, <1>3, <1>4, Holdings DEF Placed
<1>7. Requests' /\ Placed'
  BY <1>2, <1>4, <1>6 DEF Requests, Placed
<1>8. Own'
  <2>1. \A g \in Files : info[g].kind \in {"empty", "unused"} => info'[g].kind \in {"empty", "unused"}
    BY <1>4 DEF Unused
  <2>2. \A k \in Handlers : hs[k].temp # None => hs[k].temp # f
    BY <1>1, <1>3 DEF Own, Placed
  <2>3. \A k \in Handlers : hs'[k].temp # None => info'[hs'[k].temp].kind = "output"
    BY <2>2, <1>2, <1>4, Holdings DEF Own
  <2> QED
    BY <2>1, <2>3, <1>2, OwnKept
<1>9. NothingLost'
  BY <1>2, <1>3, <1>4 DEF NothingLost, Unused
<1>10. ASSUME NEW m \in Name, at'[Bin(m)] # None
       PROVE  \E k \in Name : /\ at'[Bin(m)] = at[Bin(k)]
                              /\ info'[at[Bin(k)]] = info[at[Bin(k)]]
                              /\ \/ at'[Bin(m)] \in unindexed'
                                 \/ k = m /\ at[Bin(k)] \notin unindexed
  <2>1. Bin(m) \in Path /\ Bin(m) # Bin(n) /\ at'[Bin(m)] = at[Bin(m)]
    BY <1>4, <1>10, Paths
  <2>2. info'[at[Bin(m)]] = info[at[Bin(m)]] /\ at[Bin(m)] # f
    BY <2>1, <1>6, <1>10
  <2>3. at[Bin(m)] \in unindexed => at[Bin(m)] \in unindexed'
    BY <2>2, <1>2
  <2> QED
    BY <2>1, <2>2, <2>3
<1>11. UNCHANGED <<rows, sweep, early>> /\ (~raced' => ~raced) /\ \A k \in Handlers : hs'[k] = hs[k]
  BY <1>2
<1>12. /\ \A m \in Name : Indexed(m)'
       /\ \A k \in Handlers : Underway(k)'
       /\ Swept' /\ RetentionKept'
  BY <1>10, <1>11, BesideKeeps
<1> QED
  BY <1>5, <1>7, <1>8, <1>9, <1>12

\* A file that comes to a path of the drive, from nowhere.
LEMMA ArrivalKeeps ==
  ASSUME IInv, NEW p \in InDrive, NEW f \in Files, \A q \in Path : at[q] # f,
         at' = [at EXCEPT ![p] = f], info' \in [Files -> FileInfo], info'[f].kind = "file",
         \A g \in Files : g # f /\ g # at[p] => info'[g] = info[g],
         at[p] # None => /\ info[at[p]].kind = "empty" => info'[at[p]].kind = "unused"
                         /\ info'[at[p]].kind = "file" => raced',
         \A g \in Handlers : hs[g].hold # f,
         hs' \in [Handlers -> Request],
         \A g \in Handlers : hs'[g] = hs[g] \/ hs'[g] = Idle,
         \A g \in Handlers : hs'[g].temp # f,
         raced' \in BOOLEAN, ~raced' => ~raced,
         UNCHANGED <<rows, lock, sweep, offer, unindexed, early>>
  PROVE  IInv'
<1> USE DEF IInv
<1>1. p \in Path /\ at'[p] = f /\ \A q \in Path : q # p => at'[q] = at[q]
  BY Paths DEF Types
<1>2. \A q \in Path : q # p /\ at[q] # None =>
        at[q] \in Files /\ at[q] # f /\ at[q] # at[p] /\ info'[at[q]] = info[at[q]]
  BY <1>1, Holdings DEF Placed
<1>3. Types'
  BY <1>1 DEF Types
<1>4. Requests'
  <2>1. ASSUME NEW g \in Handlers PROVE Working(hs'[g]) /\ (HoldsLock(hs'[g]) => lock' = g)
    BY IdleIsARequest DEF Requests
  <2> QED
    BY <2>1 DEF Requests
<1>5. Placed'
  BY <1>1, <1>2 DEF Placed
<1>6. Own'
  <2>1. \A g \in Handlers : hs'[g].hold \in {hs[g].hold, None} /\ hs'[g].temp \in {hs[g].temp, None}
    BY DEF Idle
  <2>2. ASSUME NEW g \in Handlers, hs'[g].hold # None
        PROVE  info'[hs'[g].hold].kind \in {"empty", "unused"}
    <3>1. hs'[g].hold \in Files /\ hs'[g].hold # f /\ info[hs'[g].hold].kind \in {"empty", "unused"}
      BY <2>1, <2>2, Holdings DEF Own
    <3>2. at[p] = hs'[g].hold => info[at[p]].kind = "empty"
      BY <3>1, <1>1, <2>2 DEF Placed
    <3> QED
      BY <3>1, <3>2, <2>2
  <2>3. ASSUME NEW g \in Handlers, hs'[g].temp # None PROVE info'[hs'[g].temp].kind = "output"
    <3>1. hs'[g].temp \in Files /\ hs'[g].temp # f /\ info[hs'[g].temp].kind = "output"
      BY <2>1, <2>3, Holdings DEF Own
    <3>2. at[p] # hs'[g].temp
      BY <3>1, <1>1, <2>3 DEF Placed
    <3> QED
      BY <3>1, <3>2
  <2>4. \A g, k \in Handlers : hs'[g].temp # None /\ hs'[g].temp = hs'[k].temp => g = k
    BY <2>1 DEF Own
  <2> QED
    BY <2>2, <2>3, <2>4 DEF Own
<1>7. NothingLost'
  <2> SUFFICES ASSUME ~raced', NEW g \in Files, info'[g].kind = "file"
               PROVE  \E q \in Path : at'[q] = g
    BY DEF NothingLost
  <2>1. CASE g = f
    BY <1>1, <2>1
  <2>2. CASE g # f
    <3>1. g # at[p] /\ info[g].kind = "file"
      BY <2>2, Holdings
    <3>2. PICK q \in Path : at[q] = g
      BY <3>1 DEF NothingLost
    <3> QED
      BY <3>1, <3>2, <1>1
  <2> QED
    BY <2>1, <2>2
<1>8. ASSUME NEW m \in Name, at'[Bin(m)] # None
      PROVE  \E k \in Name : /\ at'[Bin(m)] = at[Bin(k)]
                             /\ info'[at[Bin(k)]] = info[at[Bin(k)]]
                             /\ \/ at'[Bin(m)] \in unindexed'
                                \/ k = m /\ at[Bin(k)] \notin unindexed
  <2>1. Bin(m) \in Path /\ Bin(m) # p
    BY Paths
  <2> QED
    BY <2>1, <1>1, <1>2, <1>8
<1>9. UNCHANGED <<rows, sweep, early>> /\ \A k \in Handlers : hs'[k] = hs[k] \/ ~HoldsLock(hs'[k])
  BY IdleIsARequest
<1>10. /\ \A m \in Name : Indexed(m)'
       /\ \A k \in Handlers : Underway(k)'
       /\ Swept' /\ RetentionKept'
  BY <1>8, <1>9, BesideKeeps
<1> QED
  BY <1>3, <1>4, <1>5, <1>6, <1>7, <1>10

LEMMA UploadKeeps == ASSUME IInv, NEW n \in Name, Upload(n) PROVE IInv'
<1> DEFINE p == Drive(FirstFree("drive", n))
<1> USE DEF IInv
<1>1. p \in InDrive /\ at[p] = None
  BY Paths, FirstFreeIsFree DEF Upload, Drive
<1>2. /\ Fresh \in Files
      /\ \A q \in Path : at[q] # Fresh
      /\ \A g \in Handlers : Fresh \notin {hs[g].file, hs[g].hold, hs[g].want, hs[g].temp}
  BY FreshIsFree DEF Upload
<1>3. PICK age \in Age : info' = [info EXCEPT ![Fresh] = [Unused EXCEPT !.kind = "file", !.mtime = age]]
  BY DEF Upload
<1>4. /\ at' = [at EXCEPT ![p] = Fresh]
      /\ UNCHANGED <<rows, lock, hs, sweep, offer, unindexed, raced, early>>
  BY DEF Upload, observers
<1> HIDE DEF p
<1>5. /\ info' \in [Files -> FileInfo] /\ info'[Fresh].kind = "file"
      /\ \A g \in Files : g # Fresh => info'[g] = info[g]
  <2>1. /\ [Unused EXCEPT !.kind = "file", !.mtime = age] \in FileInfo
        /\ [Unused EXCEPT !.kind = "file", !.mtime = age].kind = "file"
    BY DEF Unused, FileInfo, Age
  <2> QED
    BY <2>1, <1>2, <1>3 DEF Types
<1>6. /\ hs' \in [Handlers -> Request] /\ raced' \in BOOLEAN /\ (~raced' => ~raced)
      /\ \A g \in Handlers : hs'[g] = hs[g] /\ hs'[g].temp # Fresh /\ hs[g].hold # Fresh
  BY <1>2, <1>4 DEF Types
<1> QED
  BY <1>1, <1>2, <1>4, <1>5, <1>6, ArrivalKeeps

LEMMA LandKeeps == ASSUME IInv, NEW h \in Handlers, Land(h) PROVE IInv'
<1> DEFINE r == hs[h]
           g == at[r.out]
           new == [Unused EXCEPT !.kind = "file", !.mtime = r.mod]
<1> USE DEF IInv
<1>1. r \in Request /\ r.out \in InDrive /\ r.temp \in Files
  BY DEF Land, Requests, Working, Idle, Types
<1>2. info[r.temp].kind = "output"
  BY <1>1, BoundsAssumption DEF Own
<1>3. /\ at' = [at EXCEPT ![r.out] = r.temp]
      /\ info' = [f \in Files |->
                   IF f = r.temp THEN new
                   ELSE IF f # g THEN info[f]
                   ELSE IF info[g].kind = "empty" THEN Unused
                   ELSE IF r.out # r.src THEN [info[g] EXCEPT !.kind = "clobbered"]
                   ELSE info[g]]
      /\ hs' = [hs EXCEPT ![h] = Idle]
      /\ raced' \in BOOLEAN /\ (~raced' => ~raced) /\ (g # None /\ r.out = r.src => raced')
      /\ UNCHANGED <<rows, lock, sweep, offer, unindexed, early>>
  BY DEF Land, Return, Types
<1>4. \A q \in Path : at[q] # r.temp
  BY <1>1, <1>2, Holdings DEF Placed
<1>5. new \in FileInfo /\ new.kind = "file" /\ Unused \in FileInfo /\ Unused.kind = "unused"
  BY <1>1 DEF Unused, FileInfo, Age, Request
<1> HIDE DEF r, g, new
<1>6. /\ info' \in [Files -> FileInfo] /\ info'[r.temp].kind = "file"
      /\ \A f \in Files : f # r.temp /\ f # g => info'[f] = info[f]
  <2>1. g \in Files => [info[g] EXCEPT !.kind = "clobbered"] \in FileInfo
    BY DEF Types, FileInfo
  <2> QED
    BY <2>1, <1>1, <1>3, <1>5 DEF Types
<1>7. g # None => /\ info[g].kind = "empty" => info'[g].kind = "unused"
                  /\ info'[g].kind = "file" => raced'
  <2> SUFFICES ASSUME g # None
               PROVE  /\ info[g].kind = "empty" => info'[g].kind = "unused"
                      /\ info'[g].kind = "file" => raced'
    OBVIOUS
  <2>1. g \in Files /\ g # r.temp /\ info[g] \in FileInfo
    BY <1>1, <1>4, Holdings, Paths DEF g, Types
  <2>2. [info[g] EXCEPT !.kind = "clobbered"].kind = "clobbered"
    BY <2>1 DEF FileInfo
  <2> QED
    BY <2>1, <2>2, <1>3, <1>5
<1>8. /\ hs' \in [Handlers -> Request]
      /\ hs'[h] = Idle /\ \A k \in Handlers : k # h => hs'[k] = hs[k]
  BY <1>3, IdleIsARequest DEF Types
<1>9. \A k \in Handlers : hs'[k].temp # r.temp /\ hs[k].hold # r.temp
  BY <1>1, <1>2, <1>8, BoundsAssumption DEF Own, Idle, r
<1>10. /\ \A f \in Files : f # r.temp /\ f # at[r.out] => info'[f] = info[f]
       /\ at[r.out] # None => /\ info[at[r.out]].kind = "empty" => info'[at[r.out]].kind = "unused"
                              /\ info'[at[r.out]].kind = "file" => raced'
  BY <1>6, <1>7 DEF g
<1>11. \A k \in Handlers : hs'[k] = hs[k] \/ hs'[k] = Idle
  BY <1>8
<1>12. /\ at' = [at EXCEPT ![r.out] = r.temp] /\ raced' \in BOOLEAN /\ (~raced' => ~raced)
       /\ UNCHANGED <<rows, lock, sweep, offer, unindexed, early>>
       /\ info' \in [Files -> FileInfo] /\ info'[r.temp].kind = "file"
       /\ hs' \in [Handlers -> Request]
  BY <1>3, <1>6, <1>8
<1> HIDE DEF IInv
<1> QED
  BY <1>1, <1>4, <1>9, <1>10, <1>11, <1>12, ArrivalKeeps

----------------------------------------------------------------------------
(* Restores *)

LEMMA RestoreMoveKeeps == ASSUME IInv, NEW h \in Handlers, RestoreMove(h) PROVE IInv'
<1> DEFINE r == hs[h]
           f == at[r.src]
           row == rows[r.src[2]]
           s == [r EXCEPT !.pc = "clear"]
           new == [Unused EXCEPT !.kind = info[f].kind, !.mtime = row.mod]
<1> USE DEF IInv
<1>1. /\ r \in Request /\ Working(r) /\ HoldsLock(r) /\ r.pc = "move" /\ r.op = "restore"
      /\ r.src \in InTrash /\ r.dst \in InDrive /\ r.hold \in Files /\ r.temp = None
  BY DEF RestoreMove, Requests, Working, Types, Idle, HoldsLock
<1>2. /\ r.src \in Path /\ r.dst \in Path /\ r.src # r.dst /\ f \in Files /\ row \in Row
  BY <1>1, Paths, Holdings DEF RestoreMove, Underway
<1>3. lock = h /\ sweep.pc = "idle" /\ \A k \in Handlers : k # h => ~HoldsLock(hs[k])
  BY <1>1, LockHeld
<1>4. /\ at' = [at EXCEPT ![r.src] = None, ![r.dst] = at[r.src]] /\ at[r.src] # None
      /\ info' = [Covered(at[r.dst]) EXCEPT ![f] = new]
      /\ hs' = [hs EXCEPT ![h] = s] /\ unindexed' = unindexed \ {f}
      /\ raced' \in BOOLEAN /\ (~raced' => ~raced /\ at[r.dst] = r.hold)
      /\ UNCHANGED <<rows, lock, sweep, offer, early>>
  BY DEF RestoreMove, Goto, Types
<1>5. f = at[r.src] /\ f # at[r.dst]
  BY <1>2, <1>4 DEF Placed
<1>6. new \in FileInfo /\ new.kind = info[f].kind
  <2>1. info[f] \in FileInfo /\ row.mod \in Age
    BY <1>2 DEF Types, Row
  <2> QED
    BY <2>1 DEF Unused, FileInfo, Age
<1> HIDE DEF r, f, row, s, new
<1>7. /\ info' \in [Files -> FileInfo]
      /\ \A g \in Files : g # f /\ g # at[r.dst] => info'[g] = info[g]
      /\ \A g \in Files : \/ info'[g].kind = info[g].kind
                          \/ g = at[r.dst] /\ info[g].kind = "empty" /\ info'[g].kind = "unused"
  <2>1. /\ Covered(at[r.dst]) \in [Files -> FileInfo] /\ Covered(at[r.dst])[f] = info[f]
        /\ \A g \in Files : g # at[r.dst] => Covered(at[r.dst])[g] = info[g]
        /\ \A g \in Files : \/ Covered(at[r.dst])[g] = info[g]
                            \/ /\ g = at[r.dst] /\ info[g].kind = "empty"
                               /\ Covered(at[r.dst])[g].kind = "unused"
    BY <1>2, <1>5, CoveredFiles DEF Unused
  <2> QED
    BY <2>1, <1>2, <1>4, <1>6
<1>8. /\ s \in Request /\ Working(s) /\ HoldsLock(s) /\ s.pc = "clear" /\ s.src = r.src
      /\ s.hold = r.hold /\ s.temp = r.temp /\ s.op = "restore"
  <2>1. /\ s \in Request /\ s.pc = "clear" /\ s.src = r.src /\ s.dst = r.dst
        /\ s.hold = r.hold /\ s.temp = r.temp /\ s.op = r.op
    BY <1>1 DEF Request, s
  <2> QED
    BY <2>1, <1>1 DEF Working, HoldsLock, Idle
<1>9. hs'[h] = s /\ \A g \in Handlers : g # h => hs'[g] = hs[g]
  BY <1>4 DEF Types
<1>10. /\ Placed' /\ NothingLost'
       /\ \A x \in Path : x # r.src /\ x # r.dst => at'[x] = at[x]
       /\ at'[r.src] = None /\ at'[r.dst] = at[r.src]
  <2>1. ~raced' => at[r.dst] = None \/ info[at[r.dst]].kind = "empty"
    BY <1>1, <1>2, <1>4, BoundsAssumption DEF Placed, Own, r
  <2>2. (~raced' => ~raced) /\ Types /\ Placed /\ NothingLost
    BY <1>4
  <2>3. /\ r.src \in Path /\ r.dst \in Path /\ r.src # r.dst
        /\ at' = [at EXCEPT ![r.src] = None, ![r.dst] = at[r.src]] /\ at[r.src] # None
    BY <1>2, <1>4
  <2>4. \A g \in Files : \/ info'[g].kind = info[g].kind
                         \/ g = at[r.dst] /\ info[g].kind = "empty" /\ info'[g].kind = "unused"
    BY <1>7
  <2> HIDE DEF IInv
  <2> QED
    BY <2>1, <2>2, <2>3, <2>4, MovedKeeps, ZenonT(40)
<1>11. Types'
  <2>1. at' \in [Path -> Files \cup {None}] /\ hs' \in [Handlers -> Request]
    BY <1>2, <1>4, <1>8 DEF Types
  <2>2. unindexed' \subseteq Files
    BY <1>4 DEF Types
  <2> QED
    BY <2>1, <2>2, <1>4, <1>7 DEF Types
<1>12. Requests'
  BY <1>3, <1>4, <1>8, <1>9 DEF Requests
<1>13. Own'
  <2>1. \A g \in Handlers : hs'[g].hold \in {hs[g].hold, None} /\ hs'[g].temp \in {hs[g].temp, None}
    BY <1>8, <1>9 DEF r
  <2>2. \A g \in Handlers : hs'[g].temp # None => info'[hs'[g].temp].kind = "output"
    BY <2>1, <1>7, Holdings DEF Own
  <2> QED
    BY <2>1, <2>2, <1>7, OwnKept
<1>14. ASSUME NEW n \in Name PROVE Indexed(n)'
  <2>1. Bin(n) \in Path /\ Bin(n) # r.dst
    BY <1>1, Paths
  <2>2. CASE Bin(n) = r.src
    BY <1>10, <2>2 DEF Indexed
  <2>3. CASE Bin(n) # r.src
    <3>1. at'[Bin(n)] = at[Bin(n)]
      BY <1>10, <2>1, <2>3
    <3>2. at[Bin(n)] # None => /\ info'[at[Bin(n)]] = info[at[Bin(n)]]
                               /\ at[Bin(n)] \notin unindexed' => at[Bin(n)] \notin unindexed
      BY <1>2, <1>4, <1>5, <1>7, <2>1, <2>3, Holdings DEF Placed
    <3>3. Indexed(n) /\ rows'[n] = rows[n] /\ (~raced' => ~raced)
      BY <1>4
    <3> QED
      BY <3>1, <3>2, <3>3 DEF Indexed
  <2> QED
    BY <2>2, <2>3
<1>15. ASSUME NEW g \in Handlers PROVE Underway(g)'
  <2>1. CASE g = h
    BY <1>8, <1>9, <1>10, <2>1 DEF Underway, Unlisted
  <2>2. CASE g # h
    BY <1>3, <1>9, <2>2, NothingUnderway
  <2> QED
    BY <2>1, <2>2
<1>16. Swept' /\ RetentionKept'
  BY <1>3, <1>4 DEF Swept, RetentionKept
<1> QED
  BY <1>10, <1>11, <1>12, <1>13, <1>14, <1>15, <1>16

LEMMA ClearKeeps == ASSUME IInv, NEW h \in Handlers, Clear(h) PROVE IInv'
<1> DEFINE p == hs[h].src
<1> USE DEF IInv
<1>1. HoldsLock(hs[h]) /\ p \in InTrash /\ hs[h].pc = "clear"
  BY DEF Clear, Requests, Working, HoldsLock, Idle
<1>2. /\ rows' \in {rows, [rows EXCEPT ![p[2]] = None]}
      /\ hs' = [hs EXCEPT ![h] = Idle] /\ lock' = None
      /\ UNCHANGED <<at, info, sweep, offer, unindexed, raced, early>>
  BY DEF Clear, Release, Return, observers
<1>3. ASSUME NEW n \in Name PROVE Indexed(n)'
  <2>1. Indexed(n)
    OBVIOUS
  <2>2. CASE rows'[n] = rows[n]
    BY <2>1, <2>2, <1>2 DEF Indexed
  <2>3. CASE rows'[n] # rows[n]
    <3>1. n = p[2] /\ Bin(n) = p
      BY <2>3, <1>1, <1>2, Paths DEF Types
    <3>2. Unlisted(p)
      BY <1>1 DEF Underway
    <3> QED
      BY <2>1, <3>1, <3>2, <1>2 DEF Indexed, Unlisted
  <2> QED
    BY <2>2, <2>3
<1>4. /\ rows' \in [Name -> Row \cup {None}] /\ unindexed' \subseteq Files
      /\ offer' \in {NoOffer} \cup [path : InTrash, file : Files \cup {None}]
      /\ info' \in [Files -> FileInfo] /\ \A f \in Files : info'[f] = info[f]
  BY <1>2 DEF Types
<1>5. Idle.hold = None /\ Idle.temp = None
  BY DEF Idle
<1> HIDE DEF IInv
<1> QED
  BY <1>1, <1>2, <1>3, <1>4, <1>5, IdleIsARequest, ReleaseKeeps

----------------------------------------------------------------------------
(* The sweep, time and restarts *)

LEMMA ScanKeeps == ASSUME IInv, Scan PROVE IInv'
<1> USE DEF IInv
<1> DEFINE present == {n \in Name : at[Bin(n)] # None}
           due == {n \in present : DeletedAt(n) = "old"}
<1>1. /\ sweep' = [pc |-> "erase", due |-> due, present |-> present]
      /\ lock = None /\ lock' = "sweep"
      /\ UNCHANGED <<at, info, rows, hs, offer, unindexed, raced, early>>
  BY DEF Scan, Take, observers
<1>2. Types'
  BY <1>1 DEF Types
<1>3. Requests'
  BY <1>1, BoundsAssumption DEF Requests
<1>4. Placed' /\ Own' /\ NothingLost' /\ RetentionKept'
  BY <1>1 DEF Placed, Own, NothingLost, RetentionKept
<1>5. (\A n \in Name : Indexed(n)') /\ \A h \in Handlers : Underway(h)'
  BY <1>1 DEF Indexed, Underway, Unlisted
<1>6. ASSUME NEW n \in due PROVE at[Bin(n)] \in unindexed \/ info[at[Bin(n)]].trashed # "new"
  BY Paths, RowAssumption DEF Indexed, DeletedAt
<1>7. Swept'
  BY <1>1, <1>6 DEF Swept, Unlisted
<1> QED
  BY <1>2, <1>3, <1>4, <1>5, <1>7

LEMMA EraseKeeps == ASSUME IInv, Erase PROVE IInv'
<1> DEFINE gone == {at[Bin(n)] : n \in sweep.due} \ {None}
<1> USE DEF IInv
<1>1. /\ sweep.pc = "erase" /\ sweep' = NoSweep /\ lock' = None
      /\ at' = [p \in Path |-> IF p[1] = "trash" /\ p[2] \in sweep.due THEN None ELSE at[p]]
      /\ info' = [f \in Files |-> IF f \in gone THEN Unused ELSE info[f]]
      /\ rows' \in {rows, [n \in Name |-> IF n \in sweep.present \ sweep.due THEN rows[n] ELSE None]}
      /\ early' = early \cup {IF f \in unindexed THEN "orphan" ELSE "indexed" :
                                f \in {g \in gone : info[g].trashed = "new"}}
      /\ unindexed' = unindexed \ gone
      /\ UNCHANGED <<hs, offer, raced>>
  BY DEF Erase, Release
<1>2. \A h \in Handlers : ~HoldsLock(hs[h])
  BY <1>1, BoundsAssumption DEF Requests
<1>3. sweep.due \subseteq Name
  BY DEF Types
<1>4. /\ \A n \in sweep.due : at'[Bin(n)] = None
      /\ \A p \in Path : at'[p] = at[p] \/ (at'[p] = None /\ at[p] \in gone \cup {None})
  <2>1. ASSUME NEW n \in sweep.due PROVE at'[Bin(n)] = None
    BY <1>1, <1>3, Paths DEF Bin
  <2>2. ASSUME NEW p \in Path PROVE at'[p] = at[p] \/ (at'[p] = None /\ at[p] \in gone \cup {None})
    <3>1. CASE p[1] = "trash" /\ p[2] \in sweep.due
      <4>1. p = Bin(p[2])
        BY <3>1, Paths
      <4> QED
        BY <4>1, <3>1, <1>1
    <3>2. CASE ~(p[1] = "trash" /\ p[2] \in sweep.due)
      BY <3>2, <1>1
    <3> QED
      BY <3>1, <3>2
  <2> QED
    BY <2>1, <2>2
<1>5. \A p \in Path : at'[p] # None => at[p] = at'[p] /\ at[p] \in Files /\ at[p] \notin gone
  <2> SUFFICES ASSUME NEW p \in Path, at'[p] # None
               PROVE  at[p] = at'[p] /\ at[p] \in Files /\ at[p] \notin gone
    OBVIOUS
  <2>1. at[p] = at'[p] /\ at[p] \in Files
    BY <1>4, Holdings
  <2>2. ASSUME NEW n \in sweep.due, at[p] = at[Bin(n)] PROVE FALSE
    <3>1. p = Bin(n)
      BY <1>3, <2>1, <2>2, Paths, BoundsAssumption DEF Placed
    <3> QED
      BY <3>1, <1>4
  <2> QED
    BY <2>1, <2>2
<1> HIDE DEF gone
<1>6. \A f \in Files : (f \in gone => info'[f] = Unused) /\ (f \notin gone => info'[f] = info[f])
  BY <1>1
<1>7. Types'
  <2>1. Unused \in FileInfo
    BY DEF Unused, FileInfo, Age
  <2>2. at' \in [Path -> Files \cup {None}] /\ info' \in [Files -> FileInfo]
    BY <2>1, <1>1 DEF Types
  <2>3. rows' \in [Name -> Row \cup {None}]
    BY <1>1 DEF Types
  <2>4. sweep' \in [pc : {"idle", "erase"}, due : SUBSET Name, present : SUBSET Name]
    BY <1>1 DEF NoSweep
  <2> QED
    BY <2>2, <2>3, <2>4, <1>1 DEF Types
<1>8. Requests'
  BY <1>1, <1>2 DEF Requests, NoSweep
<1>9. Placed'
  BY <1>5, <1>6 DEF Placed
<1>10. \A f \in gone : info[f].kind \in {"file", "empty"}
  BY <1>3, Paths DEF gone, Placed
<1>11. Own'
  <2>1. \A f \in Files : info[f].kind \in {"empty", "unused"} => info'[f].kind \in {"empty", "unused"}
    BY <1>6 DEF Unused
  <2>2. \A h \in Handlers : hs'[h].temp # None => info'[hs'[h].temp].kind = "output"
    BY <1>1, <1>6, <1>10, Holdings DEF Own
  <2> QED
    BY <2>1, <2>2, <1>1, OwnKept
<1>12. ASSUME NEW n \in Name PROVE Indexed(n)'
  <2>1. CASE at'[Bin(n)] = None
    BY <2>1 DEF Indexed
  <2>2. CASE at'[Bin(n)] # None
    <3>1. /\ at'[Bin(n)] = at[Bin(n)] /\ info'[at[Bin(n)]] = info[at[Bin(n)]]
          /\ at[Bin(n)] \in unindexed => at[Bin(n)] \in unindexed'
          /\ n \notin sweep.due
      BY <2>2, <1>1, <1>4, <1>5, <1>6, Paths
    <3>2. n \notin sweep.present => at[Bin(n)] \in unindexed
      BY <2>2, <3>1, <1>1 DEF Swept, Unlisted
    <3>3. n \in sweep.present => rows'[n] = rows[n]
      BY <3>1, <1>1
    <3>4. Indexed(n) /\ raced' = raced
      BY <1>1
    <3> QED
      BY <3>1, <3>2, <3>3, <3>4 DEF Indexed
  <2> QED
    BY <2>1, <2>2
<1>13. \A h \in Handlers : Underway(h)'
  BY <1>1, <1>2, NothingUnderway
<1>14. Swept'
  BY <1>1 DEF Swept, NoSweep
<1>15. NothingLost'
  <2> SUFFICES ASSUME ~raced', NEW f \in Files, info'[f].kind = "file"
               PROVE  \E p \in Path : at'[p] = f
    BY DEF NothingLost
  <2>1. f \notin gone /\ info[f].kind = "file" /\ ~raced
    BY <1>1, <1>6 DEF Unused
  <2>2. PICK p \in Path : at[p] = f
    BY <2>1 DEF NothingLost
  <2> QED
    BY <2>1, <2>2, <1>4, BoundsAssumption
<1>16. RetentionKept'
  <2>1. ASSUME NEW f \in gone, info[f].trashed = "new" PROVE f \in unindexed
    BY <2>1, <1>1, <1>3 DEF gone, Swept
  <2>2. \A x \in early' : x \in early \/ x = "orphan"
    BY <2>1, <1>1
  <2> QED
    BY <2>2 DEF RetentionKept
<1> QED
  BY <1>7, <1>8, <1>9, <1>11, <1>12, <1>13, <1>14, <1>15, <1>16

\* While nobody is at work there is nothing to be kept of requests.
LEMMA QuietKeeps ==
  ASSUME \A h \in Handlers : hs'[h] = Idle, sweep'.pc = "idle"
  PROVE  Requests' /\ Own' /\ (\A h \in Handlers : Underway(h)') /\ Swept'
BY IdleIsARequest, NothingUnderway DEF Requests, Own, Swept, Idle

LEMMA DaysKeeps == ASSUME IInv, Days PROVE IInv'
<1> USE DEF IInv
<1>1. /\ info' = [f \in Files |->
                    IF info[f].kind = "unused" THEN info[f]
                    ELSE [info[f] EXCEPT !.mtime = "old", !.was = "old",
                                         !.trashed = IF @ = "no" THEN "no" ELSE "old"]]
      /\ rows' = [n \in Name |-> IF rows[n] = None THEN None
                                 ELSE [rows[n] EXCEPT !.at = "old", !.mod = "old"]]
      /\ offer' = NoOffer /\ UNCHANGED <<at, lock, hs, sweep, unindexed, raced, early>>
  BY DEF Days, observers
<1>2. ASSUME NEW f \in Files
      PROVE  /\ info'[f] \in FileInfo /\ info'[f].kind = info[f].kind
             /\ info'[f].origin = info[f].origin
             /\ info[f].kind # "unused" =>
                  /\ info'[f].was = "old"
                  /\ info'[f].trashed = IF info[f].trashed = "no" THEN "no" ELSE "old"
  <2>1. info[f] \in FileInfo
    BY DEF Types
  <2> QED
    BY <1>1, <2>1 DEF FileInfo, Age
<1>3. ASSUME NEW n \in Name
      PROVE  /\ rows[n] = None => rows'[n] = None
             /\ rows[n] # None => /\ rows'[n] \in Row /\ rows'[n].from = rows[n].from
                                  /\ rows'[n].at = "old" /\ rows'[n].mod = "old"
  <2>1. rows[n] \in Row \cup {None}
    BY DEF Types
  <2> QED
    BY <1>1, <2>1 DEF Row, Age
<1>4. Types'
  <2>1. rows' \in [Name -> Row \cup {None}] /\ info' \in [Files -> FileInfo]
    BY <1>1, <1>2, <1>3
  <2> QED
    BY <2>1, <1>1 DEF Types
<1>5. Requests' /\ Own' /\ (\A h \in Handlers : Underway(h)') /\ Swept'
  <2>1. sweep'.pc = "idle" /\ \A h \in Handlers : hs'[h].pc = "idle" /\ Working(hs'[h])
    BY <1>1 DEF Days, Quiet, Requests
  <2>2. \A h \in Handlers : hs'[h] = Idle
    BY <2>1 DEF Working
  <2> QED
    BY <2>1, <2>2, QuietKeeps
<1>6. Placed'
  <2>1. \A p \in Path : at[p] # None => info'[at[p]].kind = info[at[p]].kind
    BY <1>2, Holdings
  <2> QED
    BY <2>1, <1>1 DEF Placed
<1>7. ASSUME NEW n \in Name PROVE Indexed(n)'
  <2>1. CASE at[Bin(n)] = None
    BY <2>1, <1>1 DEF Indexed
  <2>2. CASE at[Bin(n)] # None
    <3>1. Bin(n) \in Path /\ Indexed(n) /\ at[Bin(n)] \in Files
      BY <2>2, Paths, Holdings
    <3>2. /\ info'[at[Bin(n)]].kind = info[at[Bin(n)]].kind
          /\ info'[at[Bin(n)]].origin = info[at[Bin(n)]].origin
          /\ info'[at[Bin(n)]].was = "old"
          /\ info'[at[Bin(n)]].trashed =
               IF info[at[Bin(n)]].trashed = "no" THEN "no" ELSE "old"
      BY <3>1, <2>2, <1>2 DEF Placed
    <3>3. rows[n] \in Row => /\ rows'[n] \in Row /\ rows'[n].from = rows[n].from
                             /\ rows'[n].at = "old" /\ rows'[n].mod = "old"
      BY <1>3, RowAssumption
    <3> QED
      BY <3>1, <3>2, <3>3, <1>1 DEF Indexed
  <2> QED
    BY <2>1, <2>2
<1>8. NothingLost' /\ RetentionKept'
  BY <1>1, <1>2 DEF NothingLost, RetentionKept
<1> QED
  BY <1>4, <1>5, <1>6, <1>7, <1>8

LEMMA RestartKeeps == ASSUME IInv, Restart PROVE IInv'
<1> USE DEF IInv
<1>1. /\ info' = [f \in Files |-> IF info[f].kind = "output" THEN Unused ELSE info[f]]
      /\ lock' = None /\ hs' = [h \in Handlers |-> Idle] /\ sweep' = NoSweep
      /\ UNCHANGED <<at, rows, offer, unindexed, raced, early>>
  BY DEF Restart, observers
<1>2. Types'
  <2>1. Unused \in FileInfo
    BY DEF Unused, FileInfo, Age
  <2>2. sweep' \in [pc : {"idle", "erase"}, due : SUBSET Name, present : SUBSET Name]
    BY <1>1 DEF NoSweep
  <2> QED
    BY <1>1, <2>1, <2>2, IdleIsARequest DEF Types
<1>3. Requests' /\ Own' /\ (\A h \in Handlers : Underway(h)') /\ Swept'
  BY <1>1, QuietKeeps DEF NoSweep
<1>4. \A p \in Path : at[p] # None => at[p] \in Files /\ info'[at[p]] = info[at[p]]
  BY <1>1, Holdings DEF Placed
<1>5. Placed'
  BY <1>1, <1>4 DEF Placed
<1>6. \A n \in Name : Indexed(n)'
  BY <1>1, <1>4, Paths DEF Indexed
<1>7. NothingLost' /\ RetentionKept'
  BY <1>1 DEF NothingLost, RetentionKept, Unused
<1> QED
  BY <1>2, <1>3, <1>5, <1>6, <1>7

LEMMA IInvInit == Init => IInv
<1> SUFFICES ASSUME Init PROVE IInv
  OBVIOUS
<1> DEFINE first == CHOOSE g \in [Bases -> Files] : \A a, b \in Bases : g[a] = g[b] => a = b
<1>1. first \in [Bases -> Files] /\ \A a, b \in Bases : first[a] = first[b] => a = b
  BY BoundsAssumption
<1>2. /\ at = [p \in Path |-> IF p[1] = "drive" /\ Len(p[2]) = 1 THEN first[p[2][1]] ELSE None]
      /\ info = [f \in Files |-> IF \E b \in Bases : first[b] = f
                                 THEN [Unused EXCEPT !.kind = "file", !.mtime = "old"]
                                 ELSE Unused]
      /\ rows = [n \in Name |-> None] /\ lock = None /\ hs = [h \in Handlers |-> Idle]
      /\ sweep = NoSweep /\ offer = NoOffer /\ unindexed = {} /\ raced = FALSE /\ early = {}
  BY DEF Init
<1> HIDE DEF first
<1>3. ASSUME NEW p \in Path, p[1] = "drive" /\ Len(p[2]) = 1
      PROVE  \E b \in Bases : p = Drive(<<b>>) /\ p[2][1] = b
  <2>1. p[2] \in Given
    BY <1>3 DEF Path, Name, Given
  <2> QED
    BY <2>1, <1>3 DEF Given, Path, Drive
<1>4. ASSUME NEW p \in Path, at[p] # None
      PROVE  \E b \in Bases : p = Drive(<<b>>) /\ at[p] = first[b]
  BY <1>2, <1>3, <1>4
<1>5. ASSUME NEW b \in Bases PROVE Drive(<<b>>) \in Path /\ at[Drive(<<b>>)] = first[b]
  BY <1>2 DEF Path, Name, Given, Drive
<1>6. Types
  <2>1. at \in [Path -> Files \cup {None}]
    <3>1. \A p \in Path : at[p] \in Files \cup {None}
      BY <1>1, <1>4
    <3> QED
      BY <3>1, <1>2
  <2>2. info \in [Files -> FileInfo]
    <3>1. Unused \in FileInfo /\ [Unused EXCEPT !.kind = "file", !.mtime = "old"] \in FileInfo
      BY DEF Unused, FileInfo, Age
    <3> QED
      BY <3>1, <1>2
  <2> QED
    BY <2>1, <2>2, <1>2, IdleIsARequest DEF Types, NoSweep
<1>7. Requests /\ Own /\ (\A h \in Handlers : Underway(h)) /\ Swept /\ RetentionKept
  BY <1>2, IdleIsARequest DEF Requests, Own, Underway, HoldsLock, Swept, NoSweep, RetentionKept, Idle
<1>8. Placed
  <2>1. ASSUME NEW p \in Path, NEW q \in Path, at[p] # None, at[p] = at[q] PROVE p = q
    BY <2>1, <1>1, <1>4
  <2>2. ASSUME NEW p \in Path, at[p] # None PROVE info[at[p]].kind = "file"
    <3>1. PICK b \in Bases : at[p] = first[b]
      BY <1>4, <2>2
    <3> QED
      BY <3>1, <1>1, <1>2 DEF Unused
  <2> QED
    BY <2>1, <2>2 DEF Placed
<1>9. \A n \in Name : Indexed(n)
  <2>1. \A n \in Name : at[Bin(n)] = None
    BY <1>2, Paths DEF Bin
  <2> QED
    BY <2>1 DEF Indexed
<1>10. NothingLost
  BY <1>1, <1>2, <1>5 DEF NothingLost, Unused
<1> QED
  BY <1>6, <1>7, <1>8, <1>9, <1>10 DEF IInv

LEMMA IInvNext == IInv /\ [Next]_vars => IInv'
<1> SUFFICES ASSUME IInv, [Next]_vars PROVE IInv'
  OBVIOUS
<1>1. ASSUME NEW h \in Handlers, NewRequest(h) PROVE IInv'
  <2>1. ASSUME NEW n \in Name, DeleteBegin(h, n) \/ Restore(h, n) PROVE IInv'
    BY <2>1, DeleteBeginKeeps, RestoreKeeps
  <2>2. ASSUME NEW n \in Given, NEW m \in Given, EditBegin(h, n, m) PROVE IInv'
    BY <2>2, EditBeginKeeps, Paths
  <2>3. ASSUME NEW p \in Path, NEW d \in {"drive", "trash"}, NEW n \in Given,
               RenameBegin(h, p, <<d, n>>)
        PROVE  IInv'
    <3>1. <<d, n>> \in Path
      BY Paths DEF Path
    <3> QED
      BY <2>3, <3>1, RenameBeginKeeps
  <2> QED
    BY <1>1, <2>1, <2>2, <2>3, UndoKeeps DEF NewRequest
<1>2. ASSUME NEW h \in Handlers, Step(h) PROVE IInv'
  BY <1>2, ReserveKeeps, MoveInKeeps, RenameFailsKeeps, StampKeeps, IndexKeeps, LandKeeps,
     GiveUpKeeps, RestoreReserveKeeps, RestoreMoveKeeps, ClearKeeps, RenameMoveKeeps DEF Step
<1>3. ASSUME NEW h \in Handlers, IndexFails(h) PROVE IInv'
  BY <1>3, IndexFailsKeeps
<1>4. ASSUME NEW n \in Name, PermanentDelete(n) PROVE IInv'
  BY <1>4, PermanentDeleteKeeps
<1>5. ASSUME NEW n \in Given, Upload(n) PROVE IInv'
  BY <1>5, UploadKeeps, Paths
<1>6. ASSUME Sweep \/ Days \/ Restart PROVE IInv'
  BY <1>6, ScanKeeps, EraseKeeps, DaysKeeps, RestartKeeps DEF Sweep
<1>7. CASE UNCHANGED vars
  BY <1>7 DEF vars, observers, IInv, Types, Requests, Placed, Own, Indexed, Underway, Unlisted,
     Swept, NothingLost, RetentionKept
<1> QED
  BY <1>1, <1>2, <1>3, <1>4, <1>5, <1>6, <1>7 DEF Next

LEMMA IInvAlways == Spec => []IInv
BY IInvInit, IInvNext, PTL DEF Spec

----------------------------------------------------------------------------
(* Theorems *)

\* As long as no path changed under a request between its look and its rename, every file is in
\* the drive or in the trash: a delete, a restore, an undo, an edit, a crash at any point of them
\* and a sweep lose none (trash.go, resize.go).
THEOREM NoFileLost == Spec => []NothingLost
<1>1. IInv => NothingLost
  BY DEF IInv
<1> QED
  BY <1>1, IInvAlways, PTL

\* The row of a file in the trash says where it was, how long ago that is and which mtime to give
\* back, whatever was renamed in the trash meanwhile.
THEOREM RowsTrue == Spec => []RowsTellTruth
<1>1. IInv => RowsTellTruth
  <2> SUFFICES ASSUME IInv, ~raced, NEW n \in Name, at[Bin(n)] # None,
                      info[at[Bin(n)]].kind = "file", at[Bin(n)] \notin unindexed
               PROVE  rows[n] = [from |-> info[at[Bin(n)]].origin, at |-> info[at[Bin(n)]].trashed,
                                 mod |-> info[at[Bin(n)]].was]
    BY DEF RowsTellTruth
  <2>1. /\ rows[n] \in Row /\ rows[n].from = info[at[Bin(n)]].origin
        /\ rows[n].at = info[at[Bin(n)]].trashed /\ rows[n].mod = info[at[Bin(n)]].was
    BY DEF IInv, Indexed
  <2> QED
    BY <2>1 DEF Row
<1> QED
  BY <1>1, IInvAlways, PTL

\* No file that has a row is erased before its time in the trash is over, races or not.
THEOREM KeptTillDue == Spec => []RetentionKept
<1>1. IInv => RetentionKept
  BY DEF IInv
<1> QED
  BY <1>1, IInvAlways, PTL
==============================================================================
