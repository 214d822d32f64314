------------------------------- MODULE Browser -------------------------------
(***************************************************************************)
(* The file list of the page (src/web/static/js/app/browser.js): the       *)
(* listing cache and its generations, navigation by row, by URL and into a *)
(* vault, the selection, and the batch operations that work on it.         *)
(*                                                                         *)
(* A folder's listing is the set of names the server had in it when it     *)
(* answered, together with the number of this page's own writes it had     *)
(* carried out by then.  The asynchronous steps are those of the code: a   *)
(* request leaves, the server answers it, the answer lands.                *)
(***************************************************************************)
EXTENDS Session

CONSTANTS Server,      \* the folders the server lists
          Home,        \* the drive's root, one of them
          VaultRoot,   \* a vault's own folder, one of them
          VaultDeep,   \* a folder inside the vault: only its index knows it
          Order,       \* the file names, in name order
          Hidden,      \* the names the filter leaves out
          MaxInFlight, \* bound: listings on their way at a time
          MAX_PREFETCHES

ASSUME BrowserAssumption ==
  /\ {Home, VaultRoot} \subseteq Server /\ Home # VaultRoot /\ VaultDeep \notin Server
  /\ Order \in Seq(ToSet(Order))
  /\ MAX_PREFETCHES \in Nat /\ MaxInFlight \in Nat \ {0}

Name == ToSet(Order)
Path == Server \cup {VaultDeep}
Plain == Server \ {VaultRoot}

VARIABLES
  files,       \* on the server: folder -> names in it
  writes,      \* own writes the server has carried out
  acked,       \* own writes whose reply has come
  cache,       \* listingCache: folder -> listing or None
  listingGen, navSeq,
  ops,         \* the listings on their way
  cur,         \* state.currentPath
  inVault,     \* state.inVault
  all,         \* state.allEntries, as a set of names
  desc,        \* state.sorts: folder -> listed in descending order
  filter,      \* whether the entry filters leave the Hidden names out
  selected,    \* state.selected
  anchor,      \* state.lastClickIdx, 0 for null
  batch,       \* the write operation under way, or None
  vault,       \* the vault client: [open, unlocking, pending, gen, url, work]
  asked,       \* observer: the folder the user asked for last
  strayed,     \* observer: what Quiet leaves out has happened (see Overtaken)
  unseen,      \* observer: folders others changed since the newest navigation's answer
  anchorName   \* observer: the name clicked when the anchor was set

\* Items go from the folder on screen, which may be inside a vault by then.
Batches ==
  [kind : {"move", "copy", "delete", "create", "rename"}, todo : Seq(Name),
   dest : Plain \cup Name \cup {None}, sent : [dir : Path, name : Name] \cup {None},
   reply : {None, "ok", "refused"}, dir : Plain, chosen : SUBSET Name, done : Nat]
ASSUME NoBatchAssumption == None \notin Batches \cup {"ok"}

browserVars == <<files, writes, acked, cache, listingGen, navSeq, ops, cur, inVault, all, desc,
                 filter, selected, anchor, batch, vault, asked, strayed, unseen,
                 anchorName>>
serverVars  == <<files, writes, acked>>
cacheVars   == <<cache, listingGen>>
screenVars  == <<cur, inVault, all, selected, anchor, anchorName>>
wishVars    == <<asked, strayed, unseen>>

Covers(p) == vault.open /\ p \in {VaultRoot, VaultDeep}
Unlocked  == inVault /\ vault.open

\* The names in a set of rows in name order, or down from the last one (SetToSortSeq, as a function
\* a proof can expand).
Before(m, n, down) ==
  LET at(name) == CHOOSE i \in DOMAIN Order : Order[i] = name
  IN  IF down THEN at(m) >= at(n) ELSE at(m) <= at(n)
Rank(n, rows, down) == Cardinality({m \in rows : Before(m, n, down)})
Sorted(rows, down) ==
  [k \in {Rank(n, rows, down) : n \in rows} |-> CHOOSE n \in rows : Rank(n, rows, down) = k]

\* state.entries: what the filters leave of the listing, in the folder's order
Rows    == {n \in Name \cap all : ~(filter /\ n \in Hidden)}
Entries == Sorted(Rows, desc[cur])

Parent(p) == IF p = VaultDeep THEN VaultRoot ELSE Home
------------------------------------------------------------------------------
(* Painting.                                                               *)

\* Seeded fault (see the README): what is being decrypted keeps the generation it began in.
ReleasedInGen(v) == [v EXCEPT !.url = FALSE]

\* releaseVaultBlobs: the URL is revoked, and what is being decrypted will find a newer generation
Released(v) == [v EXCEPT !.gen = @ + 1, !.url = FALSE]

\* Seeded fault: the Shift anchor outlives the rows it counts.
ApplyKeepingAnchor(p, names, keepSelection, v) ==
  /\ cur' = p
  /\ inVault' = (p \in {VaultRoot, VaultDeep})
  /\ all' = IF inVault' /\ ~v.open THEN {} ELSE names
  /\ vault' = IF inVault' /\ v.open THEN v ELSE Released(v)
  /\ selected' = IF keepSelection
                   THEN {n \in selected : n \in all' /\ ~(filter /\ n \in Hidden)} ELSE {}
  /\ UNCHANGED <<anchor, anchorName>>

\* A listing of p is painted: the selection goes, or what survives of it stays.
ApplyListing(p, names, keepSelection, v) ==
  /\ cur' = p
  /\ inVault' = (p \in {VaultRoot, VaultDeep})
  /\ all' = IF inVault' /\ ~v.open THEN {} ELSE names
  /\ vault' = IF inVault' /\ v.open THEN v ELSE Released(v)
  /\ selected' = IF keepSelection
                   THEN {n \in selected : n \in all' /\ ~(filter /\ n \in Hidden)} ELSE {}
  /\ anchor' = 0 /\ anchorName' = None

\* An answer reconciles what is on screen, unless the user is elsewhere or nothing moved.
RefreshListing(p, cached, names) ==
  IF cur # p \/ names = cached THEN UNCHANGED <<screenVars, vault>>
  ELSE ApplyListing(p, names, TRUE, vault)

\* An unlocked vault lists itself from its index; nothing is asked of the server.
ApplyVaultListing(p, v) == ApplyListing(p, {}, FALSE, v)
------------------------------------------------------------------------------
(* The listing cache.                                                      *)

Op(kind, p, from) ==
  [kind |-> kind, path |-> p, seq |-> navSeq', gen |-> listingGen, from |-> from,
   id |-> left, reply |-> None]

\* Seeded fault: an answer is kept whatever was written since it was asked for.
CacheAnyListing(op) ==
  IF op.kind # "climb" THEN cache' = [cache EXCEPT ![op.path] = op.reply] ELSE UNCHANGED cache

\* fetchListing keeps an answer only if no write of this page was acknowledged meanwhile.
CacheListing(op) ==
  IF op.kind # "climb" /\ op.gen = listingGen
    THEN cache' = [cache EXCEPT ![op.path] = op.reply] ELSE UNCHANGED cache

Ask(op) == Cardinality(ops) < MaxInFlight /\ ops' = ops \cup {op}

\* A row is pressed: its folder is fetched ahead of the click.
PrefetchListing(p) ==
  /\ Gesture
  /\ Cardinality({op \in ops : op.kind = "prefetch"}) < MAX_PREFETCHES
  /\ cache[p] = None /\ ~Covers(p)
  /\ UNCHANGED navSeq
  /\ Ask(Op("prefetch", p, None))
  /\ UNCHANGED <<serverVars, cacheVars, screenVars, wishVars, desc, filter, batch, vault>>

\* The server answers with what the folder holds now; it lists no folder of a vault's inside.
Answer(op) ==
  /\ op.reply = None
  /\ ops' = (ops \ {op}) \cup
       {[op EXCEPT !.reply = IF op.path = VaultDeep THEN Failed
                             ELSE [names |-> files[op.path], at |-> writes]]}
  /\ unseen' = IF op.kind \in {"nav", "hash"} /\ op.seq = navSeq
                 THEN unseen \ {op.path} ELSE unseen
  /\ UNCHANGED <<serverVars, cacheVars, navSeq, screenVars, asked, strayed, desc, filter, batch,
                 vault, left>>

\* The request never gets an answer.
Fail(op) ==
  /\ op.reply = None
  /\ Gesture
  /\ ops' = (ops \ {op}) \cup {[op EXCEPT !.reply = Failed]}
  /\ UNCHANGED <<serverVars, cacheVars, navSeq, screenVars, wishVars, desc, filter, batch, vault>>
------------------------------------------------------------------------------
(* Navigation.                                                             *)

\* What navigate and handleHashNavigation share: a vault's own tree is shown at once; else the
\* cached rows are, and the listing is asked for.  chosen: what is selected until rows are painted.
Go(p, kind, v, chosen) ==
  IF v.open /\ p \in {VaultRoot, VaultDeep}
    THEN ApplyVaultListing(p, v) /\ UNCHANGED <<navSeq, ops>>
    ELSE /\ navSeq' = navSeq + 1
         /\ Ask(Op(kind, p, IF p \in Server THEN cache[p] ELSE None))
         /\ IF p \in Server /\ cache[p] # None
              THEN ApplyListing(p, cache[p].names, FALSE, v)
              ELSE /\ selected' = chosen /\ vault' = v
                   /\ UNCHANGED <<cur, inVault, all, anchor, anchorName>>

\* A folder is opened from its row or a crumb, or named by the URL (history, bookmark, typed in).
Navigate(p, kind) ==
  /\ Gesture
  /\ kind = "hash" \/ Covers(p) \/ p \in Server
  /\ Go(p, kind, vault, selected)
  /\ asked' = p
  \* the vault's own listing bumps no sequence number: a listing on its way can still paint over it
  /\ strayed' = (strayed \/ (Covers(p) /\ ops # {}))
  /\ UNCHANGED <<serverVars, cacheVars, unseen, desc, filter, batch>>

\* The answer of a prefetch is only kept.
LandPrefetch(op) ==
  /\ op.kind = "prefetch" /\ op.reply # None
  /\ ops' = ops \ {op}
  /\ IF op.reply = Failed THEN UNCHANGED cache ELSE CacheListing(op)
  /\ UNCHANGED <<serverVars, listingGen, navSeq, screenVars, wishVars, desc, filter, batch, vault,
                 left>>

\* Seeded fault: an answer is painted whether or not another navigation has begun.
LandAnyListing(op) ==
  /\ op.kind \in {"nav", "hash"} /\ op.reply \notin {None, Failed}
  /\ ops' = ops \ {op}
  /\ CacheListing(op)
  /\ ApplyListing(op.path, op.reply.names, FALSE, vault)
  /\ UNCHANGED <<serverVars, listingGen, navSeq, wishVars, desc, filter, batch, left>>

\* The answer of a navigation is kept, and painted unless another navigation has begun since.
LandListing(op) ==
  /\ op.kind \in {"nav", "hash"} /\ op.reply \notin {None, Failed}
  /\ ops' = ops \ {op}
  /\ CacheListing(op)
  /\ IF op.seq # navSeq THEN UNCHANGED <<screenVars, vault>>
     ELSE IF op.from # None THEN RefreshListing(op.path, op.from.names, op.reply.names)
     ELSE ApplyListing(op.path, op.reply.names, FALSE, vault)
  /\ UNCHANGED <<serverVars, listingGen, navSeq, wishVars, desc, filter, batch, left>>

\* A navigation that failed leaves what is on screen; a link into a locked vault climbs instead.
LandFailed(op) ==
  /\ op.kind \in {"nav", "hash", "climb"} /\ op.reply = Failed
  /\ IF op.kind = "hash" /\ op.from = None /\ Parent(op.path) # Home
       THEN ops' = (ops \ {op}) \cup
                     {[op EXCEPT !.kind = "climb", !.path = Parent(op.path), !.reply = None]}
            /\ UNCHANGED strayed
       ELSE ops' = ops \ {op} /\ strayed' = TRUE
  /\ UNCHANGED <<serverVars, cacheVars, navSeq, screenVars, asked, unseen, desc, filter, batch, vault,
                 left>>

\* climbToVault found the vault above the link: its unlock panel is painted, whatever was asked since.
LandClimb(op) ==
  /\ op.kind = "climb" /\ op.reply \notin {None, Failed}
  /\ ops' = ops \ {op}
  /\ cur' = op.path /\ inVault' = TRUE /\ all' = {} /\ selected' = {}
  /\ anchor' = 0 /\ anchorName' = None
  /\ vault' = [(IF vault.open THEN vault ELSE Released(vault)) EXCEPT !.pending = VaultDeep]
  /\ IF asked = VaultDeep THEN asked' = op.path /\ UNCHANGED strayed
     ELSE strayed' = TRUE /\ UNCHANGED asked
  /\ UNCHANGED <<serverVars, cacheVars, navSeq, unseen, desc, filter, batch, left>>
------------------------------------------------------------------------------
(* The selection.                                                          *)

Position(n) == CHOOSE i \in DOMAIN Entries : Entries[i] = n

\* A click selects the row alone, with Ctrl it adds or takes it, with Shift it selects from the
\* row clicked last.
Click(n, key) ==
  /\ Gesture
  /\ n \in ToSet(Entries)
  /\ key = "shift" => anchor # 0
  /\ LET i == Position(n)
     IN  CASE key = "plain" -> selected' = {n} /\ anchor' = i /\ anchorName' = n
           [] key = "ctrl"  -> /\ selected' = (selected \cup {n}) \ (selected \cap {n})
                               /\ anchor' = i /\ anchorName' = n
           [] key = "shift" ->
                /\ selected' = {Entries[k] : k \in {k \in DOMAIN Entries : \/ anchor <= k /\ k <= i
                                                                           \/ i <= k /\ k <= anchor}}
                /\ UNCHANGED <<anchor, anchorName>>
  /\ UNCHANGED <<serverVars, cacheVars, navSeq, ops, cur, inVault, all, wishVars, desc, filter,
                 batch, vault>>

SelectAll ==
  /\ Gesture
  /\ selected' = selected \cup ToSet(Entries)
  /\ UNCHANGED <<serverVars, cacheVars, navSeq, ops, cur, inVault, all, anchor, anchorName, wishVars,
                 desc, filter, batch, vault>>

\* The sort menu and the filters rearrange the rows and leave the anchor's index as it was: from
\* then on SelectionStandsForRows says nothing of the anchor.
Rearrange ==
  /\ Gesture
  /\ \/ desc' = [desc EXCEPT ![cur] = ~@] /\ UNCHANGED filter
     \/ filter' = ~filter /\ UNCHANGED desc
  /\ anchorName' = None
  /\ UNCHANGED <<serverVars, cacheVars, navSeq, ops, cur, inVault, all, selected, anchor, wishVars,
                 batch, vault>>
------------------------------------------------------------------------------
(* Writes: move, copy and delete what is selected, one request after the   *)
(* other; create and rename are one request each.                          *)

Chosen == Sorted(Rows \cap selected, desc[cur])

StartBatch(kind, todo, dest) ==
  /\ Gesture
  /\ batch = None /\ todo # <<>> /\ cur \in Plain
  /\ batch' = [kind |-> kind, todo |-> todo, dest |-> dest, sent |-> None, reply |-> None,
               dir |-> cur, chosen |-> selected, done |-> 0]
  /\ UNCHANGED <<serverVars, cacheVars, navSeq, ops, screenVars, wishVars, desc, filter, vault>>

\* A move or a copy is chosen in the folder picker, which returns before the first request.
MoveEntriesToDir(dest) == dest # cur /\ StartBatch("move", Chosen, dest)
CopyEntriesToDir(dest) == StartBatch("copy", Chosen, dest)
DeleteEntries == StartBatch("delete", Chosen, None)
CreateFile(n) == StartBatch("create", <<n>>, None)
ShowRename(n, m) == n \in ToSet(Chosen) /\ n # m /\ StartBatch("rename", <<n>>, m)

\* Seeded fault: the next item is read off the selection when its turn comes.
SendSelected ==
  /\ batch # None /\ batch.sent = None /\ batch.todo # <<>> /\ Chosen # <<>>
  /\ batch' = [batch EXCEPT !.todo = Tail(@), !.sent = [dir |-> cur, name |-> Head(Chosen)]]
  /\ UNCHANGED <<serverVars, cacheVars, navSeq, ops, screenVars, wishVars, desc, filter, vault, left>>

\* The path of an item is made when its turn comes, from the folder then on screen.
SendItem ==
  /\ batch # None /\ batch.sent = None /\ batch.todo # <<>>
  /\ LET dir == IF batch.kind \in {"create", "rename"} THEN batch.dir ELSE cur
     IN  batch' = IF batch.kind \in {"move", "copy"} /\ dir = batch.dest
                    THEN [batch EXCEPT !.todo = Tail(@)]
                    ELSE [batch EXCEPT !.todo = Tail(@),
                                       !.sent = [dir |-> dir, name |-> Head(batch.todo)]]
  /\ UNCHANGED <<serverVars, cacheVars, navSeq, ops, screenVars, wishVars, desc, filter, vault, left>>

\* What the server's handlers leave of the folders, or the folders as they were when they refuse.
Served(kind, d, n, dest) ==
  IF d \notin Server THEN files
  ELSE CASE kind = "move"   -> IF n \in files[d] /\ n \notin files[dest]
                                 THEN [files EXCEPT ![d] = @ \ {n}, ![dest] = @ \cup {n}] ELSE files
         [] kind = "copy"   -> IF n \in files[d] THEN [files EXCEPT ![dest] = @ \cup {n}] ELSE files
         [] kind = "delete" -> [files EXCEPT ![d] = @ \ {n}]
         [] kind = "create" -> [files EXCEPT ![d] = @ \cup {n}]
         [] kind = "rename" -> IF n \in files[d] /\ dest \notin files[d]
                                 THEN [files EXCEPT ![d] = (@ \ {n}) \cup {dest}] ELSE files

ServeItem ==
  /\ batch # None /\ batch.sent # None /\ batch.reply = None
  /\ files' = Served(batch.kind, batch.sent.dir, batch.sent.name, batch.dest)
  \* a file written over is no refusal
  /\ batch' = [batch EXCEPT !.reply = IF batch.kind = "create" \/ files' # files THEN "ok"
                                      ELSE "refused"]
  /\ writes' = IF batch'.reply = "ok" THEN writes + 1 ELSE writes
  /\ UNCHANGED <<acked, cacheVars, navSeq, ops, screenVars, wishVars, desc, filter, vault, left>>

\* noteFilesChanged: an acknowledged write empties the cache and starts a generation.
NoteFilesChanged ==
  /\ cache' = [p \in Server |-> None]
  /\ listingGen' = listingGen + 1
  /\ acked' = acked + 1

\* An item that failed is reported, and the batch goes on with the next one.
LandItem ==
  /\ batch # None /\ batch.reply # None
  /\ IF batch.reply = "ok" THEN NoteFilesChanged ELSE UNCHANGED <<cacheVars, acked>>
  /\ batch' = [batch EXCEPT !.sent = None, !.reply = None,
                           !.done = IF batch.reply = "ok" THEN @ + 1 ELSE @]
  /\ UNCHANGED <<files, writes, navSeq, ops, screenVars, wishVars, desc, filter, vault, left>>

\* A navigation the page makes by itself overtakes the one the user is waiting for.
Overtaken(p) == \E op \in ops : op.kind \in {"nav", "hash", "climb"} /\ op.path # p

\* After the last item the folder on screen, whichever it is by then, is listed again; what was
\* moved, copied or deleted is selected no more.
FinishBatch ==
  /\ batch # None /\ batch.todo = <<>> /\ batch.sent = None
  /\ batch' = None
  /\ IF batch.done > 0 \/ batch.kind = "delete"
       THEN /\ Go(cur, "nav", vault, IF batch.kind \in {"create", "rename"} THEN selected ELSE {})
            /\ strayed' = (strayed \/ Overtaken(cur))
       ELSE UNCHANGED <<navSeq, ops, screenVars, vault, strayed>>
  /\ UNCHANGED <<serverVars, cacheVars, asked, unseen, desc, filter, left>>

\* Another session changes a folder.
ChangedElsewhere(d, n) ==
  /\ Gesture
  /\ files' = [files EXCEPT ![d] = (@ \cup {n}) \ (@ \cap {n})]
  /\ unseen' = unseen \cup {d}
  /\ UNCHANGED <<writes, acked, cacheVars, navSeq, ops, screenVars, asked, strayed, desc, filter,
                 batch, vault>>
------------------------------------------------------------------------------
(* The vault on screen.                                                    *)

\* The passphrase is entered on the unlock panel.
StartUnlock ==
  /\ Gesture
  /\ inVault /\ ~vault.open /\ ~vault.unlocking
  /\ vault' = [vault EXCEPT !.unlocking = TRUE]
  /\ UNCHANGED <<serverVars, cacheVars, navSeq, ops, screenVars, wishVars, desc, filter, batch>>

\* Unlocking done, the page goes where a link pointed before the climb, else lists what it shows.
FinishUnlock ==
  /\ vault.unlocking
  /\ LET target == IF vault.pending # None THEN vault.pending ELSE cur
     IN  /\ Go(target, "nav", [vault EXCEPT !.open = TRUE, !.unlocking = FALSE, !.pending = None],
               selected)
         /\ asked' = IF target = VaultDeep THEN target ELSE asked
         /\ strayed' = (strayed \/ ops # {})
  /\ UNCHANGED <<serverVars, cacheVars, unseen, desc, filter, batch, left>>

\* lockVault, by the button: the page is left at the vault's own folder, sealed.
LockVault ==
  /\ cur' = VaultRoot /\ all' = {} /\ selected' = {} /\ anchor' = 0 /\ anchorName' = None
  /\ vault' = [Released(vault) EXCEPT !.open = FALSE]
  /\ asked' = VaultRoot
  /\ strayed' = (strayed \/ ops # {})

Lock ==
  /\ Gesture
  /\ Unlocked /\ LockVault
  /\ UNCHANGED <<serverVars, cacheVars, navSeq, ops, inVault, unseen, desc, filter, batch>>

\* Left alone the vault locks itself, from wherever the user is by then.
AutoLock ==
  /\ Gesture
  /\ vault.open
  /\ IF inVault THEN LockVault
     ELSE vault' = [vault EXCEPT !.open = FALSE] /\ UNCHANGED <<screenVars, asked, strayed>>
  /\ UNCHANGED <<serverVars, cacheVars, navSeq, ops, inVault, unseen, desc, filter, batch>>

\* A row's thumbnail or a viewer asks for the decrypted file; one decryption serves them all.
VaultBlobUrl ==
  /\ Gesture
  /\ Unlocked /\ ~vault.url /\ vault.gen \notin vault.work
  /\ vault' = [vault EXCEPT !.work = @ \cup {vault.gen}]
  /\ UNCHANGED <<serverVars, cacheVars, navSeq, ops, screenVars, wishVars, desc, filter, batch>>

\* A decryption that outlived its generation is thrown away.
Decrypted(g) ==
  /\ g \in vault.work
  /\ vault' = [vault EXCEPT !.work = @ \ {g}, !.url = @ \/ g = vault.gen]
  /\ UNCHANGED <<serverVars, cacheVars, navSeq, ops, screenVars, wishVars, desc, filter, batch, left>>
------------------------------------------------------------------------------
BrowserInit ==
  /\ files \in [Server -> {Name \ Hidden}]
  /\ writes = 0 /\ acked = 0
  /\ cache = [p \in Server |-> None] /\ listingGen = 0 /\ navSeq = 0 /\ ops = {}
  /\ cur = Home /\ inVault = FALSE /\ all = files[Home]
  /\ desc = [p \in Path |-> FALSE] /\ filter = FALSE
  /\ selected = {} /\ anchor = 0 /\ batch = None
  /\ vault = [open |-> FALSE, unlocking |-> FALSE, pending |-> None, gen |-> 0, url |-> FALSE,
              work |-> {}]
  /\ asked = Home /\ strayed = FALSE /\ unseen = {} /\ anchorName = None

\* What the page and the server do by themselves.
BrowserAsync ==
  \/ \E op \in ops : Answer(op) \/ LandPrefetch(op) \/ LandListing(op) \/ LandFailed(op) \/ LandClimb(op)
  \/ SendItem \/ ServeItem \/ LandItem \/ FinishBatch
  \/ FinishUnlock \/ (\E g \in vault.work : Decrypted(g))

Browse ==
  \/ \E p \in Path, kind \in {"nav", "hash"} : Navigate(p, kind)
  \/ \E p \in Server : PrefetchListing(p)
  \/ \E op \in ops : Fail(op)
  \/ \E d \in Plain, n \in Name : ChangedElsewhere(d, n)

Select ==
  \/ \E n \in Name, key \in {"plain", "ctrl", "shift"} : Click(n, key)
  \/ SelectAll \/ Rearrange

Write ==
  \/ \E dest \in Plain : MoveEntriesToDir(dest) \/ CopyEntriesToDir(dest)
  \/ DeleteEntries
  \/ \E n, m \in Name : CreateFile(n) \/ ShowRename(n, m)

UseVault == StartUnlock \/ Lock \/ AutoLock \/ VaultBlobUrl
------------------------------------------------------------------------------
Quiet == ops = {} /\ batch = None /\ ~vault.unlocking /\ ~strayed

\* Once every answer has landed, the page shows the folder the user asked for last, with the rows
\* the server has in it: no overtaken listing has painted over it (navSeq), cached rows have been
\* reconciled, none of the page's own writes is missing, and a sealed vault shows no row.
SettledScreenIsTrue ==
  Quiet => /\ cur = asked
           /\ cur \notin unseen => all = IF inVault THEN {} ELSE files[cur]

\* A cached listing is never older than a write of this page that was acknowledged: going back to
\* a folder cannot bring back a row the user saw go (listingGen).
CacheKeepsUpWithWrites == \A p \in Server : cache[p] # None => cache[p].at >= acked

\* The selection names rows of the listing on screen, and the anchor of a Shift-click is the row
\* that was clicked, whatever listing was painted in between.
SelectionStandsForRows ==
  /\ selected \subseteq all
  /\ anchorName # None => anchor \in DOMAIN Entries /\ Entries[anchor] = anchorName

\* Decrypted bytes are held only while the unlocked vault is on screen.
NoPlaintextOutsideVault == vault.url => Unlocked

\* A batch takes files only from what the user chose, as long as they stay in the folder.
BatchTakesOnlyChosen ==
  [][\A d \in Server : \A n \in files[d] \ files'[d] :
       writes' # writes /\ batch.sent.dir = batch.dir => d = batch.dir /\ n \in batch.chosen]_files
==============================================================================
